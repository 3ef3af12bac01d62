------------------------------ MODULE DshTurn ------------------------------
(***************************************************************************)
(* The continuous dsh runner: a server process that is started, shakes     *)
(* hands and takes one prompt at a time; the others wait in dshQueue.  A   *)
(* process that goes is restarted by a timer, unless its handshakes failed *)
(* DSH_HANDSHAKE_MAX_TRIES times in a row; a recover and a clear close it  *)
(* and start another after an await.                                       *)
(*                                                                         *)
(* self.dsh is the client in force: callbacks and promises of an older     *)
(* client compare themselves with it and return, so one client is modelled *)
(* and what an older one still says is a step that changes nothing.        *)
(*                                                                         *)
(* dshQueue is an array.  A pump keeps a reference to it over its await,   *)
(* and dshTakeQueue puts a new array in its place without emptying the old *)
(* one; `mesma` says whether the pump's array is still the queue, and      *)
(* `antiga` is what the pump's array holds otherwise.                      *)
(*                                                                         *)
(* Left out: text, tools, usage, the model and MCP servers of a session,   *)
(* and the retry of a handshake without a server that did not connect.     *)
(***************************************************************************)
EXTENDS Naturals, Sequences, FiniteSets
LOCAL INSTANCE SequencesExt

CONSTANTS
    DshLoopStops,       \* the messages whose text is a loop-stop
    DshQueue,           \* MAX_DSH_QUEUE
    DshTries,           \* DSH_HANDSHAKE_MAX_TRIES
    DshMaxMessages,     \* bound on the messages of a behaviour
    DshMaxFaults        \* bound on exits, failed handshakes and failed prompts

ASSUME DshAssumption ==
    /\ DshMaxMessages \in Nat /\ DshMaxFaults \in Nat
    /\ DshQueue \in Nat \ {0} /\ DshTries \in Nat \ {0}
    /\ DshLoopStops \subseteq 1..DshMaxMessages

VARIABLE d              \* the state, see DshTypeOK

DshVars == d

DshInit ==
    d = [phase |-> "new", fila |-> <<>>, inflight |-> 0, mesma |-> TRUE, antiga |-> <<>>,
         fails |-> 0, timer |-> FALSE, closing |-> {}, turn |-> FALSE,
         stopped |-> FALSE, exited |-> FALSE, next |-> 0, falhas |-> 0,
         retained |-> {}, feitas |-> {}, left |-> {"clear", "stop", "drain"}]

Fault(s) == [s EXCEPT !.falhas = @ + 1]

-----------------------------------------------------------------------------
(* dshPump: the next prompt, if the session is free. *)
Pump(s) ==
    IF s.phase # "ready" \/ s.inflight # 0 \/ s.fila = <<>> THEN s
    ELSE [s EXCEPT !.inflight = Head(s.fila), !.fila = Tail(@), !.mesma = TRUE, !.turn = TRUE]

(* dshTakeQueue into the host's retention: a new array becomes the queue.  *)
TakeQueue(s) ==
    LET t == IF s.inflight # 0 /\ s.mesma THEN [s EXCEPT !.mesma = FALSE, !.antiga = s.fila] ELSE s
    IN  [t EXCEPT !.retained = @ \cup ToSet(s.fila), !.fila = <<>>]

(* startDsh up to its handshake. *)
StartDsh(s) == [s EXCEPT !.phase = "boot", !.inflight = 0]

DshEmitExit(s) == [s EXCEPT !.exited = TRUE]

(* An exit that forgets to plan the restart of a process that had served.  *)
MutFinishExit(s) ==
    LET t == [s EXCEPT !.phase = "none", !.inflight = 0]
    IN  CASE s.stopped \/ "recover" \in s.closing -> t
          [] s.fails >= DshTries -> DshEmitExit(t)
          [] OTHER -> [t EXCEPT !.timer = s.fails > 0]

(* finishExit: the client is gone, and with it the prompt that was out;    *)
(* restart later, or give up.                                              *)
FinishExit(s) ==
    LET t == [s EXCEPT !.phase = "none", !.inflight = 0]
    IN  CASE s.stopped \/ "recover" \in s.closing -> t
          [] s.fails >= DshTries -> DshEmitExit(t)
          [] OTHER -> [t EXCEPT !.timer = TRUE]

(* What the callers of dshKillForRestart do after the await. *)
Reopen(s, why) ==
    LET t == [s EXCEPT !.closing = @ \ {why}]
    IN  CASE why = "clear" -> StartDsh(t)
          [] s.stopped -> t
          [] OTHER -> [StartDsh(t) EXCEPT !.turn = FALSE]

(* dshKillForRestart: forget the client, then await its session/close.     *)
KillForRestart(s, why) ==
    LET t == [s EXCEPT !.phase = "none", !.inflight = 0, !.timer = FALSE, !.closing = @ \cup {why}]
    IN  IF s.phase = "none" THEN Reopen(t, why) ELSE t

-----------------------------------------------------------------------------
(* dshPushUserMessage; a loop-stop first takes what waits. *)
DshPush ==
    /\ d.next < DshMaxMessages /\ ~d.stopped /\ ~d.exited
    /\ LET m == d.next + 1
           s == IF m \in DshLoopStops THEN TakeQueue([d EXCEPT !.next = m]) ELSE [d EXCEPT !.next = m]
       IN  d' = IF Len(s.fila) >= DshQueue THEN s ELSE Pump([s EXCEPT !.fila = Append(@, m)])

HandshakeOk ==
    /\ d.phase = "boot"
    /\ d' = Pump([d EXCEPT !.phase = "ready", !.fails = 0, !.turn = FALSE])

(* An error or a timeout of the handshake: count it and kill the process.  *)
HandshakeFails ==
    /\ d.phase = "boot" /\ d.falhas < DshMaxFaults
    /\ d' = [Fault(d) EXCEPT !.phase = "failing", !.fails = @ + 1]

(* The killed process goes. *)
KilledDshExits == d.phase = "failing" /\ d' = FinishExit(d)

(* The process goes by itself.  During the handshake the catch counts the  *)
(* failure before finishExit; later finishExit runs before the catch of    *)
(* the prompt, which then finds another client in force and drops it.      *)
DshExits ==
    /\ d.falhas < DshMaxFaults
    /\ \/ d.phase = "boot" /\ d' = FinishExit([Fault(d) EXCEPT !.fails = @ + 1])
       \/ d.phase = "ready" /\ d' = FinishExit(Fault(d))

RestartTimer ==
    /\ d.timer
    /\ d' = IF d.stopped \/ "recover" \in d.closing THEN [d EXCEPT !.timer = FALSE]
            ELSE StartDsh([d EXCEPT !.timer = FALSE])

PromptEnds ==
    /\ d.inflight # 0
    /\ d' = Pump([d EXCEPT !.feitas = @ \cup {d.inflight}, !.inflight = 0, !.turn = FALSE])

(* A prompt that fails with the process alive goes back in front of the    *)
(* array its pump had, and nothing is pumped.                              *)
PromptFails ==
    /\ d.inflight # 0 /\ d.falhas < DshMaxFaults
    /\ d' = [Fault(d) EXCEPT !.inflight = 0,
                             !.fila = <<d.inflight>> \o (IF d.mesma THEN @ ELSE d.antiga)]

(* recoverDshContinuousHang: the state shows a turn and nothing moves.     *)
DshHardRecover ==
    /\ d.turn /\ ~d.stopped /\ "recover" \notin d.closing
    /\ d' = KillForRestart(d, "recover")

DshClear ==
    /\ ~d.exited /\ "clear" \in d.left
    /\ d' = KillForRestart(TakeQueue([d EXCEPT !.left = @ \ {"clear"}]), "clear")

CloseEnds == \E why \in d.closing : d' = Reopen(d, why)

DshStop ==
    /\ ~d.stopped /\ ~d.exited /\ "stop" \in d.left
    /\ d' = DshEmitExit([TakeQueue(d) EXCEPT !.stopped = TRUE, !.left = @ \ {"stop"}, !.timer = FALSE,
                                             !.phase = "none", !.inflight = 0])

DshDrain ==
    /\ ~d.stopped /\ ~d.exited /\ "drain" \in d.left
    /\ d' = TakeQueue([d EXCEPT !.left = @ \ {"drain"}])

(* The runner is made: it starts its server before anything else.          *)
DshBegins == d.phase = "new" /\ d' = StartDsh(d)

DshNext ==
    \/ DshBegins
    \/ /\ d.phase # "new"
       /\ \/ DshPush \/ HandshakeOk \/ HandshakeFails \/ KilledDshExits \/ DshExits \/ RestartTimer
          \/ PromptEnds \/ PromptFails \/ DshHardRecover \/ DshClear \/ CloseEnds \/ DshStop \/ DshDrain

(* Every request has a timeout, a killed process goes, timers fire, and    *)
(* the watchdog ends a turn in which nothing moves, or the prompt's own    *)
(* ceiling of an hour does.                                                *)
DshFairness ==
    /\ WF_d(HandshakeOk \/ HandshakeFails) /\ WF_d(KilledDshExits) /\ WF_d(RestartTimer)
    /\ WF_d(DshHardRecover) /\ WF_d(CloseEnds)

DshSpec == DshInit /\ [][DshNext]_DshVars /\ DshFairness

-----------------------------------------------------------------------------
DshMsgs == 1..DshMaxMessages

DshTypeOK ==
    /\ d.phase \in {"new", "none", "boot", "failing", "ready"}
    /\ d.fila \in Seq(DshMsgs) /\ d.antiga \in Seq(DshMsgs) /\ d.inflight \in DshMsgs \cup {0}
    /\ {d.mesma, d.timer, d.turn, d.stopped, d.exited} \subseteq BOOLEAN
    /\ d.closing \subseteq {"recover", "clear"} /\ d.left \subseteq {"clear", "stop", "drain"}
    /\ d.fails \in Nat /\ d.falhas \in 0..DshMaxFaults /\ d.next \in 0..DshMaxMessages
    /\ d.retained \cup d.feitas \subseteq DshMsgs

(* The prompts that wait are sent or handed over, or their runner ends,    *)
(* though the process dies, its handshake fails, or a prompt fails and     *)
(* nobody pumps: a restart or the watchdog always comes ("volta a aceitar  *)
(* mensagens").  A behaviour has finitely many messages.                   *)
DshQueueMoves == (d.fila # <<>>) ~> (d.fila = <<>> \/ d.exited)
=============================================================================
