------------------------------ MODULE GrokTurn ------------------------------
(***************************************************************************)
(* The grok runner over one process that outlives its turns                *)
(* (`grok agent stdio`, THE_DUDES_GROK_ACP=1): the turn of runGrokTurnAcp, *)
(* the client of grok-acp.ts, and what the watchdog, a clear and a stop do *)
(* to a turn that awaits.  A turn is a coroutine; every await is a place   *)
(* where another handler may run, and a turn that was given up goes on     *)
(* after it.  The order in the turn gate is TurnGate's, texts and tools    *)
(* are left out.                                                           *)
(***************************************************************************)
EXTENDS Integers, Sequences, FiniteSets

CONSTANTS
    GrokMaxMessages,    \* messages that are sent
    GrokMaxClients,     \* processes a behaviour may start
    GrokMaxEvents       \* recovers, clears, stops, timeouts and exits nobody asked for

(* A turn is at "gate", then (for a new process) at "init", "load" or      *)
(* "new", "config", and at "prompt"; at "poll" it reads what it used.  A   *)
(* process is "up", "killed" until its close event, and then "gone".       *)
VARIABLE g

GrokVars == <<g>>

GrokInit ==
    g = [queue |-> <<>>, busy |-> FALSE, epoch |-> 1, sid |-> FALSE, slot |-> FALSE,
         inflight |-> [msg |-> 0, attempt |-> 0],
         acp |-> 0, clients |-> <<>>, ctx |-> 0, oc |-> 0, turns |-> {},
         stopped |-> FALSE, exited |-> FALSE, sent |-> 0, events |-> 0]

GrokOwns(s, t) == t.epoch = s.epoch

(* The client counts as alive until its close event or matar(), however    *)
(* dead its process is.                                                    *)
Vivo(s) == s.acp # 0 /\ ~s.clients[s.acp].ended

Place(s, t, at) == [s EXCEPT !.turns = (@ \ {t}) \cup {[t EXCEPT !.at = at]}]

Matar(s, cl) ==
    [s EXCEPT !.clients[cl].ended = TRUE,
              !.clients[cl].proc = IF @ = "up" THEN "killed" ELSE @]

(* SIGKILL to what ocActiveProc and liveTurnPids name: every process of    *)
(* the runner.  The clients are not told.                                  *)
KillPids(s) ==
    [s EXCEPT !.clients = [i \in DOMAIN @ |->
                              IF @[i].proc = "up" THEN [@[i] EXCEPT !.proc = "killed"] ELSE @[i]]]

GrokDrain(s) ==
    IF s.busy \/ s.slot \/ s.stopped \/ s.queue = <<>> THEN s
    ELSE LET m == Head(s.queue) IN
         [s EXCEPT !.busy = TRUE, !.queue = Tail(@),
                   !.inflight = [msg |-> m, attempt |-> IF @.msg = m THEN @.attempt ELSE 0],
                   !.turns = @ \cup {[epoch |-> s.epoch, msg |-> m, cl |-> 0, at |-> "gate"]}]

FreeAndDrain(s) == GrokDrain([s EXCEPT !.busy = FALSE])

(* The `finally` of the turn, whoever owns the epoch by now. *)
EndPrompt(s, t) ==
    LET u == [s EXCEPT !.turns = @ \ {t}, !.ctx = 0,
                       !.slot = @ /\ ~(GrokOwns(s, t) \/ s.stopped)]
    IN IF s.stopped /\ s.acp # 0 THEN [Matar(u, s.acp) EXCEPT !.acp = 0] ELSE u

(* The T-1063 way: a client whose handshake failed is kept. *)
MutDiscard(s, cl) == s

(* A client that has no session yet is thrown away with its process.       *)
Discard(s, cl) ==
    IF s.clients[cl].sess THEN s
    ELSE [Matar(s, cl) EXCEPT !.acp = IF @ = cl THEN 0 ELSE @, !.oc = IF @ = cl THEN 0 ELSE @]

(* The turn fails with an error that reads as a vanished session, an       *)
(* aborted call or something else; the first two are tried again without   *)
(* the session, if the runner has one.                                     *)
Whys == {"missing", "aborted", "other"}

TurnFails(s, t, why) ==
    LET u == EndPrompt(Discard(s, t.cl), t)
    IN IF ~GrokOwns(s, t) THEN u
       ELSE IF why # "other" /\ u.sid
       THEN FreeAndDrain([u EXCEPT !.sid = FALSE, !.queue = <<t.msg>> \o @])
       ELSE FreeAndDrain(u)

(* The reactions to rejected requests run before the next event. *)
Rejected == {t \in g.turns : t.at \notin {"gate", "poll"} /\ g.clients[t.cl].ended}
GrokQuiet == Rejected = {}
GrokEvent == GrokQuiet /\ g.events < GrokMaxEvents

(* A failed load forgets the session whoever owns the epoch; a failed      *)
(* configuration is swallowed, and the prompt behind it fails.             *)
RequestRejected(t) ==
    /\ t \in Rejected
    /\ \E why \in Whys :
          g' = TurnFails([g EXCEPT !.sid = CASE t.at = "load" -> FALSE
                                             [] t.at = "config" -> @ \/ (g.clients[t.cl].sess /\ GrokOwns(g, t))
                                             [] OTHER -> @], t, why)

GrokPush ==
    /\ GrokQuiet /\ ~g.stopped /\ g.sent < GrokMaxMessages
    /\ g' = GrokDrain([g EXCEPT !.sent = @ + 1, !.queue = Append(@, g.sent + 1)])

GateGrants(t) ==
    /\ GrokQuiet /\ t.at = "gate"
    /\ IF g.stopped \/ ~GrokOwns(g, t) THEN g' = [g EXCEPT !.turns = @ \ {t}]
       ELSE LET u == [g EXCEPT !.slot = TRUE, !.turns = @ \ {t}]
            IN IF Vivo(g)
               THEN LET v == [t EXCEPT !.cl = g.acp, !.at = "prompt"]
                        r == [u EXCEPT !.ctx = t.epoch, !.turns = @ \cup {v}]
                    IN g' = IF g.clients[g.acp].sess THEN r ELSE TurnFails(r, v, "other")
               ELSE LET cl == Len(g.clients) + 1 IN
                    /\ cl <= GrokMaxClients
                    /\ g' = [u EXCEPT !.acp = cl, !.oc = cl,
                                 !.clients = Append(@, [proc |-> "up", ended |-> FALSE,
                                                        sess |-> FALSE, born |-> t.epoch]),
                                 !.turns = @ \cup {[t EXCEPT !.cl = cl, !.at = "init"]}]

(* The agent says whether it can load a session. *)
Initialized(t) ==
    /\ GrokQuiet /\ t.at = "init"
    /\ \E at \in {"new"} \cup (IF g.sid THEN {"load"} ELSE {}) : g' = Place(g, t, at)

SessionOpens(t) ==
    /\ GrokQuiet /\ t.at \in {"load", "new"}
    /\ g' = Place([g EXCEPT !.clients[t.cl].sess = TRUE], t, "config")

LoadFails(t) ==
    /\ GrokQuiet /\ t.at = "load"
    /\ g' = Place([g EXCEPT !.sid = FALSE], t, "new")

SetupFails(t) ==
    /\ GrokEvent /\ t.at \in {"init", "new"}
    /\ \E why \in Whys : g' = TurnFails([g EXCEPT !.events = @ + 1], t, why)

Configured(t) ==
    /\ GrokQuiet /\ t.at = "config"
    /\ g' = Place([g EXCEPT !.sid = @ \/ GrokOwns(g, t), !.ctx = t.epoch], t, "prompt")

Answers(t) ==
    /\ GrokQuiet /\ t.at = "prompt"
    /\ LET u == EndPrompt(g, t)
       IN g' = IF GrokOwns(g, t)
               THEN [u EXCEPT !.sid = TRUE, !.turns = @ \cup {[t EXCEPT !.at = "poll"]}]
               ELSE u

PromptErrs(t) ==
    /\ GrokEvent /\ t.at = "prompt"
    /\ \E why \in Whys : g' = TurnFails([g EXCEPT !.events = @ + 1], t, why)

(* The message is done, also for a turn that lost the epoch in its poll.   *)
PollEnds(t) ==
    /\ GrokQuiet /\ t.at = "poll"
    /\ LET u == [g EXCEPT !.turns = @ \ {t},
                          !.inflight = IF @.msg = t.msg THEN [msg |-> 0, attempt |-> 0] ELSE @]
       IN g' = IF GrokOwns(g, t) THEN FreeAndDrain(u) ELSE u

(* The close event of a process that was killed, or that went by itself.   *)
ProcCloses(cl) ==
    /\ GrokQuiet
    /\ \/ g.clients[cl].proc = "killed"
       \/ g.clients[cl].proc = "up" /\ GrokEvent
    /\ g' = [g EXCEPT !.clients[cl].proc = "gone", !.clients[cl].ended = TRUE,
                      !.events = IF g.clients[cl].proc = "up" THEN @ + 1 ELSE @,
                      !.oc = IF g.clients[cl].born = g.epoch \/ g.stopped THEN 0 ELSE @]

(* The ceiling of a turn, armed again at every one. *)
GrokHardTimeout(t) ==
    /\ GrokEvent /\ t.at = "prompt" /\ GrokOwns(g, t)
    /\ g' = [Matar(g, t.cl) EXCEPT !.events = @ + 1]

(* recoverHungTurn: a turn that waits in the gate is no hang, and one that *)
(* polls has just been heard of.                                           *)
GrokRecover ==
    /\ GrokEvent /\ ~g.stopped
    /\ \E t \in g.turns : GrokOwns(g, t) /\ t.at \notin {"gate", "poll"}
    /\ LET u == [KillPids(g) EXCEPT !.oc = 0, !.slot = FALSE, !.epoch = @ + 1, !.sid = FALSE,
                                    !.events = @ + 1]
       IN g' = FreeAndDrain(
                  IF g.inflight.msg # 0 /\ g.inflight.attempt < 1
                  THEN [u EXCEPT !.inflight.attempt = @ + 1, !.queue = <<g.inflight.msg>> \o @]
                  ELSE [u EXCEPT !.inflight = [msg |-> 0, attempt |-> 0]])

(* What waits goes to the retention. *)
GrokClear ==
    /\ GrokEvent /\ ~g.stopped
    /\ g' = [KillPids(g) EXCEPT !.queue = <<>>, !.busy = FALSE, !.slot = FALSE,
                                !.epoch = @ + 1, !.sid = FALSE, !.events = @ + 1]

(* The exit is announced here only if ocActiveProc shows no process that   *)
(* has not been seen to end.                                               *)
GrokStop ==
    /\ GrokEvent /\ ~g.stopped
    /\ LET u == KillPids(IF g.acp = 0 THEN g ELSE [Matar(g, g.acp) EXCEPT !.acp = 0])
       IN g' = [u EXCEPT !.stopped = TRUE, !.slot = FALSE, !.queue = <<>>, !.events = @ + 1,
                         !.exited = g.oc = 0 \/ g.clients[g.oc].proc = "gone"]

GrokNext ==
    \/ GrokPush \/ GrokRecover \/ GrokClear \/ GrokStop
    \/ \E t \in g.turns :
          \/ RequestRejected(t) \/ GateGrants(t) \/ Initialized(t) \/ SessionOpens(t)
          \/ LoadFails(t) \/ SetupFails(t) \/ Configured(t) \/ Answers(t) \/ PromptErrs(t)
          \/ PollEnds(t) \/ GrokHardTimeout(t)
    \/ \E cl \in DOMAIN g.clients : ProcCloses(cl)

GrokSpec == GrokInit /\ [][GrokNext]_GrokVars
-----------------------------------------------------------------------------
GrokTypeOK ==
    /\ g.queue \in Seq(1..GrokMaxMessages) /\ g.epoch \in Nat
    /\ g.inflight \in [msg : 0..GrokMaxMessages, attempt : 0..1]
    /\ {g.busy, g.sid, g.slot, g.stopped, g.exited} \subseteq BOOLEAN
    /\ {g.acp, g.oc} \subseteq 0..Len(g.clients) /\ g.ctx \in 0..g.epoch
    /\ \A i \in DOMAIN g.clients :
          g.clients[i] \in [proc : {"up", "killed", "gone"}, ended : BOOLEAN, sess : BOOLEAN,
                            born : 1..g.epoch]
    /\ g.turns \subseteq [epoch : 1..g.epoch, msg : 1..GrokMaxMessages, cl : 0..Len(g.clients),
                          at : {"gate", "init", "load", "new", "config", "prompt", "poll"}]

(* The runner never loses touch with its process: it runs no second one    *)
(* beside it, what is kept between two turns has a session ("o próximo     *)
(* turno pularia o handshake e reprovaria em prometer() para sempre"), and *)
(* what a live process says to the prompt of the current turn is heard by  *)
(* that turn, though the turns before it end late.                         *)
GrokInTouch ==
    /\ Cardinality({i \in DOMAIN g.clients : g.clients[i].proc = "up"}) <= 1
    /\ g.busy \/ g.acp = 0 \/ g.clients[g.acp].sess \/ g.clients[g.acp].proc # "up"
    /\ \A t \in g.turns :
          GrokOwns(g, t) /\ t.at = "prompt" /\ g.clients[t.cl].proc = "up" => g.ctx = t.epoch

(* "stopped -> emitExit SEMPRE" (end-turn.ts): when a stopped runner has neither a turn  *)
(* nor a process left, its exit has been announced.                        *)
GrokStopAnnounced ==
    g.stopped /\ g.turns = {} /\ (\A i \in DOMAIN g.clients : g.clients[i].proc = "gone") => g.exited
=============================================================================
