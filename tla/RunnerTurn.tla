----------------------------- MODULE RunnerTurn -----------------------------
(***************************************************************************)
(* The life of a per-message turn: several runners (one per agent) share   *)
(* the main pool of the turn gate.  A message is queued, becomes the turn  *)
(* of its runner, waits for a slot, has a CLI process spawned for it, and  *)
(* ends by a result, an exit, a timeout, a hard recover, a clear or a      *)
(* stop.  Closes of dead processes arrive late or never.                   *)
(*                                                                         *)
(* A handler calls others in the middle of its own work (a close recovers, *)
(* a recover releases a slot, drains and plans a nudge), so each method is *)
(* an operator from the state w to the next one and an action is one       *)
(* callback of the event loop.  Turn number t of `turnos` is also request  *)
(* number t of the gate.  The epoch a turn captures is only ever compared   *)
(* with the current one, so `dono` says whether they are still equal.      *)
(*                                                                         *)
(* Left out: the session id and firstTurn, compact, the CLI not being      *)
(* installed, latency and notices.  Every message is of no principal, so   *)
(* at the ceiling it is refused: joining is SessionQueue's subject.        *)
(***************************************************************************)
EXTENDS TurnGatePool, MessageQueue
LOCAL INSTANCE SequencesExt

CONSTANTS
    Runners,            \* the agents' runners, of a per-message CLI
    Retrying,           \* those that keep what is in flight for a retry (qwen)
    MaxCliTurns,        \* the ceiling of the main pool
    MaxQueue,           \* MAX_BUFFERED_MESSAGES
    MaxNudges,          \* HANG_RECOVER_NUDGE_MAX, within one window
    LoopStops,          \* the messages whose text is a loop-stop
    ClearWhileQueued,   \* may the user clear the context of a turn in the gate?
    MaxMessages,        \* bound on the messages of a behaviour
    MaxFaults,          \* bound on failed spawns and vanished sessions
    MaxCuts,            \* bound on silences, token loops and clears
    MaxResults          \* bound on the results one message gets over all its turns

ASSUME ConstantsAssumption ==
    /\ Retrying \subseteq Runners
    /\ MaxCliTurns \in Nat \ {0} /\ MaxQueue \in Nat \ {0}
    /\ MaxNudges \in Nat /\ MaxMessages \in Nat /\ MaxFaults \in Nat /\ MaxCuts \in Nat /\ MaxResults \in Nat
    /\ ClearWhileQueued \in BOOLEAN

VARIABLE w              \* the state, see TypeOK

NoVoo == [conteudo |-> <<0>>, attempt |-> 0]

NewRunner ==
    [fila |-> <<>>, busy |-> FALSE, waiting |-> FALSE, stopped |-> FALSE,
     exited |-> FALSE, release |-> 0, proc |-> 0, voo |-> NoVoo,
     armado |-> FALSE, nudges |-> 0]

Init == w = [gate |-> EmptyPool, turnos |-> <<>>, ag |-> [r \in Runners |-> NewRunner],
             aceitas |-> 0, retidas |-> {}, recusadas |-> {},
             falhas |-> 0, cortes |-> 0]

Turns == DOMAIN w.turnos
Conteudos(itens) == ToSet(Mensagens(itens))

-----------------------------------------------------------------------------
(* releaseActiveTurnSlot: gives the slot back, once. *)
Release(s, r) ==
    IF s.ag[r].release = 0 THEN s
    ELSE [s EXCEPT !.gate = ReleaseSlot(@, MaxCliTurns, s.ag[r].release), !.ag[r].release = 0]

(* emitExit: the runner is over, once. *)
EmitExit(s, r) ==
    IF s.ag[r].exited THEN s ELSE [Release(s, r) EXCEPT !.ag[r].exited = TRUE]

(* drainOcQueue up to its only await: the head becomes the turn and asks   *)
(* for a slot.                                                             *)
Drain(s, r) ==
    IF s.ag[r].busy \/ s.ag[r].release # 0 \/ s.ag[r].fila = <<>> \/ s.ag[r].stopped
    THEN s
    ELSE [s EXCEPT !.ag[r].busy = TRUE, !.ag[r].waiting = TRUE, !.ag[r].fila = Tail(@),
                   !.turnos = Append(@, [runner |-> r, item |-> Head(s.ag[r].fila),
                                         phase |-> "gate", dono |-> FALSE,
                                         result |-> FALSE, loop |-> FALSE]),
                   !.gate = AcquireTurnSlot(@, MaxCliTurns, Len(s.turnos) + 1)]

(* killTrackedTurnPids: every process of the runner gets its SIGKILL. *)
KillTracked(s, r) ==
    [s EXCEPT !.turnos = [t \in DOMAIN @ |->
        IF @[t].runner = r /\ @[t].phase = "live" THEN [@[t] EXCEPT !.phase = "dying"] ELSE @[t]]]

(* epoch + 1: no turn spawned so far owns the runner any more.             *)
Disown(s, r) ==
    [s EXCEPT !.turnos = [t \in DOMAIN @ |->
        IF @[t].runner = r THEN [@[t] EXCEPT !.dono = FALSE, !.loop = FALSE] ELSE @[t]]]

(* scheduleHangNudge: with an empty queue and budget left, arm the nudge. *)
ScheduleHangNudge(s, r) ==
    IF s.ag[r].fila # <<>> \/ s.ag[r].nudges >= MaxNudges THEN s
    ELSE [s EXCEPT !.ag[r].armado = TRUE, !.ag[r].nudges = @ + 1]

MaxAttempts(kind) == IF kind = "lifetime" THEN 2 ELSE 1

(* A retry without its ceiling. *)
MutRequeue(s, r, kind) ==
    IF s.ag[r].voo # NoVoo
    THEN [s EXCEPT !.ag[r].voo.attempt = @ + 1,
                   !.ag[r].fila = PrependRetry(@, s.ag[r].voo.conteudo)]
    ELSE s

(* The part of recoverHungTurn that puts what is in flight back in front.  *)
Requeue(s, r, kind) ==
    LET v == s.ag[r].voo
    IN  IF v # NoVoo /\ v.attempt < MaxAttempts(kind)
        THEN [s EXCEPT !.ag[r].voo.attempt = @ + 1,
                       !.ag[r].fila = PrependRetry(@, v.conteudo)]
        ELSE [s EXCEPT !.ag[r].voo = NoVoo]

(* A recover that leaves the slot with the dead turn. *)
MutRecoverSlot(s, r, kind) ==
    IF s.ag[r].stopped THEN s
    ELSE LET morto == [Disown(KillTracked(s, r), r) EXCEPT
                          !.ag[r].proc = 0, !.ag[r].waiting = FALSE, !.ag[r].release = 0,
                          !.ag[r].busy = FALSE]
         IN  ScheduleHangNudge(Drain(Requeue(morto, r, kind), r), r)

(* A recover that does not go on with the queue. *)
MutRecoverNoDrain(s, r, kind) ==
    IF s.ag[r].stopped THEN s
    ELSE LET morto == [Disown(Release(KillTracked(s, r), r), r) EXCEPT
                          !.ag[r].proc = 0, !.ag[r].waiting = FALSE, !.ag[r].busy = FALSE]
         IN  ScheduleHangNudge(Requeue(morto, r, kind), r)

(* recoverHungTurn: kill, release, disown the late closes, retry, drain,   *)
(* and only then look at the queue to plan a nudge.                        *)
Recover(s, r, kind) ==
    IF s.ag[r].stopped THEN s
    ELSE LET morto == [Disown(Release(KillTracked(s, r), r), r) EXCEPT
                          !.ag[r].proc = 0, !.ag[r].waiting = FALSE, !.ag[r].busy = FALSE]
         IN  ScheduleHangNudge(Drain(Requeue(morto, r, kind), r), r)

(* The queue leaves for the host's retention. *)
Retain(s, r) ==
    [s EXCEPT !.retidas = @ \cup UNION {ToSet(m.conteudo) : m \in TakeAllForDrain(s.ag[r].fila)},
              !.ag[r].fila = <<>>]

ProcAlive(s, r) ==
    s.ag[r].proc # 0 /\ s.turnos[s.ag[r].proc].phase \in {"live", "dying"}

(* A stop that discards the queue, as it did before T-899. *)
MutStopRunner(s, r) ==
    LET parado == KillTracked([Release(s, r) EXCEPT
                      !.ag[r].stopped = TRUE, !.ag[r].armado = FALSE, !.ag[r].fila = <<>>], r)
    IN  IF ProcAlive(s, r) THEN parado ELSE EmitExit(parado, r)

(* stop: releases the slot, retains the queue, kills what lives; the exit  *)
(* is announced at once unless a process still has to close.               *)
StopRunner(s, r) ==
    LET parado == KillTracked(Retain([Release(s, r) EXCEPT
                      !.ag[r].stopped = TRUE, !.ag[r].armado = FALSE], r), r)
    IN  IF ProcAlive(s, r) THEN parado ELSE EmitExit(parado, r)

-----------------------------------------------------------------------------
(* A promise the gate has resolved continues before any other callback.    *)
Granted == {t \in Turns : w.turnos[t].phase = "gate" /\ t \in w.gate.holders}
Quiet == Granted = {}

Live(t) == w.turnos[t].phase \in {"live", "dying"}
Runner(t) == w.turnos[t].runner
Owns(t) == w.turnos[t].dono
Mensagem == w.aceitas + 1

(* send_message for a runner that runs or was stopped by the user.         *)
PushUserMessage(r) ==
    LET item == Item(Mensagem, Mensagem, NoDono)
        novo == [w EXCEPT !.aceitas = @ + 1]
        antes == IF Mensagem \in LoopStops THEN Retain(novo, r) ELSE novo
        e == EnqueueOrCoalesce(antes.ag[r].fila, item, MaxQueue, 1)
    IN  /\ Quiet /\ Mensagem <= MaxMessages
        /\ \/ /\ w.ag[r].stopped
              /\ w' = [novo EXCEPT !.retidas = @ \cup {Mensagem}]
           \/ /\ ~w.ag[r].stopped
              /\ e.outcome = "dropped"
              /\ w' = [antes EXCEPT !.recusadas = @ \cup {Mensagem}]
           \/ /\ ~w.ag[r].stopped
              /\ e.outcome = "queued"
              /\ w' = Drain([antes EXCEPT !.ag[r].fila = e.fila], r)

(* What a resumed turn is once its slot is there and its process is up.    *)
Spawned(s, t, r) ==
    [s EXCEPT !.ag[r].waiting = FALSE, !.ag[r].release = t, !.ag[r].proc = t,
              !.ag[r].voo = IF r \notin Retrying THEN @
                            ELSE [conteudo |-> s.turnos[t].item.conteudo,
                                  attempt |-> IF @.conteudo = s.turnos[t].item.conteudo
                                              THEN @.attempt ELSE 0],
              !.turnos[t].phase = "live", !.turnos[t].dono = TRUE]

(* A failed spawn that leaves the runner busy. *)
MutFailTurnSpawn(s, t, r) ==
    Drain([Release(s, r) EXCEPT !.ag[r].proc = 0,
                                !.turnos[t].phase = "failed", !.turnos[t].dono = FALSE,
                                !.falhas = @ + 1], r)

(* failTurnSpawn: the spawn threw, the turn gives back what it reserved.   *)
FailTurnSpawn(s, t, r) ==
    Drain([Release(s, r) EXCEPT !.ag[r].proc = 0, !.ag[r].busy = FALSE,
                                !.turnos[t].phase = "failed", !.turnos[t].dono = FALSE,
                                !.falhas = @ + 1], r)

(* A turn that comes out of the gate without looking whether it was stopped. *)
MutGateResume(t) ==
    /\ t \in Granted
    /\ \/ w' = Spawned(w, t, Runner(t))
       \/ /\ w.falhas < MaxFaults
          /\ w' = FailTurnSpawn(Spawned(w, t, Runner(t)), t, Runner(t))

(* The rest of gateTurn and of run*Message, after the await.               *)
GateResume(t) ==
    LET r == Runner(t) IN
    /\ t \in Granted
    /\ \/ /\ w.ag[r].stopped
          /\ w' = [w EXCEPT !.gate = ReleaseSlot(@, MaxCliTurns, t), !.ag[r].waiting = FALSE,
                            !.ag[r].busy = FALSE, !.turnos[t].phase = "aborted"]
       \/ /\ ~w.ag[r].stopped
          /\ w' = Spawned(w, t, r)
       \/ /\ ~w.ag[r].stopped
          /\ w.falhas < MaxFaults
          /\ w' = FailTurnSpawn(Spawned(w, t, r), t, r)

(* The stream of a live turn this runner still owns.  What endTurn makes of *)
(* a result is billing and notices, so only the retrying ones have it here. *)
Results(conteudo) ==
    {t \in Turns : w.turnos[t].result /\ w.turnos[t].item.conteudo = conteudo}

Result(t) ==
    /\ Quiet /\ w.turnos[t].phase = "live" /\ Owns(t) /\ Runner(t) \in Retrying
    /\ ~w.turnos[t].result
    /\ Cardinality(Results(w.turnos[t].item.conteudo)) < MaxResults
    /\ w' = [w EXCEPT !.turnos[t].result = TRUE]

TokenLoop(t) ==
    /\ Quiet /\ w.turnos[t].phase = "live" /\ Owns(t) /\ Runner(t) \in Retrying
    /\ w.cortes < MaxCuts
    /\ w' = [w EXCEPT !.turnos[t].loop = TRUE, !.turnos[t].phase = "dying", !.cortes = @ + 1]

(* The process is gone; its `close` may still be held by a grandchild.     *)
(* Of a process the runner no longer looks at, only the close is a step.   *)
ProcExit(t) ==
    /\ Quiet /\ Live(t) /\ w.ag[Runner(t)].proc = t
    /\ w' = [w EXCEPT !.turnos[t].phase = "gone"]

Closed(t) == [w EXCEPT !.turnos[t].phase = "closed", !.turnos[t].dono = FALSE,
                       !.turnos[t].loop = FALSE]

(* A close after the exit of the runner only asks for that exit again.     *)
MayClose(t) ==
    /\ ~w.ag[Runner(t)].exited
    /\ \/ w.turnos[t].phase = "gone"
       \/ w.turnos[t].phase = "dying" /\ w.ag[Runner(t)].proc # t

Idle(s, r) == [Release(s, r) EXCEPT !.ag[r].proc = 0, !.ag[r].busy = FALSE]

(* endTurn.  A late close of a turn no longer owned touches nothing, and    *)
(* whether it has come is not remembered.                                  *)
EndTurn(t) ==
    LET r == Runner(t) IN
    /\ Quiet /\ MayClose(t) /\ r \notin Retrying
    /\ \/ w.ag[r].stopped /\ w' = EmitExit(Idle(Closed(t), r), r)
       \/ ~w.ag[r].stopped /\ Owns(t) /\ w' = Drain(Idle(Closed(t), r), r)
       \/ ~w.ag[r].stopped /\ ~Owns(t) /\ UNCHANGED w

(* The close of a qwen turn before T-886: the slot and the drain are not   *)
(* guarded by the ownership of the epoch.                                  *)
MutQwenClose(t) ==
    LET r == Runner(t) IN
    /\ Quiet /\ MayClose(t) /\ r \in Retrying
    /\ \/ w.ag[r].stopped /\ w' = EmitExit(Idle(Closed(t), r), r)
       \/ /\ ~w.ag[r].stopped
          /\ w' = Drain(IF Owns(t) THEN Idle(Closed(t), r) ELSE Release(Closed(t), r), r)

(* The close of a qwen turn: a token loop recovers, a result clears what   *)
(* is in flight, a session that vanished is tried again from the start.    *)
QwenClose(t) ==
    LET r == Runner(t)
        fim == Idle(Closed(t), r)
    IN
    /\ Quiet /\ MayClose(t) /\ r \in Retrying
    /\ \/ w.ag[r].stopped /\ w' = EmitExit(fim, r)
       \/ ~w.ag[r].stopped /\ ~Owns(t) /\ ~w.turnos[t].result /\ UNCHANGED w
       \/ /\ ~w.ag[r].stopped /\ ~Owns(t) /\ w.turnos[t].result
          /\ w' = [Closed(t) EXCEPT !.ag[r].voo = NoVoo]
       \/ /\ ~w.ag[r].stopped /\ Owns(t) /\ w.turnos[t].loop
          /\ w' = Recover(fim, r, "hang")
       \/ /\ ~w.ag[r].stopped /\ Owns(t) /\ ~w.turnos[t].loop
          /\ \/ w' = Drain([fim EXCEPT !.ag[r].voo = IF w.turnos[t].result THEN NoVoo ELSE @], r)
             \/ /\ ~w.turnos[t].result /\ w.falhas < MaxFaults
                /\ w' = Drain([fim EXCEPT !.falhas = @ + 1, !.ag[r].voo = NoVoo,
                                 !.ag[r].fila = PrependRetry(@, w.turnos[t].item.conteudo)], r)

(* armHardTimeout: a process still alive at its ceiling.                   *)
HardTimeout(t) ==
    /\ Quiet /\ w.turnos[t].phase = "live"
    /\ w' = [IF Runner(t) \in Retrying THEN Recover(w, Runner(t), "lifetime") ELSE w
                EXCEPT !.turnos[t].phase = "dying"]

(* The tick of the watchdog: nothing while the runner is stopped or waits  *)
(* in the gate; a dead process, silence and the lifetime recover the turn. *)
Watched(r) == Quiet /\ ~w.ag[r].stopped /\ ~w.ag[r].waiting /\ w.ag[r].busy

HangDead(r) ==
    /\ Watched(r) /\ w.ag[r].proc # 0 /\ ~ProcAlive(w, r)
    /\ w' = Recover(w, r, "hang")

HangIdle(r, kind) ==
    /\ Watched(r) /\ w.cortes < MaxCuts
    /\ w' = [Recover(w, r, kind) EXCEPT !.cortes = @ + 1]

NudgeFires(r) ==
    /\ Quiet /\ w.ag[r].armado
    /\ w' = Drain([w EXCEPT !.ag[r].armado = FALSE,
                            !.ag[r].fila = DeliverHangRecoverNudge(@, MaxQueue)], r)

(* agent:stop for one agent.                                               *)
Stop(r) ==
    /\ Quiet /\ ~w.ag[r].stopped
    /\ w' = StopRunner(w, r)

(* host.shutdown stops every runner in one synchronous loop.               *)
Shutdown ==
    /\ Quiet /\ \E r \in Runners : ~w.ag[r].stopped
    /\ \E ordem \in SetToSeqs(Runners) : w' = FoldLeft(StopRunner, w, ordem)

ClearContext(r) ==
    /\ Quiet /\ ~w.ag[r].stopped /\ w.cortes < MaxCuts
    /\ w.ag[r].waiting => ClearWhileQueued
    /\ w' = [Disown(Release(KillTracked(Retain(w, r), r), r), r) EXCEPT
                 !.ag[r].busy = FALSE, !.cortes = @ + 1]

(* The valve of the gate lies above every ceiling of a turn, so it fires   *)
(* only for a handle whose turn no longer runs.                            *)
Guarda(t) ==
    /\ Quiet /\ t \in w.gate.holders /\ w.turnos[t].phase # "live"
    /\ w' = [w EXCEPT !.gate = ReleaseSlot(@, MaxCliTurns, t)]

Moves ==
    \/ \E r \in Runners :
          \/ PushUserMessage(r) \/ HangDead(r) \/ Stop(r) \/ ClearContext(r)
          \/ \E kind \in {"hang", "lifetime"} : HangIdle(r, kind)
    \/ \E t \in Turns :
          \/ GateResume(t) \/ Result(t) \/ TokenLoop(t) \/ ProcExit(t)
          \/ EndTurn(t) \/ QwenClose(t) \/ HardTimeout(t) \/ Guarda(t)
    \/ Shutdown

Next == Moves \/ \E r \in Runners : NudgeFires(r)

(* The turns a behaviour can start: a message starts once and is retried    *)
(* twice, and again for every vanished session and late result; so is a nudge. *)
TurnIds == 1..((MaxMessages + MaxNudges * Cardinality(Runners)) * 3 * (1 + MaxFaults + MaxResults))

(* Promises resolve, timers fire, a process with a SIGKILL goes away, and  *)
(* the watchdog ticks.  A turn does each of these once, so that one weak   *)
(* fairness condition for all turns is as strong as one for each of them.  *)
(* Nothing is assumed of the CLIs, of their `close`, or of the users.      *)
Fairness ==
    /\ WF_w(\E r \in Runners : HangDead(r))
    /\ WF_w(\E t \in Turns : GateResume(t))
    /\ WF_w(\E t \in Turns : HardTimeout(t))
    /\ WF_w(\E t \in Turns : w.turnos[t].phase = "dying" /\ ProcExit(t))
    /\ WF_w(\E t \in Turns : Guarda(t))

Spec == Init /\ [][Next]_w
LiveSpec == Spec /\ Fairness

-----------------------------------------------------------------------------
Msgs == 1..MaxMessages
Phases == {"gate", "live", "dying", "gone", "closed", "aborted", "failed"}

ItemType ==
    [conteudo : Seq(Msgs), id : Msgs \cup {NoId}, agrupadas : {{}},
     dono : {NoDono}, sintetica : BOOLEAN]

RunnerType ==
    [fila : Seq(ItemType), busy : BOOLEAN, waiting : BOOLEAN, stopped : BOOLEAN,
     exited : BOOLEAN, release : Nat, proc : Nat,
     voo : [conteudo : Seq(Nat), attempt : 0..2], armado : BOOLEAN, nudges : 0..MaxNudges]

(* The shape of the state; handles and processes name turns that began.    *)
TypeOK ==
    /\ w.gate \in PoolType
    /\ w.turnos \in Seq([runner : Runners, item : ItemType, phase : Phases, dono : BOOLEAN,
                         result : BOOLEAN, loop : BOOLEAN])
    /\ w.ag \in [Runners -> RunnerType]
    /\ w.aceitas \in Nat /\ w.falhas \in 0..MaxFaults /\ w.cortes \in 0..MaxCuts
    /\ w.retidas \cup w.recusadas \subseteq Msgs
    /\ Turns \subseteq TurnIds
    /\ \A r \in Runners : {w.ag[r].release, w.ag[r].proc} \subseteq Turns \cup {0}

(* The gate counts right under the code that really calls it, and no more  *)
(* CLIs run than it has slots.                                             *)
GateSound ==
    /\ w.gate.ativos = Cardinality(w.gate.holders)
    /\ w.gate.ativos <= MaxCliTurns
    /\ w.gate.fila # <<>> => w.gate.ativos = MaxCliTurns
    /\ Cardinality({t \in Turns : w.turnos[t].phase = "live"}) <= MaxCliTurns

(* "One runner owns at most one main-pool slot" (drainOcQueue).            *)
OneSlotPerRunner ==
    \A r \in Runners : Cardinality({t \in w.gate.holders : Runner(t) = r}) <= 1

(* No slot leaks: past the gate, a held slot is one its runner remembers,  *)
(* so that some close, recover, clear or stop gives it back.               *)
SlotHasOwner ==
    \A t \in w.gate.holders : w.turnos[t].phase = "gate" \/ w.ag[Runner(t)].release = t

(* A turn that runs is the turn its runner believes in: busy, its process, *)
(* its slot held.  A late close, a timeout or a recover of an older turn   *)
(* never takes any of them away.                                           *)
LiveTurnIsCurrent ==
    \A t \in Turns : w.turnos[t].phase = "live" =>
        LET r == Runner(t)
        IN  w.ag[r].busy /\ w.ag[r].proc = t /\ w.ag[r].release = t
              /\ t \in w.gate.holders /\ Owns(t)

(* A runner that is busy has a turn that can still end: one in the gate or *)
(* one it owns.  Otherwise its queue waits for ever ("agente mudo").       *)
BusyHasTurn ==
    \A r \in Runners : w.ag[r].busy /\ ~w.ag[r].stopped =>
        \E t \in Turns : /\ Runner(t) = r
                         /\ \/ w.turnos[t].phase = "gate"
                            \/ w.turnos[t].phase \in {"live", "dying", "gone"} /\ Owns(t)

(* The exit a host hears of is final: no process runs, no slot is held and *)
(* no turn begins any more.                                                *)
ExitIsFinal ==
    \A r \in Runners : w.ag[r].exited =>
        /\ w.ag[r].release = 0
        /\ \A t \in Turns : Runner(t) = r => w.turnos[t].phase # "live"

(* Every message that was sent is in a queue, was retained or refused to   *)
(* its caller, or got a turn.                                              *)
Began == UNION {ToSet(w.turnos[t].item.conteudo) : t \in Turns}
Queued == UNION {Conteudos(w.ag[r].fila) : r \in Runners}

NothingVanishes == 1..w.aceitas = w.retidas \cup w.recusadas \cup Queued \cup Began

(* A message whose turn never got past the gate is retained by a stop like *)
(* the rest of the queue (T-899: "o stop NÃO descarta").                   *)
StopRetainsUnstarted ==
    \A t \in Turns : w.turnos[t].phase = "aborted" =>
        \/ ToSet(w.turnos[t].item.conteudo) \subseteq w.retidas
        \/ \E u \in Turns : u # t /\ w.turnos[u].item.conteudo = w.turnos[t].item.conteudo

(* A message without a result is tried at most three times for every       *)
(* session it meets: no loop of recover and retry.                         *)
Tries(m) == {t \in Turns : m \in ToSet(w.turnos[t].item.conteudo)}

RetriesBounded ==
    \A m \in Msgs : (\A t \in Tries(m) : ~w.turnos[t].result)
                      => Cardinality(Tries(m)) <= 3 * (1 + w.falhas)

(* A message that waits in a queue leaves it, whatever the CLIs do.         *)
QueueMoves == \A m \in Msgs : (m \in Queued) ~> (m \notin Queued)

(* A runner that waits in the gate gets past it, whatever the holders do.  *)
GateMoves == \A r \in Runners : w.ag[r].waiting ~> ~w.ag[r].waiting
=============================================================================
