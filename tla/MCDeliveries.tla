---------------------------- MODULE MCDeliveries ----------------------------
(***************************************************************************)
(* What becomes of a delivery, in the host and in its turn; `which` is     *)
(* chosen once and says what moves.  In `custody` one agent's deliveries   *)
(* go through pauses, stops, drains, restarts, kills and failed snapshots. *)
(* In `slots` two agents share two slots, enough for one of them to take   *)
(* both, with a silence, a token loop or a clear.  In `retry` one agent    *)
(* retries: dead processes, lifetimes, failed spawns, vanished sessions,   *)
(* late results and the nudge.  In a behaviour of these two at most        *)
(* MaxTogether faults, cuts, nudges and results come together.             *)
(***************************************************************************)
EXTENDS DeliveryCustody
LOCAL INSTANCE FiniteSetsExt

MCNone == {}

VARIABLES which, w

Slots == INSTANCE RunnerTurn WITH
    Runners <- {"qwen", "gemini"}, Retrying <- {"qwen"}, LoopStops <- {2}, MaxCliTurns <- 2, MaxQueue <- 1,
    MaxNudges <- 0, ClearWhileQueued <- FALSE, MaxMessages <- 2, MaxFaults <- 0, MaxCuts <- 1, MaxResults <- 1

Retry == INSTANCE RunnerTurn WITH
    Runners <- {"qwen"}, Retrying <- {"qwen"}, LoopStops <- {}, MaxCliTurns <- 2, MaxQueue <- 1,
    MaxNudges <- 1, ClearWhileQueued <- FALSE, MaxMessages <- 1, MaxFaults <- 1, MaxCuts <- 0, MaxResults <- 1

DeliveriesInit ==
    /\ Init /\ which \in {"custody", "slots", "retry"}
    /\ IF which = "slots" THEN Slots!Init ELSE Retry!Init

MaxTogether == 2

Together ==
    w.falhas + w.cortes + MapThenSumSet(LAMBDA r : w.ag[r].nudges, DOMAIN w.ag)
        + Cardinality({t \in DOMAIN w.turnos : w.turnos[t].result})

DeliveriesNext ==
    /\ UNCHANGED which
    /\ \/ which = "custody" /\ Next        /\ UNCHANGED w
       \/ which = "slots"   /\ Slots!Next  /\ UNCHANGED h
       \/ which = "retry"   /\ Retry!Next  /\ UNCHANGED h
    /\ Together' <= MaxTogether

DeliveriesSpec == DeliveriesInit /\ [][DeliveriesNext]_<<which, w, h>>

(* Every message that was sent is in a queue, was retained or refused to   *)
(* its caller, or got a turn.                                              *)
NothingVanishes == IF which = "slots" THEN Slots!NothingVanishes ELSE Retry!NothingVanishes

(* The gate counts its holders, never grants past its ceiling and leaves   *)
(* no slot free while somebody waits; a runner holds at most one slot, and *)
(* past the gate it is the one its runner remembers and will give back.    *)
SlotsAccountedFor ==
    IF which = "slots" THEN Slots!GateSound /\ Slots!OneSlotPerRunner /\ Slots!SlotHasOwner
    ELSE Retry!GateSound /\ Retry!OneSlotPerRunner /\ Retry!SlotHasOwner

(* A turn that runs is the turn its runner believes in: no late close,     *)
(* timeout or recover of an older turn takes its process, busy or slot.    *)
(* And a busy runner has a turn that can still end; otherwise its queue    *)
(* waits for ever ("agente mudo").                                         *)
TurnAndRunnerAgree ==
    IF which = "slots" THEN Slots!LiveTurnIsCurrent /\ Slots!BusyHasTurn
    ELSE Retry!LiveTurnIsCurrent /\ Retry!BusyHasTurn

(* A message without a result is tried at most three times for every       *)
(* session it meets: no loop of recover and retry.                         *)
RetriesBounded == IF which = "slots" THEN Slots!RetriesBounded ELSE Retry!RetriesBounded
=============================================================================
