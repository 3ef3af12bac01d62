----------------------------- MODULE SelfUpdate -----------------------------
(***************************************************************************)
(* The self-update of the daemon: the check that fetches a release and     *)
(* swaps both bundles on disk (self-update.ts, one check at a time by      *)
(* self-update-gate.ts), the wait for a moment without turns, the drain    *)
(* and its ceiling, and the exit that the launcher answers with a start of *)
(* what is on disk.  A release is a number, its build time; signatures and *)
(* checksums are one of the ways a fetch fails.  What the drain does to    *)
(* messages is DeliveryCustody's.                                          *)
(***************************************************************************)
EXTENDS Integers

CONSTANTS
    UpdNewest,          \* releases are 0..UpdNewest; the machine starts with 0
    UpdMaxPublish,      \* publications of a behaviour, also of older releases
    UpdMaxFaults,       \* downloads that fail and restarts that nobody planned
    UpdDrainAfter,      \* drainAfterMs, in steps of the clock
    UpdForceAfter,      \* drainForceMs, in steps of the clock
    UpdLauncher,        \* THE_DUDES_LAUNCHER=1: exit 42 starts the daemon again
    UpdSplit,           \* TRUE: a restart may fall between the two renames
    UpdMixed            \* TRUE: a release may be withdrawn in the middle of a check

ASSUME UpdAssumption ==
    /\ {UpdNewest, UpdMaxPublish, UpdMaxFaults, UpdDrainAfter, UpdForceAfter} \subseteq Nat
    /\ {UpdLauncher, UpdSplit, UpdMixed} \subseteq BOOLEAN

(* `on`: the daemon was started for the first time, and has connected;     *)
(* `age` is the time since the swap, -1 before it; `held` is the drain of  *)
(* the host; `leaving` are the callers of requestReexec.                   *)
VARIABLE up

UpdVars == <<up>>

UpdDue == UpdDrainAfter + UpdForceAfter

(* A process that has just started from what is on disk. *)
UpdBooted(s) ==
    [s EXCEPT !.boot = s.daemon, !.check = "none", !.sha = 0, !.got = 0, !.applied = -1,
              !.age = -1, !.armed = FALSE, !.draining = FALSE, !.forced = FALSE,
              !.held = FALSE, !.leaving = {}]

UpdInit ==
    up = [on |-> FALSE, boot |-> 0, daemon |-> 0, bridge |-> 0, pub |-> 0, pubs |-> 0, faults |-> 0,
          check |-> "none", sha |-> 0, got |-> 0, applied |-> -1, age |-> -1, armed |-> FALSE,
          draining |-> FALSE, forced |-> FALSE, held |-> FALSE, leaving |-> {}, turn |-> FALSE]

RequestReexec(s, who) ==
    IF UpdLauncher THEN [s EXCEPT !.held = TRUE, !.leaving = @ \cup {who}]
    ELSE [s EXCEPT !.draining = FALSE, !.forced = FALSE]

(* The end of a check that has, or had already, swapped the bundles. *)
PlanRestart(s) ==
    LET v == [s EXCEPT !.check = "none"]
    IN IF ~s.turn THEN RequestReexec(v, "check") ELSE [v EXCEPT !.armed = TRUE]

(* Turns, as isIdle sees them: none begins while the host drains. *)
TurnComes == ~up.turn /\ ~up.held /\ up' = [up EXCEPT !.turn = TRUE]
TurnGoes == up.turn /\ up' = [up EXCEPT !.turn = FALSE]

Publish ==
    /\ up.pubs < UpdMaxPublish
    /\ \E rel \in 0..UpdNewest \ {up.pub} :
          /\ rel > up.pub \/ UpdMixed \/ up.check \in {"none", "sha"}
          /\ up' = [up EXCEPT !.pub = rel, !.pubs = @ + 1]

(* scheduleSelfUpdate, at the first welcome. *)
UpdStart == ~up.on /\ up' = [up EXCEPT !.on = TRUE]

(* The hourly timer or a push of the server; a check awaits its re-exec. *)
Trigger ==
    /\ up.on /\ up.check = "none" /\ "check" \notin up.leaving
    /\ up' = [up EXCEPT !.check = "sha"]

FetchSha ==
    /\ up.check = "sha"
    /\ up' = IF up.pub = up.boot THEN [up EXCEPT !.check = "none"]
             ELSE IF up.pub = up.applied THEN PlanRestart(up)
             ELSE [up EXCEPT !.check = "daemon", !.sha = up.pub]

(* A release that is not newer than the one that runs is refused. *)
MutFetchDaemon ==
    /\ up.check = "daemon"
    /\ up' = [up EXCEPT !.check = "bridge", !.got = up.pub]

FetchDaemon ==
    /\ up.check = "daemon"
    /\ up' = IF up.pub > up.boot THEN [up EXCEPT !.check = "bridge", !.got = up.pub]
             ELSE [up EXCEPT !.check = "none"]

FetchBridge ==
    /\ up.check = "bridge"
    /\ up' = PlanRestart([up EXCEPT !.daemon = up.got, !.bridge = up.pub, !.applied = up.sha,
                                    !.age = IF @ = -1 THEN 0 ELSE @])

FetchFails ==
    /\ up.check # "none" /\ up.faults < UpdMaxFaults
    /\ up' = [up EXCEPT !.check = "none", !.faults = @ + 1]

(* The T-720 way: a drain waits for the turn however long it takes. *)
MutTick ==
    /\ up.armed
    /\ up' = IF ~up.turn THEN RequestReexec([up EXCEPT !.armed = FALSE], "tick")
             ELSE IF up.age >= UpdDrainAfter THEN [up EXCEPT !.draining = TRUE, !.held = TRUE]
             ELSE up

Tick ==
    /\ up.armed /\ ~up.forced
    /\ LET v == IF up.age >= UpdDrainAfter /\ ~up.draining
                THEN [up EXCEPT !.draining = TRUE, !.held = TRUE] ELSE up
       IN up' = IF ~up.turn THEN RequestReexec([up EXCEPT !.armed = FALSE], "tick")
                ELSE IF v.draining /\ v.age >= UpdDue
                THEN RequestReexec([v EXCEPT !.forced = TRUE, !.armed = FALSE], "tick")
                ELSE v

ClockRuns ==
    /\ up.age \in 0..(UpdDue - 1)
    /\ up' = [up EXCEPT !.age = @ + 1]

(* Exit 42, when the children are stopped or ten seconds have gone by. *)
Exit42 ==
    /\ up.leaving # {}
    /\ \E turn \in BOOLEAN : up' = [UpdBooted(up) EXCEPT !.turn = turn]

UpdCrash ==
    /\ up.faults < UpdMaxFaults
    /\ \E split \in {FALSE, UpdSplit /\ up.check = "bridge"}, turn \in BOOLEAN :
          up' = [UpdBooted(IF split THEN [up EXCEPT !.daemon = up.got] ELSE up)
                    EXCEPT !.faults = @ + 1, !.turn = turn]

UpdNext ==
    \/ UpdStart \/ TurnComes \/ TurnGoes \/ Publish \/ Trigger \/ FetchSha \/ FetchDaemon
    \/ FetchBridge \/ FetchFails \/ Tick \/ ClockRuns \/ Exit42 \/ UpdCrash

(* The timers run, the process exits, and a download ends.  No turn has to *)
(* end.                                                                    *)
UpdFairness ==
    /\ WF_up(Trigger) /\ WF_up(Tick) /\ WF_up(ClockRuns) /\ WF_up(Exit42)
    /\ WF_up(FetchSha \/ FetchDaemon \/ FetchBridge)

UpdSpec == UpdInit /\ [][UpdNext]_UpdVars /\ UpdFairness
-----------------------------------------------------------------------------
UpdTypeOK ==
    /\ {up.boot, up.daemon, up.bridge, up.pub, up.sha, up.got} \subseteq 0..UpdNewest
    /\ up.applied \in -1..UpdNewest /\ up.age \in -1..UpdDue
    /\ up.pubs \in 0..UpdMaxPublish /\ up.faults \in 0..UpdMaxFaults
    /\ up.check \in {"none", "sha", "daemon", "bridge"}
    /\ {up.on, up.armed, up.draining, up.forced, up.held, up.turn} \subseteq BOOLEAN
    /\ up.leaving \subseteq {"check", "tick"}

(* What a start would run is never older than what runs, nor the bridge    *)
(* than the daemon that was fetched before it.                             *)
UpdNeverBack ==
    /\ up.boot <= up.daemon
    /\ up.daemon = UpdNewest => up.bridge = UpdNewest

(* When the server stays with the newest release, both programs get there, *)
(* though a turn may never end, releases overtake each other in the middle *)
(* of a download and a drain is under way; and no drain lasts for ever.    *)
UpdateArrives ==
    /\ <>[](up.on /\ up.pub = UpdNewest) => <>[](up.boot = UpdNewest /\ up.bridge = UpdNewest)
    /\ up.held ~> ~up.held
=============================================================================
