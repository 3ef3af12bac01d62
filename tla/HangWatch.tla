----------------------------- MODULE HangWatch -----------------------------
(***************************************************************************)
(* The hang watch of a per-message runner: a timer that looks at the clock *)
(* of the turn (turn-watchdog.ts) and cuts a turn that is dead, silent or  *)
(* without end.  Time moves in units, and never before the watch and the   *)
(* timers that are due have run.  The thresholds are those of a runner,    *)
(* their order kept.  What a cut does to the session and who is told of it *)
(* is RunnerTurn's.                                                        *)
(***************************************************************************)
EXTENDS Naturals, FiniteSets
LOCAL INSTANCE FiniteSetsExt

CONSTANTS
    HangProfiles,   \* thresholds of the runners; 0 is one that is not declared
    HangCompact,    \* COMPACT_STUCK_MS
    HangHeal,       \* QUEUE_HEAL_INTERVAL_MS
    HangMessages,   \* messages that are sent
    HangTools,      \* tools a turn may have open
    HangMaxFaults,  \* refused starts, crashes, lost results of tools
    HangMaxAge      \* where an age stops counting

HangFields == {"soft", "hard", "dead", "tools", "first", "post", "life", "cap", "ceiling"}

ASSUME HangAssumption ==
    /\ {HangCompact, HangHeal, HangMessages, HangTools, HangMaxFaults, HangMaxAge} \subseteq Nat
    /\ \A t \in HangProfiles :
          /\ \A f \in HangFields : t[f] \in Nat
          /\ t.atCeiling \in {"kill", "recover", "ask"} /\ {t.marks, t.retries, t.frees} \subseteq BOOLEAN

(* The order hangThresholds and turn-limits.ts give them: window, cap and  *)
(* ceiling grow, and ages are counted beyond all of them.                  *)
ASSUME HangOrdered ==
    /\ HangCompact > 0 /\ HangHeal > 0
    /\ \A t \in HangProfiles :
          /\ t.hard > 0 /\ \A f \in HangFields : t[f] <= HangMaxAge
          /\ t.life # 0 => t.hard <= t.life /\ t.first <= t.life /\ t.tools <= t.life
          /\ t.cap # 0 => t.marks
          /\ t.atCeiling = "recover" => t.cap \in 1 .. t.ceiling
          /\ t.atCeiling = "ask" /\ t.post # 0 => t.hard <= t.post

VARIABLE hw          \* the state, see HangTypeOK

HangVars == <<hw>>

HangInit ==
    \E t \in HangProfiles :
        hw = [t |-> t, queue |-> 0, sent |-> 0, busy |-> FALSE, at |-> "none", state |-> "idle",
             attempt |-> 0, idle |-> 0, age |-> 0, firstEvent |-> FALSE, soft |-> FALSE, deadSince |-> 0,
             tools |-> {}, toolsAge |-> 0, arm |-> 0, compacting |-> FALSE, compactAge |-> 0, healed |-> 0,
             due |-> FALSE, cuts |-> 0, faults |-> 0,
             quiet |-> 0, life |-> 0, gone |-> 0, orphan |-> 0]

-----------------------------------------------------------------------------
(* turn-watchdog.ts *)

EffectiveHardMs(t, cold) ==
    IF cold THEN Max({t.hard, t.first}) ELSE Max({t.hard, t.post})

HangPhase(idle, t, cold) ==
    IF idle >= EffectiveHardMs(t, cold) THEN "hard"
    ELSE IF idle >= (IF cold THEN Max({t.soft, t.first}) ELSE t.soft) THEN "soft" ELSE "ok"

Touched(s) ==
    [s EXCEPT !.idle = 0, !.soft = FALSE, !.deadSince = 0, !.firstEvent = TRUE,
              !.state = IF @ = "stalled" THEN "thinking" ELSE @]

TurnMarked(s) == IF s.t.marks THEN [s EXCEPT !.age = 0, !.firstEvent = FALSE] ELSE s

LifetimeExceeded(s) ==
    \/ s.t.cap # 0 /\ s.age >= s.t.cap
    \/ s.t.life # 0 /\ s.idle >= s.t.life

GrokTimeoutShouldKill(s) ==
    /\ s.idle >= IF s.t.post # 0 THEN s.t.post ELSE s.t.hard
    /\ s.tools = {} \/ s.toolsAge >= s.t.tools

-----------------------------------------------------------------------------
Idle(s) ==
    [s EXCEPT !.busy = FALSE, !.at = "none", !.state = "idle", !.tools = {}, !.toolsAge = 0,
              !.arm = 0, !.quiet = 0, !.life = 0, !.gone = 0]

(* drainOcQueue: the next message waits in the turn gate, or the CLI is    *)
(* not to be used (any more) and the message is gone: nothing drains what  *)
(* is behind it, and qwen, codex, gemini and opencode even stay busy.      *)
Drained(s) ==
    IF s.busy \/ s.compacting \/ s.queue = 0 THEN {s}
    ELSE LET n == [Touched(s) EXCEPT !.queue = @ - 1, !.orphan = 0]
         IN  {[n EXCEPT !.busy = TRUE, !.at = "gate", !.state = "queued"]}
             \cup IF s.faults < HangMaxFaults
                  THEN {[n EXCEPT !.faults = @ + 1, !.busy = ~s.t.frees,
                                  !.at = IF s.t.frees THEN "none" ELSE "refused"]}
                  ELSE {}

HangFault == hw.faults < HangMaxFaults
Faulted(s) == [s EXCEPT !.faults = @ + 1]

(* recoverHungTurn: the message goes back to the front once if the runner  *)
(* keeps it, the clock is set, and the queue goes on.                      *)
Recovered(s) ==
    LET again == s.t.retries /\ s.attempt = 0 /\ s.at # "refused"
        n     == Idle([Touched(s) EXCEPT !.cuts = 1 - @])
    IN  Drained([n EXCEPT !.attempt = IF again THEN 1 ELSE 0, !.queue = IF again THEN @ + 1 ELSE @])

HangPush ==
    /\ hw.sent < HangMessages
    /\ hw' \in Drained([hw EXCEPT !.sent = @ + 1, !.queue = @ + 1])

(* The gate grants, and the CLI is spawned. *)
HangGateGrants ==
    /\ hw.at = "gate"
    /\ hw' = [TurnMarked(Touched([hw EXCEPT !.state = "thinking"]))
               EXCEPT !.at = "live", !.arm = hw.t.ceiling, !.quiet = 0, !.life = 0]

(* The CLI says something; text and a result close every tool. *)
HangEvent ==
    /\ hw.at = "live"
    /\ \E closes \in BOOLEAN :
          hw' = [Touched(hw) EXCEPT !.state = "thinking", !.quiet = 0,
                                  !.tools = IF closes THEN {} ELSE @,
                                  !.toolsAge = IF closes THEN 0 ELSE @]

HangToolOpens ==
    /\ hw.at = "live" /\ hw.t.tools # 0
    /\ \E tool \in (1..HangTools) \ hw.tools :
          hw' = [Touched(hw) EXCEPT !.tools = @ \cup {tool}, !.quiet = 0,
                                  !.toolsAge = IF hw.tools = {} THEN 0 ELSE @]

(* noteToolFechada; it is no activity. *)
HangToolCloses ==
    \E tool \in hw.tools :
        /\ hw.at = "live"
        /\ hw' = [hw EXCEPT !.tools = @ \ {tool}, !.toolsAge = IF hw.tools = {tool} THEN 0 ELSE @]

(* The process ends; its close may never come, for a grandchild holds the  *)
(* pipes.                                                                  *)
HangProcDies == hw.at = "live" /\ HangFault /\ hw' = [Faulted(hw) EXCEPT !.at = "dead", !.arm = 0]

HangTurnEnds ==
    /\ hw.at \in {"live", "dead"}
    /\ hw' \in Drained([Idle(hw) EXCEPT !.attempt = 0])

(* armHardTimeout.  A runner that asks puts the ceiling off for a turn     *)
(* that is not silent.                                                     *)
HangCeiling ==
    /\ hw.at = "live" /\ hw.t.ceiling # 0 /\ hw.arm = 0
    /\ IF hw.t.atCeiling = "recover" THEN hw' \in Recovered(hw)
       ELSE IF hw.t.atCeiling = "ask" /\ ~GrokTimeoutShouldKill(hw)
       THEN hw' = [hw EXCEPT !.arm = Max({hw.t.post, 1})]
       ELSE hw' = [hw EXCEPT !.at = "dead", !.cuts = IF hw.t.atCeiling = "ask" THEN 1 - @ ELSE @]

HangCompactStarts ==
    /\ ~hw.busy /\ ~hw.compacting /\ HangFault
    /\ hw' = [Faulted(hw) EXCEPT !.compacting = TRUE, !.compactAge = 0, !.orphan = 0]

HangCompactEnds == hw.compacting /\ hw' \in Drained([hw EXCEPT !.compacting = FALSE])

-----------------------------------------------------------------------------
(* tickHangWatch, branch by branch. *)

WatchSilence(s) ==
    CASE HangPhase(s.idle, s.t, ~s.firstEvent) = "hard" -> Recovered(s)
      [] HangPhase(s.idle, s.t, ~s.firstEvent) = "soft" /\ ~s.soft ->
            {[s EXCEPT !.soft = TRUE, !.state = "stalled"]}
      [] OTHER -> {s}

WatchTools(s) ==
    IF s.tools = {} THEN WatchSilence(s)
    ELSE IF s.toolsAge >= s.t.tools THEN WatchSilence([s EXCEPT !.tools = {}, !.toolsAge = 0])
    ELSE {IF s.state = "stalled" THEN [Touched(s) EXCEPT !.state = "thinking"] ELSE s}

(* F4 as it was: a turn that goes on talking has no end. *)
MutWatchTurn(s) ==
    LET n == [s EXCEPT !.deadSince = IF s.at # "dead" THEN 0 ELSE IF @ = 0 THEN 1 ELSE @]
    IN  IF n.deadSince > n.t.dead THEN Recovered(n) ELSE WatchTools(n)

WatchTurn(s) ==
    LET n == [s EXCEPT !.deadSince = IF s.at # "dead" THEN 0 ELSE IF @ = 0 THEN 1 ELSE @]
    IN  IF n.deadSince > n.t.dead THEN Recovered(n)
        ELSE IF LifetimeExceeded(n) THEN Recovered(n)
        ELSE WatchTools(n)

(* T-055 as it was: a turn that waits in the gate is a turn. *)
MutWatch(s) ==
    IF s.compacting
    THEN IF s.compactAge >= HangCompact THEN Drained([s EXCEPT !.compacting = FALSE]) ELSE {s}
    ELSE IF ~s.busy /\ s.queue > 0
    THEN IF s.healed >= HangHeal THEN Drained([s EXCEPT !.healed = 0]) ELSE {s}
    ELSE IF ~s.busy
    THEN {[s EXCEPT !.state = "idle", !.soft = FALSE, !.deadSince = 0]}
    ELSE WatchTurn(s)

Watch(s) ==
    IF s.at = "gate" THEN {[s EXCEPT !.deadSince = 0, !.soft = FALSE]}
    ELSE IF s.compacting
    THEN IF s.compactAge >= HangCompact THEN Drained([s EXCEPT !.compacting = FALSE]) ELSE {s}
    ELSE IF ~s.busy /\ s.queue > 0
    THEN IF s.healed >= HangHeal THEN Drained([s EXCEPT !.healed = 0]) ELSE {s}
    ELSE IF ~s.busy
    THEN {[s EXCEPT !.state = "idle", !.soft = FALSE, !.deadSince = 0]}
    ELSE WatchTurn(s)

HangTick == hw.due /\ \E n \in Watch(hw) : hw' = [n EXCEPT !.due = FALSE]

Older(n) == IF n < HangMaxAge THEN n + 1 ELSE n

(* A unit of time.  What is due runs before the next one. *)
HangTime ==
    /\ ~hw.due /\ ~(hw.at = "live" /\ hw.t.ceiling # 0 /\ hw.arm = 0)
    /\ hw' = [hw EXCEPT !.due = TRUE, !.idle = Older(@), !.age = Older(@), !.healed = Older(@),
                      !.deadSince = IF @ = 0 THEN 0 ELSE Older(@),
                      !.toolsAge = IF hw.tools = {} THEN 0 ELSE Older(@),
                      !.compactAge = IF hw.compacting THEN Older(@) ELSE 0,
                      !.arm = IF @ = 0 THEN 0 ELSE @ - 1,
                      !.quiet = IF hw.at \in {"live", "refused"} THEN Older(@) ELSE 0,
                      !.life = IF hw.at = "live" THEN Older(@) ELSE 0,
                      !.gone = IF hw.at = "dead" THEN Older(@) ELSE 0,
                      !.orphan = IF hw.queue > 0 /\ ~hw.busy /\ ~hw.compacting THEN Older(@) ELSE 0]

HangNext ==
    \/ HangPush \/ HangGateGrants \/ HangEvent \/ HangToolOpens \/ HangToolCloses \/ HangProcDies
    \/ HangTurnEnds \/ HangCeiling \/ HangCompactStarts \/ HangCompactEnds \/ HangTick \/ HangTime

HangSpec == HangInit /\ [][HangNext]_HangVars

-----------------------------------------------------------------------------
HangTypeOK ==
    /\ hw.t \in HangProfiles /\ hw.at \in {"none", "gate", "refused", "live", "dead"}
    /\ hw.state \in {"idle", "queued", "thinking", "stalled"} /\ hw.busy = (hw.at # "none")
    /\ {hw.queue, hw.attempt} \subseteq 0..(HangMessages + 1) /\ hw.faults \in 0..HangMaxFaults
    /\ hw.tools \subseteq 1..HangTools /\ hw.cuts \in {0, 1}

(* A turn that is cut was dead, or out of its time, or since its CLI ran   *)
(* said nothing for as long as the runner may be silent, without a tool    *)
(* that may still be running: what it waited in the gate, and what came    *)
(* before it, is not held against it (T-055, T-240, T-593, T-685).         *)
HangSpares ==
    [][hw'.cuts # hw.cuts =>
         \/ hw.at \in {"dead", "refused"}
         \/ hw.at = "live" /\ hw.t.cap # 0 /\ hw.life >= hw.t.cap
         \/ /\ hw.at = "live" /\ hw.quiet >= Min({EffectiveHardMs(hw.t, TRUE), EffectiveHardMs(hw.t, FALSE)})
            /\ hw.tools = {} \/ hw.toolsAge >= hw.t.tools]_HangVars

(* Nothing holds the runner for ever: a dead turn, a silent one, one       *)
(* beyond its cap, a compact that is stuck and a queue nobody drains all   *)
(* end within their limit and one look of the watch.                       *)
HangEnds ==
    /\ hw.gone <= hw.t.dead + 2
    /\ hw.quiet <= Max({hw.t.tools, EffectiveHardMs(hw.t, TRUE), EffectiveHardMs(hw.t, FALSE)})
    /\ hw.t.cap # 0 => hw.life <= hw.t.cap
    /\ hw.compactAge <= HangCompact
    /\ hw.orphan <= HangHeal
=============================================================================
