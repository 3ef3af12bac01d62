----------------------------- MODULE AgentSpawn -----------------------------
(***************************************************************************)
(* One agent of the host from the outside: agent:spawn with its waits (the *)
(* key of the project, the clone of the repository, the worktree, the      *)
(* start of the runner), agent:stop, the exits of its runners, and the     *)
(* worktree and branch the agent works in.                                 *)
(*                                                                         *)
(* A spawn is a number and names the runner it makes.  A configuration is  *)
(* a number; it stands for the fields that `reconfig` compares.  What the  *)
(* runner does once it is up is the business of the other modules.         *)
(***************************************************************************)
EXTENDS Naturals, FiniteSets

CONSTANTS
    AgSpawns,       \* bound on the agent:spawn of the server
    AgConfigs,      \* the configurations
    AgMaxFaults,    \* bound on crashes, restarts of a CLI, failed clones, adds and starts
    AgLapses        \* what may meet: see AgMayAsk, AgMayStop, AgBackUp

ASSUME AgAssumption ==
    /\ AgSpawns \in Nat \ {0} /\ AgMaxFaults \in Nat
    /\ AgConfigs \subseteq Nat \ {0} /\ AgConfigs # {}
    /\ AgLapses \subseteq {"overlap", "stop", "revive"}

VARIABLE ag

AgVars == <<ag>>

AgIds == 1 .. AgSpawns

AgInit ==
    \E key \in BOOLEAN :
        ag = [asked |-> 0, wants |-> 0, faults |-> 0, call |-> [i \in AgIds |-> "none"],
              cfg |-> [i \in AgIds |-> 0], key |-> key, waited |-> FALSE, pending |-> 0,
              repo |-> "none", run |-> 0, live |-> {}, down |-> {}, told |-> {}, gone |-> {},
              wt |-> 0, tree |-> 0, meta |-> FALSE, branch |-> FALSE, removing |-> FALSE,
              place |-> [i \in AgIds |-> "none"], said |-> FALSE]

AgUnderWay == {i \in AgIds : ag.call[i] \in {"key", "clone", "add", "start"}}
AgFails == ag.faults < AgMaxFaults

(* An onExit that does not ask whether its runner was replaced. *)
MutOnExit(s, i) == [s EXCEPT !.run = 0, !.said = FALSE]

(* emitExit, once for a runner, and onExit: the exit of a runner that was  *)
(* replaced says nothing.                                                  *)
OnExit(s, i) == IF s.run = i THEN [s EXCEPT !.run = 0, !.said = FALSE] ELSE s

AgEmitExit(s, i) ==
    IF i \in s.gone THEN s ELSE OnExit([s EXCEPT !.gone = @ \cup {i}, !.live = @ \ {i}], i)

(* AgentRunner.stop: a process that lives is terminated and exits later;   *)
(* without one (a per-message runner between turns, claude in mid-restart) *)
(* the exit is at once.                                                    *)
StopRunner(s, i, live) ==
    LET t == [s EXCEPT !.told = @ \cup {i}] IN IF live THEN t ELSE AgEmitExit(t, i)

HasProcess(s, i) ==
    IF i \notin s.live \/ s.call[i] = "start" THEN {FALSE} ELSE IF i \in s.told THEN {TRUE} ELSE BOOLEAN

(* AgentHost.spawn from its checks to its first wait.  A runner that lives *)
(* with the same configuration is only announced again; any other is told  *)
(* to stop and gives way.                                                  *)
AlreadyUp(s, i) ==
    s.run # 0 /\ s.run \notin s.told \cup s.down \cup s.gone /\ s.cfg[s.run] = s.cfg[i]

GiveWay(s, live) ==
    IF s.run = 0 THEN s ELSE [StopRunner(s, s.run, live) EXCEPT !.run = 0]

(* What is in the way of the worktree is deleted, then git is asked.       *)
BeginAdd(s, i) == [s EXCEPT !.call[i] = "add", !.tree = 0]

HostSpawn(s, i, live) ==
    IF AlreadyUp(s, i) THEN [s EXCEPT !.call[i] = "over", !.said = TRUE]
    ELSE LET t == GiveWay(s, live) IN
         IF t.repo = "none" THEN [t EXCEPT !.call[i] = "clone", !.repo = "cloning"]
         ELSE BeginAdd(t, i)

(* The case agent:spawn of handleInner: without the key of the project the *)
(* first spawn waits for it, 10 s at most; a second one goes ahead.        *)
HandleSpawn(s, i, live) ==
    IF s.key \/ s.waited THEN HostSpawn([s EXCEPT !.waited = FALSE], i, live)
    ELSE [s EXCEPT !.call[i] = "key", !.pending = IF @ = 0 THEN i ELSE @, !.waited = TRUE]

SpawnWith(s, i) ==
    \E live \in IF s.run = 0 THEN {FALSE} ELSE HasProcess(s, s.run) : ag' = HandleSpawn(s, i, live)

(* The server asks: its user starts or reconfigures the agent, or a hello  *)
(* is answered with what should run.                                       *)
AgMayAsk == AgUnderWay = {} \/ "overlap" \in AgLapses

AskSpawn ==
    /\ ag.asked < AgSpawns /\ AgMayAsk
    /\ \E f \in AgConfigs :
          LET i == ag.asked + 1 IN
          SpawnWith([ag EXCEPT !.asked = i, !.cfg[i] = f, !.wants = f], i)

(* project_key:for_daemon lets the spawn that waits go on.                 *)
KeyComes ==
    /\ ~ag.key
    /\ LET s == [ag EXCEPT !.key = TRUE, !.pending = 0] IN
       IF ag.pending = 0 THEN ag' = s ELSE SpawnWith(s, ag.pending)

KeyWaitEnds ==
    /\ ag.pending # 0
    /\ SpawnWith([ag EXCEPT !.pending = 0], ag.pending)

(* cloneRepoIfMissing: a second spawn finds the .git of a clone that runs. *)
CloneEnds(i) ==
    /\ ag.call[i] = "clone"
    /\ \/ ag' = BeginAdd([ag EXCEPT !.repo = "there"], i)
       \/ /\ AgFails
          /\ ag' = [ag EXCEPT !.faults = @ + 1, !.repo = "none", !.call[i] = "over", !.said = FALSE]

(* The runner is made and becomes the one in force; start is under way.    *)
Build(s, i, where) ==
    [s EXCEPT !.place[i] = where, !.run = i, !.live = @ \cup {i}, !.said = TRUE, !.call[i] = "start",
              !.wt = IF where = "own" THEN i ELSE 0]

(* git worktree add -b: the branch of an agent has one name, and nothing   *)
(* in the daemon deletes it; if it exists, the agent gets the shared cwd.  *)
AddEnds(i) ==
    /\ ag.call[i] = "add"
    /\ \/ /\ ~ag.branch
          /\ ag' = Build([ag EXCEPT !.branch = TRUE, !.tree = i, !.meta = TRUE], i, "own")
       \/ /\ ag.branch
          /\ ag' = Build(ag, i, "shared")
       \/ /\ ~ag.branch /\ AgFails
          /\ ag' = Build([ag EXCEPT !.faults = @ + 1], i, "shared")

(* start: the graph of the workspace first, up to three minutes; then a    *)
(* runner that was stopped meanwhile starts nothing.  A CLI that is not    *)
(* installed is an exit.                                                   *)
StartEnds(i) ==
    /\ ag.call[i] = "start"
    /\ LET s == [ag EXCEPT !.call[i] = "over"] IN
       \/ ag' = s
       \/ i \notin ag.told /\ AgFails /\ ag' = AgEmitExit([s EXCEPT !.faults = @ + 1], i)

AgStart(i) == CloneEnds(i) \/ AddEnds(i) \/ StartEnds(i)

(* agent:stop, and removeWorktreeOf, which is not awaited. *)
AgMayStop == AgUnderWay = {} \/ "stop" \in AgLapses

AskStop ==
    /\ AgMayStop
    /\ \/ ag.run = 0 /\ ag' = [ag EXCEPT !.wants = 0]
       \/ /\ ag.run # 0
          /\ \E live \in HasProcess(ag, ag.run) :
                ag' = StopRunner([ag EXCEPT !.wants = 0, !.removing = @ \/ ag.wt # 0, !.wt = 0], ag.run, live)

(* runGitWorktreeRemove: the tree and what git knows of it, not the branch. *)
RemovalEnds == ag.removing /\ ag' = [ag EXCEPT !.removing = FALSE, !.tree = 0, !.meta = FALSE]

(* Another process took the connection: its CLIs are stopped, the worktree *)
(* stays.  The server asks again when that process is gone.                *)
AgStopClis ==
    /\ AgMayStop /\ ag.run # 0
    /\ \E live \in HasProcess(ag, ag.run) : ag' = StopRunner(ag, ag.run, live)

(* A process ends: it was told to, or it crashes. *)
ProcessExits(i) ==
    /\ i \in ag.live \ ag.down /\ ag.call[i] # "start"
    /\ \/ i \in ag.told /\ ag' = AgEmitExit(ag, i)
       \/ i \notin ag.told /\ AgFails /\ ag' = AgEmitExit([ag EXCEPT !.faults = @ + 1], i)

(* A recover, a clear or a compact of claude ends its process and starts   *)
(* another.  After a stop a recover does not; a clear does.                *)
GoesDown(i) ==
    /\ i \in ag.live \ (ag.down \cup ag.told) /\ ag.call[i] = "over" /\ AgFails
    /\ ag' = [ag EXCEPT !.faults = @ + 1, !.down = @ \cup {i}, !.live = @ \ {i}]

AgBackUp(i) ==
    /\ i \in ag.down
    /\ ag' = [ag EXCEPT !.down = @ \ {i},
                        !.live = IF i \notin ag.told \/ "revive" \in AgLapses THEN @ \cup {i} ELSE @]

(* Somebody merges the agent's branch and deletes it: git allows it when   *)
(* no worktree has it out.                                                 *)
BranchDeleted == ag.branch /\ ~ag.meta /\ ag' = [ag EXCEPT !.branch = FALSE]

AgNext ==
    \/ AskSpawn \/ KeyComes \/ KeyWaitEnds \/ AskStop \/ RemovalEnds \/ AgStopClis \/ BranchDeleted
    \/ \E i \in AgIds : AgStart(i) \/ ProcessExits(i) \/ GoesDown(i) \/ AgBackUp(i)

AgSpec == AgInit /\ [][AgNext]_AgVars

-----------------------------------------------------------------------------
AgTypeOK ==
    /\ ag.run \in {0} \cup AgIds /\ ag.wt \in {0} \cup AgIds /\ ag.tree \in {0} \cup AgIds
    /\ ag.live \cup ag.down \cup ag.told \cup ag.gone \subseteq AgIds /\ ag.live \cap ag.down = {}
    /\ ag.repo \in {"none", "cloning", "there"} /\ {ag.key, ag.said, ag.branch, ag.removing} \subseteq BOOLEAN
    /\ ag.call \in [AgIds -> {"none", "key", "clone", "add", "start", "over"}]

(* However spawns, reconnections, reconfigurations, stops, crashes and the *)
(* late exits of earlier runners follow each other: at most one runner     *)
(* that was not told to stop has a process, and it is the one in force,    *)
(* with the configuration asked for last and the worktree it was made in;  *)
(* a runner whose exit was announced has no process left; and when nothing *)
(* is under way the server was told what is true, and what it stopped does *)
(* not run.                                                                *)
AgInStep ==
    /\ \A i \in (ag.live \cup ag.down) \ ag.told :
          /\ i = ag.run
          /\ AgUnderWay \subseteq {i} => ag.cfg[i] = ag.wants
          /\ ag.place[i] = "own" => ag.tree = i
    /\ ag.live \cap ag.gone = {}
    /\ AgUnderWay = {} /\ ag.live \cap ag.told = {} /\ ag.down = {} =>
          /\ ag.said <=> ag.run # 0
          /\ ag.run # 0 => ag.run \in ag.live
          /\ ag.wants = 0 => ag.live = {}

(* A runner of an agent with worktrees never runs in the cwd it shares     *)
(* with others, as long as no git command fails.                           *)
AgIsolated == ag.faults = 0 => \A i \in AgIds : ag.place[i] # "shared"
=============================================================================
