----------------------------- MODULE GraphIndex -----------------------------
(***************************************************************************)
(* The code graph of one workspace: the watcher that waits for a pause in  *)
(* the saves, the builds of graphify, one at a time for each mode          *)
(* (buildGraph), who asks for them (the watcher, the user, the start of an *)
(* agent), the status the user interface last got, and the shim that       *)
(* serves the calls of a semantic build with a CLI.                        *)
(*                                                                         *)
(* The tree is a number, how often it was saved; the index, the tree that  *)
(* was read for it, 0 if there is none.  graphify reads the tree at one    *)
(* moment; a save after it is in no index when the build that its debounce *)
(* joins has ended.  Left out: documents, whose staleness is a flag of graphify's   *)
(* own, and the texts.                                                     *)
(***************************************************************************)
EXTENDS Naturals, Sequences, FiniteSets
LOCAL INSTANCE SequencesExt

CONSTANTS
    GraphSaves,         \* bound on the saves
    GraphAsks,          \* bound on what users and starts ask for
    GraphFaults,        \* bound on builds that fail
    GraphCalls,         \* the calls a semantic build makes, as numbers
    GraphShimMax        \* maxConcurrent

ASSUME GraphAssumption ==
    /\ {GraphSaves, GraphAsks, GraphFaults} \subseteq Nat /\ GraphShimMax \in Nat \ {0}

VARIABLE x              \* the state, see GraphTypeOK

GraphVars == <<x>>

GraphModes == {"code", "sem"}
NoBuild == [fase |-> "none", seen |-> 0, quem |-> <<>>]

(* `left`: a build was announced by someone who does not announce its end, *)
(* see LateOutput and AgentStops.                                          *)
GraphInit ==
    x = [tree |-> 1, index |-> 0, watching |-> FALSE, timer |-> FALSE, asks |-> 0, faults |-> 0,
         builds |-> [m \in GraphModes |-> NoBuild], status |-> "none", stale |-> FALSE,
         killed |-> FALSE, left |-> FALSE, asked |-> {}, waiters |-> <<>>, active |-> 0, on |-> {}]

Told(s, status, stale) == [s EXCEPT !.status = status, !.stale = stale]

(* buildGraph: joins the build of that mode that is under way. *)
BuildGraph(s, m, who) ==
    [s EXCEPT !.builds[m].fase = IF @ = "none" THEN "start" ELSE @, !.builds[m].quem = Append(@, who)]

(* What each caller tells when its build has ended: runUpdate,             *)
(* handleGraphBuild, prepareGraphify with and without an index.            *)
Announce(s, who, ok) ==
    IF who = "gone" THEN s
    ELSE IF ok THEN [Told(s, "ready", FALSE) EXCEPT !.watching = TRUE]
    ELSE CASE who = "watch"   -> Told(s, IF s.index # 0 THEN "ready" ELSE "error", TRUE)
           [] who = "refresh" -> s
           [] OTHER           -> Told(s, "error", s.stale)

(* Whoever awaits a build hears of its end in the order they asked.        *)
AnnounceAll(s, quem, ok) == FoldLeft(LAMBDA t, who : Announce(t, who, ok), s, quem)

(* The failure of a build that nobody hears of. *)
MutEnded(s, m, ok) ==
    LET t == [s EXCEPT !.builds[m] = NoBuild] IN IF ok THEN AnnounceAll(t, s.builds[m].quem, ok) ELSE t

Ended(s, m, ok) == AnnounceAll([s EXCEPT !.builds[m] = NoBuild], s.builds[m].quem, ok)

-----------------------------------------------------------------------------
(* A file is saved; the watcher tells once per pause, and waits again.     *)
Save ==
    /\ x.tree < GraphSaves
    /\ LET s == [x EXCEPT !.tree = @ + 1]
       IN  x' = IF ~s.watching THEN s
                ELSE [IF s.timer THEN s ELSE Told(s, "ready", TRUE) EXCEPT !.timer = TRUE]

(* The debounce timer: runUpdate. *)
Debounce ==
    /\ x.timer
    /\ x' = BuildGraph(Told([x EXCEPT !.timer = FALSE], "building", TRUE), "code", "watch")

(* graph:build. *)
HandleGraphBuild(m) ==
    /\ x.asks < GraphAsks
    /\ x' = BuildGraph(Told([x EXCEPT !.asks = @ + 1], "building", x.stale), m, "user")

(* An agent starts: with an index it is served as it is and refreshed.     *)
PrepareGraphify ==
    /\ x.asks < GraphAsks
    /\ LET s == [x EXCEPT !.asks = @ + 1]
       IN  x' = IF s.index = 0 THEN BuildGraph(Told(s, "building", s.stale), "code", "first")
                ELSE BuildGraph([Told(s, "ready", FALSE) EXCEPT !.watching = TRUE], "code", "refresh")

(* The agent that waits for the first index, or refreshes it, is stopped. *)
AgentStops ==
    /\ \E i \in DOMAIN x.builds["code"].quem :
          /\ x.builds["code"].quem[i] \in {"first", "refresh"}
          /\ x' = [x EXCEPT !.builds["code"].quem[i] = "gone", !.left = TRUE]

(* graphify reads the tree, and reports progress, which its first caller   *)
(* sends on.                                                               *)
Reads(m) ==
    /\ x.builds[m].fase = "start"
    /\ LET s == [x EXCEPT !.builds[m].fase = "read", !.builds[m].seen = x.tree]
       IN  x' = IF Head(s.builds[m].quem) \in {"refresh", "gone"} THEN s ELSE Told(s, "building", s.stale)

BuildOk(m) ==
    /\ x.builds[m].fase = "read"
    /\ x' = Ended([x EXCEPT !.index = x.builds[m].seen], m, TRUE)

(* graphify fails, or the timer kills it. *)
BuildFails(m) ==
    /\ x.builds[m].fase # "none" /\ x.faults < GraphFaults
    /\ \E killed \in BOOLEAN :
          x' = Ended([x EXCEPT !.faults = @ + 1, !.killed = killed], m, FALSE)

(* What a killed graphify had written still arrives as progress. *)
LateOutput ==
    /\ x.killed
    /\ x' = Told([x EXCEPT !.killed = FALSE, !.left = TRUE], "building", x.stale)

(* The shim: a call of graphify takes one of its places or waits. *)
ShimCall(i) ==
    /\ x.builds["sem"].fase = "read" /\ i \notin x.asked
    /\ LET s == [x EXCEPT !.asked = @ \cup {i}]
       IN  x' = IF s.active < GraphShimMax THEN [s EXCEPT !.active = @ + 1, !.on = @ \cup {i}]
                ELSE [s EXCEPT !.waiters = Append(@, i)]

ReleaseShim(s) ==
    IF s.waiters = <<>> THEN [s EXCEPT !.active = @ - 1]
    ELSE [s EXCEPT !.on = @ \cup {Head(s.waiters)}, !.waiters = Tail(@)]

(* runCliText settles: the CLI closes, does not start, or is killed after  *)
(* timeoutMs; nobody asks whether graphify is still there.                 *)
CliSettles(i) ==
    /\ i \in x.on
    /\ x' = ReleaseShim([x EXCEPT !.on = @ \ {i}])

GraphNext ==
    \/ Save \/ Debounce \/ PrepareGraphify \/ AgentStops \/ LateOutput
    \/ \E m \in GraphModes : HandleGraphBuild(m) \/ Reads(m) \/ BuildOk(m) \/ BuildFails(m)
    \/ \E i \in GraphCalls : ShimCall(i) \/ CliSettles(i)

(* Timers fire, graphify ends or is killed, a CLI ends or is killed.       *)
GraphFairness ==
    /\ WF_x(Debounce) /\ WF_x(\E i \in GraphCalls : CliSettles(i))
    /\ \A m \in GraphModes : WF_x(Reads(m) \/ BuildOk(m) \/ BuildFails(m))

GraphSpec == GraphInit /\ [][GraphNext]_GraphVars /\ GraphFairness

-----------------------------------------------------------------------------
GraphTypeOK ==
    /\ x.tree \in 1..GraphSaves /\ x.index \in 0..x.tree
    /\ x.status \in {"none", "building", "ready", "error"}
    /\ {x.watching, x.timer, x.stale, x.killed, x.left} \subseteq BOOLEAN
    /\ x.active = Cardinality(x.on) /\ x.active <= GraphShimMax
    /\ x.waiters # <<>> => x.active = GraphShimMax

(* A build that was announced is announced to have ended, whoever joined   *)
(* it, unless its agent was stopped or a graphify that was killed spoke    *)
(* last; and no call of the shim waits for ever, also when the graphify    *)
(* that made it is gone.                                                   *)
GraphSettles ==
    /\ (x.status = "building") ~> (x.status # "building" \/ x.left)
    /\ (x.waiters # <<>> \/ x.on # {}) ~> (x.waiters = <<>> /\ x.on = {})
=============================================================================
