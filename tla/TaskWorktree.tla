---------------------------- MODULE TaskWorktree ----------------------------
(***************************************************************************)
(* workspace:create and workspace:remove of one task and one agent: the    *)
(* branch and the worktree they make and take away, by git calls that are  *)
(* awaited one after the other while other requests, the agent in the      *)
(* worktree and its merges go on.                                          *)
(*                                                                         *)
(* A commit is a number.  What git itself refuses is modelled as git does: *)
(* a branch that exists or is out in a worktree, a worktree with changes,  *)
(* branch -d of what is not merged.  The checks of paths and names are     *)
(* left out.                                                               *)
(***************************************************************************)
EXTENDS Naturals, FiniteSets

CONSTANTS
    TwRequests,     \* bound on the requests
    TwCommits,      \* bound on the commits of the agent
    TwMaxFaults     \* bound on git calls that fail for a reason of their own

ASSUME TwAssumption == {TwRequests, TwCommits, TwMaxFaults} \subseteq Nat

VARIABLE tw

TwVars == <<tw>>

TwIds == 1 .. TwRequests
NoRequest == [step |-> "none", force |-> FALSE, pending |-> {}, merged |-> FALSE, answer |-> "none"]

TwInit ==
    tw = [asked |-> 0, req |-> [i \in TwIds |-> NoRequest], branch |-> FALSE, tree |-> FALSE,
          tip |-> {}, main |-> {}, made |-> 0, loose |-> FALSE, faults |-> 0,
          forced |-> {}, dropped |-> FALSE]

TwFails == tw.faults < TwMaxFaults
Faulty == [tw EXCEPT !.faults = @ + 1]
Step(s, i, to) == [s EXCEPT !.req[i].step = to]
Reply(s, i, ok) == [s EXCEPT !.req[i].step = "over", !.req[i].answer = IF ok THEN "ok" ELSE "error"]

TwAsk ==
    /\ tw.asked < TwRequests
    /\ LET i == tw.asked + 1 IN
       \E to \in {"exists", "log"}, f \in BOOLEAN :
          tw' = [Step(tw, i, to) EXCEPT !.asked = i, !.req[i].force = f /\ to = "log"]

(* createTaskWorktree: branchExists takes a git that fails for a no, and   *)
(* so does worktreeListed, but the tree that exists is seen without git.   *)
BranchExists(i) ==
    /\ tw.req[i].step = "exists"
    /\ \/ tw' = IF tw.branch THEN Reply(tw, i, FALSE) ELSE Step(tw, i, "listed")
       \/ TwFails /\ tw' = Step(Faulty, i, "listed")

WorktreeListed(i) ==
    /\ tw.req[i].step = "listed"
    /\ tw' = IF tw.tree THEN Reply(tw, i, FALSE) ELSE Step(tw, i, "add")

WorktreeAdd(i) ==
    /\ tw.req[i].step = "add"
    /\ \/ /\ ~tw.branch /\ ~tw.tree
          /\ tw' = Reply([tw EXCEPT !.branch = TRUE, !.tree = TRUE, !.tip = tw.main, !.loose = FALSE], i, TRUE)
       \/ (tw.branch \/ tw.tree) /\ tw' = Reply(tw, i, FALSE)
       \/ TwFails /\ tw' = Reply(Faulty, i, FALSE)

(* removeTaskWorktree: a log that fails is no pending commit, a            *)
(* merge-base that fails is a branch that is not merged.                   *)
PendingCommits(i) ==
    /\ tw.req[i].step = "log"
    /\ \/ tw' = [Step(tw, i, "merged") EXCEPT !.req[i].pending = IF tw.branch THEN tw.tip \ tw.main ELSE {}]
       \/ TwFails /\ tw' = Step(Faulty, i, "merged")

Refused(s, i) == ~s.req[i].force /\ ~s.req[i].merged /\ s.req[i].pending # {}

IsMergedIntoMain(i) ==
    /\ tw.req[i].step = "merged"
    /\ \/ LET s == [tw EXCEPT !.req[i].merged = tw.branch /\ tw.tip \subseteq tw.main] IN
          tw' = IF Refused(s, i) THEN Reply(s, i, FALSE) ELSE Step(s, i, "remove")
       \/ /\ TwFails
          /\ tw' = IF Refused(tw, i) THEN Reply(Faulty, i, FALSE) ELSE Step(Faulty, i, "remove")

(* Force whenever the log showed nothing that could be lost. *)
MutByForce(r) == r.force \/ r.pending = {}

(* rmArgs and brArgs: --force and -D only when the request says so. *)
ByForce(r) == r.force

(* git worktree remove. *)
WorktreeRemove(i) ==
    /\ tw.req[i].step = "remove"
    /\ \/ /\ tw.tree /\ (tw.loose => ByForce(tw.req[i]))
          /\ tw' = [Step(tw, i, "branch") EXCEPT !.tree = FALSE, !.loose = FALSE,
                                                 !.dropped = @ \/ (tw.loose /\ ~tw.req[i].force)]
       \/ tw.tree /\ tw.loose /\ ~ByForce(tw.req[i]) /\ tw' = Reply(tw, i, FALSE)
       \/ ~tw.tree /\ tw' = Step(tw, i, "branch")
       \/ tw.tree /\ TwFails /\ tw' = Reply(Faulty, i, FALSE)

(* git branch -d, which wants the branch merged into HEAD, here main, or   *)
(* -D; whatever git answers, the request is done.                          *)
BranchDelete(i) ==
    /\ tw.req[i].step = "branch"
    /\ \/ /\ tw.branch /\ ~tw.tree
          /\ tw.tip \subseteq tw.main \/ ByForce(tw.req[i])
          /\ tw' = [Reply(tw, i, TRUE) EXCEPT !.branch = FALSE, !.tip = {},
                       !.forced = IF tw.req[i].force THEN @ \cup tw.tip ELSE @]
       \/ /\ ~tw.branch \/ tw.tree \/ ~(tw.tip \subseteq tw.main \/ ByForce(tw.req[i]))
          /\ tw' = Reply(tw, i, TRUE)
       \/ TwFails /\ tw' = Reply(Faulty, i, TRUE)

(* The agent works, commits and merges. *)
Works == tw.tree /\ ~tw.loose /\ tw' = [tw EXCEPT !.loose = TRUE]

Commits ==
    /\ tw.tree /\ tw.loose /\ tw.made < TwCommits
    /\ tw' = [tw EXCEPT !.loose = FALSE, !.made = @ + 1, !.tip = @ \cup {tw.made + 1}]

Merges == tw.branch /\ tw' = [tw EXCEPT !.main = @ \cup tw.tip]

TwServes(i) ==
    \/ BranchExists(i) \/ WorktreeListed(i) \/ WorktreeAdd(i)
    \/ PendingCommits(i) \/ IsMergedIntoMain(i) \/ WorktreeRemove(i) \/ BranchDelete(i)

TwNext == TwAsk \/ Works \/ Commits \/ Merges \/ \E i \in TwIds : TwServes(i)

TwSpec == TwInit /\ [][TwNext]_TwVars

-----------------------------------------------------------------------------
TwTypeOK ==
    /\ tw.asked \in 0 .. TwRequests /\ tw.made \in 0 .. TwCommits
    /\ tw.tip \cup tw.main \cup tw.forced \subseteq 1 .. TwCommits
    /\ {tw.branch, tw.tree, tw.loose, tw.dropped} \subseteq BOOLEAN

(* Whatever happens between the checks of a removal and its git calls, and *)
(* whichever of them fail: a commit is on main, on its branch, or was      *)
(* deleted by a request with force, and so was what was not committed.     *)
TwKept ==
    /\ 1 .. tw.made \subseteq tw.main \cup tw.tip \cup tw.forced
    /\ tw.tip # {} => tw.branch
    /\ ~tw.dropped
=============================================================================
