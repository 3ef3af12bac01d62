---------------------------- MODULE GitRequests -----------------------------
(***************************************************************************)
(* The git:* requests of the user interface.  They are handled side by     *)
(* side, one git process or two each, and find the workspace they are for  *)
(* in one field of the daemon, activeWsOverride: handle sets it before a   *)
(* handler runs and clears it when that handler has ended, whoever else is *)
(* under way.                                                              *)
(*                                                                         *)
(* A workspace is a model value.  What the commands do in it, and how      *)
(* their output is parsed, is left out.                                    *)
(***************************************************************************)
EXTENDS Naturals, FiniteSets

CONSTANTS
    GitPlaces,      \* the workspaces of the projects, all with a repository
    GitBare,        \* workspaces without one
    GitOutside,     \* paths outside of what the daemon may touch
    GitMax,         \* bound on the requests
    GitRootless     \* TRUE: requests may come without a workspaceRoot

ASSUME GitAssumption ==
    /\ GitMax \in Nat /\ GitRootless \in BOOLEAN
    /\ {"null", "absent", "none"} \cap (GitPlaces \cup GitBare \cup GitOutside) = {}

VARIABLE q

GitVars == <<q>>

GitIds == 1 .. GitMax
GitAsks == GitPlaces \cup GitBare \cup GitOutside \cup (IF GitRootless THEN {"absent"} ELSE {})
GitOps == {"status", "other", "elsewhere"}

GitInit ==
    q = [asked |-> 0, override |-> "null", of |-> [i \in GitIds |-> "none"], op |-> [i \in GitIds |-> "none"],
         left |-> [i \in GitIds |-> 0], ran |-> [i \in GitIds |-> {}], answer |-> [i \in GitIds |-> "none"]]

(* A refused workspace that leaves the field as it is. *)
MutOverride(s, op, ws) ==
    IF op = "elsewhere" \/ ws = "absent" \/ ws \in GitOutside THEN s.override ELSE ws

(* What handle does to the field before the handler runs: a request that   *)
(* is no git:* or has no workspaceRoot leaves it as it is.                 *)
Override(s, op, ws) ==
    IF op = "elsewhere" \/ ws = "absent" THEN s.override
    ELSE IF ws \in GitOutside THEN "null"
    ELSE ws

(* handleGitStatus has two processes under way at once, the others one.    *)
Processes(op) == IF op = "status" THEN 2 ELSE 1

GitAnswer(s, i, what) == [s EXCEPT !.answer[i] = what, !.override = "null"]

(* From the message to the first await, in one go: gitCwd, then gitExec of *)
(* every process the request needs.  A request of another kind is awaited  *)
(* too, and clears the field when it ends.                                 *)
Handle ==
    /\ q.asked < GitMax
    /\ \E op \in GitOps, ws \in GitAsks :
          LET i == q.asked + 1
              o == Override(q, op, ws)
              s == [q EXCEPT !.asked = i, !.of[i] = ws, !.op[i] = op, !.override = o] IN
          q' = IF op # "elsewhere" /\ o \in {"null"} \cup GitBare THEN GitAnswer(s, i, "error")
               ELSE [s EXCEPT !.left[i] = Processes(op), !.ran[i] = IF op = "elsewhere" THEN {} ELSE {o}]

(* A process ends.  Promise.all rejects with the first that fails, and the *)
(* handler is over while the other still runs.                             *)
GitEnds(i) ==
    /\ q.left[i] > 0
    /\ LET s == [q EXCEPT !.left[i] = @ - 1] IN
       \/ q' = IF s.left[i] = 0 /\ s.answer[i] = "none" THEN GitAnswer(s, i, "ok") ELSE s
       \/ q.op[i] # "elsewhere" /\ q' = IF q.answer[i] = "none" THEN GitAnswer(s, i, "error") ELSE s

GitNext == Handle \/ \E i \in GitIds : GitEnds(i)

GitSpec == GitInit /\ [][GitNext]_GitVars

-----------------------------------------------------------------------------
GitTypeOK ==
    /\ q.asked \in 0 .. GitMax /\ q.override \in {"null"} \cup GitPlaces \cup GitBare
    /\ q.left \in [GitIds -> 0 .. 2] /\ q.answer \in [GitIds -> {"none", "ok", "error"}]

(* However requests for several workspaces overlap, the processes of a     *)
(* request run in the workspace it names, and a request whose workspace is *)
(* refused or has no repository runs nothing.                              *)
GitOwnPlace == \A i \in GitIds : q.ran[i] \subseteq {q.of[i]} \cap GitPlaces
=============================================================================
