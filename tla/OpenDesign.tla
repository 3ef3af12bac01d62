----------------------------- MODULE OpenDesign -----------------------------
(***************************************************************************)
(* The requests of the Open Design tab: each is one call of the local Open *)
(* Design server, or a change and then a read of what it changed, and gets *)
(* one answer.  A call that times out is given up, not undone.             *)
(*                                                                         *)
(* Of the server there is a revision, which every change it takes raises;  *)
(* it may refuse any call.  A request keeps the revision its change made   *)
(* and the one its read saw.  The catalogs are in module Catalogs; inputs  *)
(* that are refused before a call (ids, paths, names, sizes) end at once.  *)
(***************************************************************************)
EXTENDS Naturals, Sequences
LOCAL INSTANCE SequencesExt

CONSTANTS
    OdMaxRequests,  \* bound on requests
    OdMaxForeign    \* bound on changes by others

ASSUME OdAssumption == OdMaxRequests \in Nat /\ OdMaxForeign \in Nat

VARIABLE od

OdVars == <<od>>

OdInit == od = [rev |-> 0, reqs |-> <<>>, foreign |-> 0]

OdRoom == Len(od.reqs) < OdMaxRequests

(* call: the call that is out or was last; owed: has the server not yet    *)
(* dealt with it?  reply: what it made of it.                              *)
OdRequest(op, call, stage) ==
    [op |-> op, call |-> call, stage |-> stage, owed |-> stage = "waiting", reply |-> "none", did |-> 0, saw |-> 0]

Ask(op, call) == OdRoom /\ \E stage \in {"waiting", "error"} : od' = [od EXCEPT !.reqs = Append(@, OdRequest(op, call, stage))]

ListarProjetos == Ask("list", "read")
MudarProjetos == \E op \in {"create_project", "delete_project"} : Ask(op, "change")
DuplicarProjeto == Ask("duplicate", "change")
ListarArquivos == Ask("files", "read")
MudarArquivos == \E op \in {"write", "delete_file"} : Ask(op, "change")
LerArquivo == \E op \in {"file", "artifact"} : Ask(op, "read")
BuscarArquivos == Ask("search", "read")
ListarVersoes == Ask("versions", "read")
RestaurarVersao == Ask("restore_version", "change")
IniciarRun == Ask("start_run", "change")
LerRun == Ask("run", "read")
MudarRun == \E op \in {"cancel_run", "steer"} : Ask(op, "change")
CopiarDesignSystem == Ask("copy_design_system", "change")

Changes(op) == op \notin {"list", "files", "file", "artifact", "search", "versions", "run"}
ReadsBack(op) == op \in {"create_project", "delete_project", "duplicate", "write", "delete_file", "restore_version"}

(* The server refuses the call, or takes the change, or answers the read,  *)
(* of a daemon that waits or no longer does.                               *)
ServerDeals ==
    \E i \in DOMAIN od.reqs :
       /\ od.reqs[i].owed
       /\ \/ od' = [od EXCEPT !.reqs[i].owed = FALSE, !.reqs[i].reply = "refused"]
          \/ od.reqs[i].call = "change"
             /\ od' = [od EXCEPT !.rev = @ + 1,
                                 !.reqs[i] = [@ EXCEPT !.owed = FALSE, !.reply = "taken", !.did = od.rev + 1]]
          \/ od.reqs[i].call = "read"
             /\ od' = [od EXCEPT !.reqs[i] = [@ EXCEPT !.owed = FALSE, !.reply = "taken", !.saw = od.rev]]

Foreign == od.foreign < OdMaxForeign /\ od' = [od EXCEPT !.rev = @ + 1, !.foreign = @ + 1]

(* An answer of the server whose status nobody looks at: fetch fails for   *)
(* no status.                                                              *)
MutTaken(req) == req.reply # "none"
Taken(req) == req.reply = "taken"

(* The change is over and its read begins, or the request is answered.     *)
ReplyArrives ==
    \E i \in DOMAIN od.reqs :
       LET req == od.reqs[i] IN
       /\ req.stage = "waiting" /\ req.reply # "none"
       /\ od' = [od EXCEPT !.reqs[i] =
                    IF ~Taken(req) THEN [req EXCEPT !.stage = "error"]
                    ELSE IF req.call = "change" /\ ReadsBack(req.op)
                    THEN [req EXCEPT !.call = "read", !.owed = TRUE, !.reply = "none"]
                    ELSE [req EXCEPT !.stage = "ok"]]

(* AbortSignal.timeout, a broken connection, an answer that cannot be read *)
(* or is too large: an error, whatever the server makes of the call.       *)
GivesUp == \E i \in DOMAIN od.reqs : od.reqs[i].stage = "waiting" /\ od' = [od EXCEPT !.reqs[i].stage = "error"]

OdNext ==
    \/ ListarProjetos \/ MudarProjetos \/ DuplicarProjeto \/ ListarArquivos \/ MudarArquivos \/ LerArquivo
    \/ BuscarArquivos \/ ListarVersoes \/ RestaurarVersao \/ IniciarRun \/ LerRun \/ MudarRun \/ CopiarDesignSystem
    \/ ServerDeals \/ Foreign \/ ReplyArrives \/ GivesUp

OdSpec == OdInit /\ [][OdNext]_OdVars

-----------------------------------------------------------------------------
OdTypeOK ==
    /\ od.rev \in Nat /\ od.foreign \in 0 .. OdMaxForeign
    /\ \A req \in Range(od.reqs) :
          /\ req.call \in {"change", "read"} /\ req.stage \in {"waiting", "ok", "error"}
          /\ req.reply \in {"none", "taken", "refused"} /\ {req.did, req.saw} \subseteq 0 .. od.rev

(* A change that is answered as done was done, and what the tab is given   *)
(* with it (the projects, the files, the restored file) was read after it  *)
(* (main.ts:2203).                                                         *)
OdReadsBack ==
    \A req \in Range(od.reqs) :
       req.stage = "ok" => /\ Changes(req.op) => req.did > 0
                           /\ ReadsBack(req.op) => req.saw >= req.did
=============================================================================
