---------------------------- MODULE FileRequests ----------------------------
(***************************************************************************)
(* The files of a workspace as the interface asks for them: file:list,     *)
(* read, write, operation and search, and the files of a skill.  Requests  *)
(* are not serialized, and each is a look and then a deed, with an await   *)
(* in between; agents change the same files.                               *)
(*                                                                         *)
(* A path leads to a node of the file system or to nothing; a node is a    *)
(* directory or a file, and a file is known by the number of who wrote it. *)
(* Paths outside of the workspace, missing roots and contents over the     *)
(* limits are refused before anything is looked at.  A skill is a          *)
(* directory like any other.                                               *)
(***************************************************************************)
EXTENDS Integers, Sequences, FiniteSets
LOCAL INSTANCE SequencesExt

CONSTANTS
    FrPaths,        \* paths
    FrMaxRequests,  \* bound on requests
    FrMaxAgent      \* bound on changes by agents

ASSUME FrAssumption ==
    /\ {FrMaxRequests, FrMaxAgent, Cardinality(FrPaths)} \subseteq Nat
    /\ FrPaths = 1 .. Cardinality(FrPaths)

VARIABLE fr

FrVars == <<fr>>

Absent == 0
Directory == -1
Torn == -2          \* emptied by a writeFile that has not filled it
Agents == 99

IsFile(content) == content > 0 \/ content = Torn

(* at: the node a path leads to, 0 if none. *)
FrInit ==
    \E there \in SUBSET FrPaths :
       fr = [at |-> [p \in FrPaths |-> IF p \in there THEN p ELSE 0], nodes |-> [p \in FrPaths |-> Agents],
             reqs |-> <<>>, agent |-> 0]

Held(p) == IF fr.at[p] = 0 THEN Absent ELSE fr.nodes[fr.at[p]]

New(s, p, content) == [s EXCEPT !.nodes = Append(@, content), !.at[p] = Len(s.nodes) + 1]

(* looked, over: where the destination of a rename led when it looked, and *)
(* when it replaced what was there; node: what a write has opened.         *)
FrAsk(op, from, to, stage) ==
    /\ Len(fr.reqs) < FrMaxRequests
    /\ \E refused \in BOOLEAN :
          fr' = [fr EXCEPT !.reqs = Append(@, [op |-> op, from |-> from, to |-> to, looked |-> 0, over |-> 0, node |-> 0,
                                               stage |-> IF refused THEN "error" ELSE stage])]

HandleFileList == \E p \in FrPaths : FrAsk("list", p, p, "deed")
HandleFileSearch == \E p \in FrPaths : FrAsk("list", p, p, "deed")
HandleFileRead == \E p \in FrPaths : FrAsk("read", p, p, "look")
HandleSkillReadFile == \E p \in FrPaths : FrAsk("read", p, p, "deed")
HandleFileWrite == \E p \in FrPaths : FrAsk("write", p, p, "look")
HandleSkillSaveFile == \E p \in FrPaths : FrAsk("write", p, p, "deed")
HandleSkillDelete == \E p \in FrPaths : FrAsk("remove", p, p, "deed")
HandleFileOperation ==
    \/ \E p \in FrPaths, op \in {"create_file", "create_directory", "delete"} : FrAsk(op, p, p, "deed")
    \/ \E p, to \in FrPaths : p # to /\ FrAsk("rename", p, to, "look")

(* The stat of a read and a write, which a directory ends, and of a read   *)
(* what is not there too; the access of a rename, which ends at a          *)
(* destination that is there.                                              *)
MutPasses(op, held) == op = "read" => IsFile(held)
Passes(op, held) ==
    /\ op = "read" => IsFile(held)
    /\ op = "write" => held # Directory
    /\ op = "rename" => held = Absent

FrLook ==
    \E i \in DOMAIN fr.reqs :
       LET req == fr.reqs[i] IN
       /\ req.stage = "look"
       /\ fr' = [fr EXCEPT !.reqs[i] = IF Passes(req.op, Held(req.to))
                                       THEN [req EXCEPT !.stage = "deed", !.looked = fr.at[req.to]]
                                       ELSE [req EXCEPT !.stage = "error"]]

Doing(i, op) == fr.reqs[i].stage = "deed" /\ fr.reqs[i].op = op
Over(i) == Held(fr.reqs[i].to)

FrAnswer(s, i, stage) == [s EXCEPT !.reqs[i].stage = stage]

FrRead ==
    \E i \in DOMAIN fr.reqs, op \in {"list", "read"} :
       /\ Doing(i, op)
       /\ fr' = IF (op = "list") = (Over(i) = Directory) /\ Over(i) # Absent
                THEN FrAnswer(fr, i, "ok") ELSE FrAnswer(fr, i, "error")

(* writeFile opens with "w", which empties what is there. *)
FrOpen ==
    \E i \in DOMAIN fr.reqs :
       /\ Doing(i, "write")
       /\ LET to == fr.reqs[i].to
              opened == IF Over(i) = Absent THEN New(fr, to, Torn) ELSE [fr EXCEPT !.nodes[fr.at[to]] = Torn] IN
          fr' = IF Over(i) = Directory THEN FrAnswer(fr, i, "error")
                ELSE FrAnswer([opened EXCEPT !.reqs[i].node = opened.at[to]], i, "fill")

(* What was moved or removed under a writer is written where it went. *)
FrFill ==
    \E i \in DOMAIN fr.reqs :
       /\ fr.reqs[i].stage = "fill"
       /\ fr' = FrAnswer([fr EXCEPT !.nodes[fr.reqs[i].node] = i], i, "ok")

(* "wx" and mkdir look and create in one step. *)
FrCreate ==
    \E i \in DOMAIN fr.reqs, op \in {"create_file", "create_directory"} :
       /\ Doing(i, op)
       /\ fr' = IF Over(i) # Absent THEN FrAnswer(fr, i, "error")
                ELSE FrAnswer(New(fr, fr.reqs[i].to, IF op = "create_file" THEN i ELSE Directory), i, "ok")

(* rename(2) replaces a file by a file, not a directory and not by one. *)
FrRename ==
    \E i \in DOMAIN fr.reqs :
       /\ Doing(i, "rename")
       /\ LET from == fr.reqs[i].from
              to == fr.reqs[i].to
              bars == IF Held(from) = Directory THEN IsFile(Over(i)) ELSE Over(i) = Directory IN
          fr' = IF Held(from) = Absent \/ bars THEN FrAnswer(fr, i, "error")
                ELSE FrAnswer([fr EXCEPT !.at[to] = fr.at[from], !.at[from] = 0, !.reqs[i].over = fr.at[to]], i, "ok")

(* rm of a path that is not there fails, but for a skill. *)
FrRemove ==
    \E i \in DOMAIN fr.reqs, op \in {"delete", "remove"} :
       /\ Doing(i, op)
       /\ fr' = IF Over(i) = Absent THEN FrAnswer(fr, i, IF op = "remove" THEN "ok" ELSE "error")
                ELSE FrAnswer([fr EXCEPT !.at[fr.reqs[i].to] = 0], i, "ok")

AgentWrites ==
    /\ fr.agent < FrMaxAgent
    /\ \E p \in FrPaths :
          \/ Held(p) # Absent /\ fr' = [fr EXCEPT !.agent = @ + 1, !.at[p] = 0]
          \/ Held(p) # Directory /\ fr' = New([fr EXCEPT !.agent = @ + 1], p, Agents)

FrNext ==
    \/ HandleFileList \/ HandleFileSearch \/ HandleFileRead \/ HandleSkillReadFile \/ HandleFileWrite
    \/ HandleSkillSaveFile \/ HandleSkillDelete \/ HandleFileOperation
    \/ FrLook \/ FrRead \/ FrOpen \/ FrFill \/ FrCreate \/ FrRename \/ FrRemove \/ AgentWrites

FrSpec == FrInit /\ [][FrNext]_FrVars

-----------------------------------------------------------------------------
FrTypeOK ==
    /\ fr.agent \in 0 .. FrMaxAgent
    /\ \A p \in FrPaths : fr.at[p] \in 0 .. Len(fr.nodes)
    /\ Range(fr.nodes) \subseteq {Directory, Torn, Agents} \cup DOMAIN fr.reqs
    /\ \A req \in Range(fr.reqs) : req.stage \in {"look", "deed", "fill", "ok", "error"}

(* "destino já existe" (main.ts:2476): what a rename replaces came after   *)
(* it looked.                                                              *)
FrSpared ==
    \A req \in Range(fr.reqs) :
       req.op = "rename" /\ req.stage = "ok" /\ req.over # 0 => req.over # req.looked
=============================================================================
