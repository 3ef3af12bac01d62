---------------------------- MODULE McpOverride ----------------------------
(***************************************************************************)
(* The override of the MCP servers, ~/.config/the-dudes/mcp-servers.json:  *)
(* mcps:save and mcps:delete read the whole file, change one name of it    *)
(* and write the whole file back, with awaits in between; the user edits   *)
(* it by hand as well.  Of the file there are the names it holds, and its  *)
(* form: whether it is there, can be parsed and has mcpServers.  The scan  *)
(* that follows only reads, and is left out.                               *)
(*                                                                         *)
(* Two behaviours of the code break MoKept, each a member of MoLapses:     *)
(* "overlap", two edits at once, of which the later write undoes the       *)
(* other, and "shape", a file that parses but has no mcpServers: it is     *)
(* taken for an empty one and replaced.                                    *)
(***************************************************************************)
EXTENDS Naturals, Sequences, FiniteSets
LOCAL INSTANCE SequencesExt

CONSTANTS
    MoNames,        \* names of MCP servers
    MoMaxRequests,  \* bound on requests
    MoMaxFaults,    \* bound on edits by hand, failed writes and kills together
    MoLapses        \* subset of {"overlap", "shape"}

ASSUME MoAssumption == MoMaxRequests \in Nat /\ MoMaxFaults \in Nat

VARIABLE mo

MoVars == <<mo>>

(* want: the names there should be, after what was acknowledged or written *)
(* by hand.  names of a request: what it read, with its own change.        *)
MoInit == mo = [form |-> "absent", names |-> {}, want |-> {}, reqs |-> <<>>, faults |-> 0]

MoUnderWay == \E req \in Range(mo.reqs) : req.stage \in {"read", "write", "fill"}

MoFault == mo.faults < MoMaxFaults
MoFaulty(s) == [s EXCEPT !.faults = @ + 1]

(* A bad name, or a save without a command or a url, is refused first. *)
MoAsk(op) ==
    /\ Len(mo.reqs) < MoMaxRequests
    /\ MoUnderWay => "overlap" \in MoLapses
    /\ \E n \in MoNames, stage \in {"read", "error"} :
          mo' = [mo EXCEPT !.reqs = Append(@, [op |-> op, name |-> n, stage |-> stage, names |-> {}])]

HandleMCPSave == MoAsk("save")
HandleMCPDelete == MoAsk("delete")

Changed(req, names) == IF req.op = "save" THEN names \cup {req.name} ELSE names \ {req.name}

(* A read that takes every failure for a file that is not there. *)
MutUnreadable(form) == FALSE

(* Only ENOENT is. *)
Unreadable(form) == form \in {"broken", "torn"}

(* To delete what is not there is done without a write. *)
ReadMCPsOverride ==
    \E i \in DOMAIN mo.reqs :
       LET req == mo.reqs[i]
           has == IF mo.form = "json" THEN mo.names ELSE {} IN
       /\ req.stage = "read"
       /\ mo' = IF Unreadable(mo.form) THEN [mo EXCEPT !.reqs[i].stage = "error"]
                ELSE IF req.op = "delete" /\ req.name \notin has THEN [mo EXCEPT !.reqs[i].stage = "ok"]
                ELSE [mo EXCEPT !.reqs[i] = [@ EXCEPT !.stage = "write", !.names = Changed(req, has)]]

(* writeFile empties the file before it fills it; both may fail. *)
WriteMCPsOverride ==
    \E i \in DOMAIN mo.reqs :
       /\ mo.reqs[i].stage = "write"
       /\ \/ mo' = [mo EXCEPT !.form = "torn", !.names = {}, !.reqs[i].stage = "fill"]
          \/ MoFault /\ mo' = MoFaulty([mo EXCEPT !.reqs[i].stage = "error"])

FillMCPsOverride ==
    \E i \in DOMAIN mo.reqs :
       /\ mo.reqs[i].stage = "fill"
       /\ \/ mo' = [mo EXCEPT !.form = "json", !.names = mo.reqs[i].names, !.reqs[i].stage = "ok",
                              !.want = Changed(mo.reqs[i], @)]
          \/ MoFault /\ mo' = MoFaulty([mo EXCEPT !.reqs[i].stage = "error"])

(* A kill of the daemon leaves the file as it is. *)
MoKilled ==
    /\ MoFault /\ MoUnderWay
    /\ mo' = MoFaulty([mo EXCEPT !.reqs = [i \in DOMAIN @ |-> IF @[i].stage \in {"ok", "error"} THEN @[i]
                                                              ELSE [@[i] EXCEPT !.stage = "error"]]])

HandEdit ==
    /\ MoFault /\ (MoUnderWay => "overlap" \in MoLapses)
    /\ \E names \in SUBSET MoNames, form \in {"json", "broken"} \cup (MoLapses \cap {"shape"}) :
          mo' = MoFaulty([mo EXCEPT !.form = form, !.names = names, !.want = names])

MoNext ==
    \/ HandleMCPSave \/ HandleMCPDelete \/ ReadMCPsOverride \/ WriteMCPsOverride \/ FillMCPsOverride
    \/ MoKilled \/ HandEdit

MoSpec == MoInit /\ [][MoNext]_MoVars

-----------------------------------------------------------------------------
MoTypeOK ==
    /\ mo.form \in {"absent", "json", "broken", "shape", "torn"} /\ mo.faults \in 0 .. MoMaxFaults
    /\ {mo.names, mo.want} \subseteq SUBSET MoNames
    /\ \A req \in Range(mo.reqs) : req.stage \in {"read", "write", "fill", "ok", "error"} /\ req.names \subseteq MoNames

(* The file holds what was acknowledged and what the user wrote, and what  *)
(* of it cannot be parsed is not written over: an edit is refused instead. *)
(* Only a write that a kill or the disk cuts short loses the rest, and     *)
(* then the file is torn and every later edit is refused (main.ts:1718).   *)
MoKept == mo.form # "torn" => mo.names = mo.want
=============================================================================
