------------------------------ MODULE CodexHome -----------------------------
(***************************************************************************)
(* The home of one codex agent on disk: codexHomeDir moves the home an     *)
(* older daemon made (agents/<slug>, "legacy") to its place and leaves a   *)
(* link there, for codex has the legacy path of each conversation in its   *)
(* database.  It is called at each start of the agent; one step for each   *)
(* change on disk, so that the daemon can be killed between any two.       *)
(*                                                                         *)
(* A directory is what it holds: the conversations (data), an agents/ of   *)
(* older homes nested in it, quarantines of those that an older daemon     *)
(* left inside (inner), the marker and the links to the base.              *)
(***************************************************************************)
EXTENDS Naturals, Sequences, FiniteSets

CONSTANTS
    ChMaxCalls,     \* bound on starts of the agent
    ChMaxFaults     \* bound on renames, links and writes that fail and on kills

ASSUME ChAssumption == ChMaxCalls \in Nat /\ ChMaxFaults \in Nat

VARIABLE ch

ChVars == <<ch>>

NoHome == [there |-> FALSE, data |-> FALSE, nested |-> FALSE, inner |-> FALSE, marker |-> FALSE, linked |-> FALSE]
ChHome(data, nested, inner) ==
    [NoHome EXCEPT !.there = TRUE, !.data = data, !.nested = nested, !.inner = inner, !.linked = data]

(* A path below the homes: the base, then the agents whose homes it goes   *)
(* through; CODEX_HOME is inherited when an agent starts a daemon.         *)
ChEnvs == {<<"base">>, <<"base", "agent">>, <<"base", "agent", "agent">>}

(* codexBaseFromAgentHome takes all the homes off the path. *)
MutCodexBase(env) == IF Len(env) > 1 THEN SubSeq(env, 1, Len(env) - 1) ELSE env
CodexBase(env) == SubSeq(env, 1, CHOOSE n \in 1 .. Len(env) : env[n] = "base" /\ \A m \in n + 1 .. Len(env) : env[m] = "agent")

(* name: what is at the legacy path, old: the directory there, home: the   *)
(* one in its place; recorded: the database names the legacy path.         *)
ChState(name, old, home, recorded) ==
    [name |-> name, old |-> old, home |-> home, recorded |-> recorded, aside |-> 0, env |-> <<"base">>,
     pc |-> "idle", existed |-> FALSE, named |-> FALSE, ready |-> FALSE, failed |-> FALSE, calls |-> 0, faults |-> 0]

(* A new agent, one whose legacy path is somebody's file, one of an old    *)
(* daemon, and one that a daemon between moved without leaving a link.     *)
ChInit ==
    \/ \E name \in {"none", "file"} : ch = ChState(name, NoHome, NoHome, FALSE)
    \/ \E nested, inner \in BOOLEAN : ch = ChState("dir", ChHome(TRUE, nested, inner), NoHome, TRUE)
    \/ \E nested, inner \in BOOLEAN : ch = ChState("none", NoHome, ChHome(TRUE, nested, inner), TRUE)

ChGo(pc) == [ch EXCEPT !.pc = pc]

ChFault == ch.faults < ChMaxFaults
ChFail(s) == [s EXCEPT !.failed = TRUE, !.faults = @ + 1]

(* What was there before this call, by either name. *)
CodexHomeDir ==
    /\ ch.pc = "idle" /\ ch.calls < ChMaxCalls
    /\ \E env \in ChEnvs :
          ch' = [ch EXCEPT !.pc = "migrate", !.calls = @ + 1, !.existed = ch.home.there, !.named = ch.name # "none",
                           !.ready = FALSE, !.env = CodexBase(env)]

(* migrarCodexAgentHome: only a directory, and only to a free place. *)
Movable == ch.name = "dir" /\ ~ch.home.there

MigrateSkips == ch.pc = "migrate" /\ ~Movable /\ ch' = ChGo("make")
MigrateBegins == ch.pc = "migrate" /\ Movable /\ ch' = ChGo("oldNested")

(* moveNestedCodexAgentHomes: what is nested goes beside the homes. *)
OldNestedAside ==
    /\ ch.pc = "oldNested"
    /\ \/ ch' = [ch EXCEPT !.pc = "oldInner", !.old.nested = FALSE, !.aside = IF ch.old.nested THEN @ + 1 ELSE @]
       \/ ChFault /\ ch.old.nested /\ ch' = ChFail(ChGo("make"))

(* moveExistingCodexQuarantines. *)
OldInnerAside ==
    /\ ch.pc = "oldInner"
    /\ \/ ch' = [ch EXCEPT !.pc = "rename", !.old.inner = FALSE, !.aside = IF ch.old.inner THEN @ + 1 ELSE @]
       \/ ChFault /\ ch.old.inner /\ ch' = ChFail(ChGo("make"))

RenameHome ==
    /\ ch.pc = "rename"
    /\ \/ ch' = [ch EXCEPT !.pc = "make", !.name = "none", !.old = NoHome, !.home = ch.old]
       \/ ChFault /\ ch' = ChFail(ChGo("make"))

MakeHome ==
    /\ ch.pc = "make"
    /\ ch' = [ch EXCEPT !.pc = "nested", !.home = IF @.there THEN @ ELSE ChHome(FALSE, FALSE, FALSE)]

(* The same of the home in its place, before the old path shows it again. *)
NestedAside ==
    /\ ch.pc = "nested"
    /\ \/ ch' = [ch EXCEPT !.pc = "inner", !.home.nested = FALSE, !.aside = IF ch.home.nested THEN @ + 1 ELSE @]
       \/ ChFault /\ ch.home.nested /\ ch' = ChFail(ChGo("links"))

InnerAside ==
    /\ ch.pc = "inner"
    /\ \/ ch' = [ch EXCEPT !.pc = "alias", !.home.inner = FALSE, !.ready = TRUE, !.aside = IF ch.home.inner THEN @ + 1 ELSE @]
       \/ ChFault /\ ch.home.inner /\ ch' = ChFail(ChGo("links"))

(* A home that was there, or moved, has its old path in the database. *)
MutNeedsAlias == ch.existed
NeedsAlias == ch.existed \/ ch.named

(* ensureLegacyCodexHomeAlias takes a free name or its own link only. *)
EnsureAlias ==
    /\ ch.pc = "alias"
    /\ \/ (ch.home.marker \/ ~NeedsAlias) /\ ch' = ChGo("mark")
       \/ ~ch.home.marker /\ NeedsAlias /\ ch.name = "link" /\ ch' = ChGo("mark")
       \/ ~ch.home.marker /\ NeedsAlias /\ ch.name \in {"dir", "file"} /\ ch' = ChGo("links")
       \/ /\ ~ch.home.marker /\ NeedsAlias /\ ch.name = "none"
          /\ \/ ch' = [ch EXCEPT !.pc = "mark", !.name = "link"]
             \/ ChFault /\ ch' = ChFail(ChGo("links"))

(* The marker ends it: no later call looks for the alias again. *)
WriteMarker ==
    /\ ch.pc = "mark"
    /\ \/ ch' = [ch EXCEPT !.pc = "links", !.home.marker = TRUE]
       \/ ChFault /\ ~ch.home.marker /\ ch' = ChFail(ChGo("links"))

(* auth.json and sessions of the base, by links; a missing one is left. *)
LinkBase ==
    /\ ch.pc = "links"
    /\ \/ ch' = [ch EXCEPT !.pc = "run", !.home.linked = TRUE]
       \/ ChFault /\ ~ch.home.linked /\ ch' = ChFail(ChGo("run"))

(* The agent runs, and stops. *)
CodexRuns == ch.pc = "run" /\ ch' = ChGo("idle")

DaemonKilled == ChFault /\ ch.pc # "idle" /\ ch' = [ch EXCEPT !.pc = "idle", !.faults = @ + 1]

ChNext ==
    \/ CodexHomeDir \/ MigrateSkips \/ MigrateBegins \/ OldNestedAside \/ OldInnerAside \/ RenameHome
    \/ MakeHome \/ NestedAside \/ InnerAside \/ EnsureAlias \/ WriteMarker \/ LinkBase \/ CodexRuns
    \/ DaemonKilled

ChSpec == ChInit /\ [][ChNext]_ChVars

-----------------------------------------------------------------------------
ChTypeOK ==
    /\ ch.name \in {"none", "file", "dir", "link"} /\ ch.aside \in 0 .. 4
    /\ ch.calls \in 0 .. ChMaxCalls /\ ch.faults \in 0 .. ChMaxFaults
    /\ {ch.recorded, ch.existed, ch.named, ch.ready, ch.failed} \subseteq BOOLEAN
    /\ \A dir \in {ch.old, ch.home} : dir \in [DOMAIN NoHome -> BOOLEAN]

(* Once the marker says that it is done, or the agent runs and nothing has *)
(* failed, the paths in codex's database lead to the conversations,        *)
(* wherever the daemon was killed before (runtime-files.ts:117).           *)
ChResumes ==
    (ch.home.marker \/ (ch.pc = "run" /\ ~ch.failed)) /\ ch.recorded => ch.name = "link" /\ ch.home.data

(* The old path does not show codex what is nested in the home: "Relocate  *)
(* it before making the old path visible" (runtime-files.ts:292).          *)
ChHidden == ch.name = "link" => ~ch.home.nested /\ ~ch.home.inner

(* The conversations are in one of the two homes, and a rename that fails  *)
(* is all that can keep them from the one in use (runtime-files.ts:111).   *)
ChSpared ==
    ch.recorded => (ch.old.data \/ ch.home.data) /\ (ch.pc = "run" /\ ~ch.failed => ch.home.data)

(* A daemon that an agent starts has its homes where the others have       *)
(* theirs (runtime-files.ts:26).                                           *)
ChOneBase == ch.env = <<"base">>

CodexHomeKept == ChResumes /\ ChHidden /\ ChSpared /\ ChOneBase
=============================================================================
