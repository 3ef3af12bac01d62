------------------------------- MODULE OneShot ------------------------------
(***************************************************************************)
(* A summary is made by a CLI run once, in a directory of its own          *)
(* (handleSummarize, runCliText), and the sessions that grok keeps of such *)
(* runs are swept when they are old (cleanGrokTempSessions).  Grok keeps   *)
(* those of the projects beside them.                                      *)
(*                                                                         *)
(* The clock counts fractions of the TTL; the 60 s of a run are none.      *)
(***************************************************************************)
EXTENDS Naturals, Sequences, FiniteSets

CONSTANTS
    OsKinds,        \* subset of {"line", "grok", "opencode", "dsh"}: how a CLI is run
    OsProjects,     \* subset of {"project", "lookalike"}: sessions of other directories
    OsTtl,          \* age from which a session is swept
    OsMaxRuns,      \* bound on requests
    OsMaxClock,     \* bound on the clock
    OsMaxFaults,    \* bound on failures of the disk and restarts
    OsLapses        \* subset of {"sleep", "forget"}: the host sleeps through a run, a key is dropped

ASSUME OsAssumption == {OsTtl, OsMaxRuns, OsMaxClock, OsMaxFaults} \subseteq Nat /\ OsTtl > 1

VARIABLE os

OsVars == <<os>>

None == 99

(* session: when grok last wrote it; cut: its CLI lived when it was tidied *)
(* up; swept: what the sweeps removed.                                     *)
OsInit ==
    \E required, held \in BOOLEAN :
       os = [required |-> required, held |-> held, runs |-> <<>>, projects |-> [p \in OsProjects |-> 0],
             clock |-> 0, faults |-> 0, swept |-> {}]

OsRun(kind, sealed, stage, answer) ==
    [kind |-> kind, sealed |-> sealed, stage |-> stage, answer |-> answer, cwd |-> FALSE, alive |-> FALSE,
     begun |-> 0, session |-> None, cut |-> FALSE]

OsFault == os.faults < OsMaxFaults

(* A sealed text is opened first; a project that asks for the key is       *)
(* refused without it.                                                     *)
OsOpens(sealed) == os.held \/ (~os.required /\ ~sealed)

Summarize ==
    /\ Len(os.runs) < OsMaxRuns
    /\ \E kind \in OsKinds, sealed \in BOOLEAN :
          os' = [os EXCEPT !.runs = Append(@, IF OsOpens(sealed) THEN OsRun(kind, sealed, "slot", "none")
                                                              ELSE OsRun(kind, sealed, "settled", "refused"))]

(* No text, or the runner has no CLI here. *)
SummarizeInVain ==
    /\ Len(os.runs) < OsMaxRuns
    /\ \E kind \in OsKinds : os' = [os EXCEPT !.runs = Append(@, OsRun(kind, FALSE, "settled", "error"))]

OsHolding(run) == run.stage \in {"made", "cli", "boot", "asked"}

(* What is answered depends on the key there is when the text comes. *)
MutOsAnswer(ok) == IF ~ok THEN "error" ELSE IF os.required THEN IF os.held THEN "sealed" ELSE "refused" ELSE "plain"
OsAnswer(ok) == IF ~ok THEN "error" ELSE IF os.held THEN "sealed" ELSE IF os.required THEN "refused" ELSE "plain"

(* finish: the directory goes, if no CLI writes in it meanwhile. *)
OsFinish(i, ok, alive, cwd) ==
    [os EXCEPT !.runs[i].stage = "settled", !.runs[i].answer = OsAnswer(ok), !.runs[i].alive = alive,
               !.runs[i].cwd = cwd, !.runs[i].cut = alive]

(* The gate grants a slot of the pool bg; mkdtemp comes first. *)
MakeCwd ==
    \E i \in DOMAIN os.runs :
       /\ os.runs[i].stage = "slot"
       /\ \/ os' = [os EXCEPT !.runs[i].stage = "made", !.runs[i].cwd = TRUE, !.runs[i].begun = os.clock]
          \/ OsFault /\ os' = [OsFinish(i, FALSE, FALSE, FALSE) EXCEPT !.faults = @ + 1]

(* A runner nobody wrote the arguments for leaves its directory behind. *)
RunnerUnknown ==
    \E i \in DOMAIN os.runs :
       os.runs[i].stage = "made" /\ os.runs[i].kind = "dsh" /\ os' = OsFinish(i, FALSE, FALSE, TRUE)

StartCli ==
    \E i \in DOMAIN os.runs :
       /\ os.runs[i].stage = "made" /\ os.runs[i].kind \in {"line", "grok"}
       /\ \/ os' = [os EXCEPT !.runs[i].stage = "cli", !.runs[i].alive = TRUE]
          \/ os' = OsFinish(i, FALSE, FALSE, FALSE)

(* close, or error: of a run that is settled nothing is said any more. *)
CliCloses ==
    \E i \in DOMAIN os.runs, ok \in BOOLEAN :
       /\ os.runs[i].alive /\ os.runs[i].stage \in {"cli", "settled", "lost"}
       /\ os' = IF os.runs[i].stage = "cli" THEN OsFinish(i, ok, FALSE, FALSE) ELSE [os EXCEPT !.runs[i].alive = FALSE]

CliTimesOut ==
    \E i \in DOMAIN os.runs, cwd \in BOOLEAN : os.runs[i].stage = "cli" /\ os' = OsFinish(i, FALSE, TRUE, cwd)

(* runOpenCodeText: a server for the run, asked when it answers. *)
StartServe ==
    \E i \in DOMAIN os.runs :
       /\ os.runs[i].stage = "made" /\ os.runs[i].kind = "opencode"
       /\ \/ os' = [os EXCEPT !.runs[i].stage = "boot", !.runs[i].alive = TRUE]
          \/ os' = OsFinish(i, FALSE, FALSE, FALSE)

ServeAnswers ==
    \E i \in DOMAIN os.runs :
       os.runs[i].stage = "boot" /\ os.runs[i].alive /\ os' = [os EXCEPT !.runs[i].stage = "asked"]

(* The server dies under the run: its boot is given up, and so is a call.  *)
ServeDies ==
    \E i \in DOMAIN os.runs :
       os.runs[i].stage \in {"boot", "asked"} /\ os.runs[i].alive /\ os' = OsFinish(i, FALSE, FALSE, FALSE)

(* The messages were read, or a call failed; the server is killed. *)
ServeEnds ==
    \E i \in DOMAIN os.runs, ok, cwd \in BOOLEAN :
       /\ os.runs[i].stage \in {"boot", "asked"} /\ os.runs[i].alive /\ (ok => os.runs[i].stage = "asked")
       /\ os' = OsFinish(i, ok, TRUE, cwd)

(* Grok writes the session of what it does. *)
GrokPersists ==
    \E i \in DOMAIN os.runs :
       os.runs[i].kind = "grok" /\ os.runs[i].alive /\ os' = [os EXCEPT !.runs[i].session = os.clock]

ProjectPersists == \E p \in OsProjects : os' = [os EXCEPT !.projects[p] = os.clock]

(* The key of the project comes, or it asks for one from now on. *)
ProjectKey == (os.held => "forget" \in OsLapses) /\ os' = [os EXCEPT !.held = ~@]
E2eeRequired == os' = [os EXCEPT !.required = ~@]

(* isTheDudesCliSessionDir looks at the name of the directory alone. *)
OneShotName(name) == name \in {"run", "lookalike"}

Old(written) == written # None /\ os.clock - written >= OsTtl

OsLive(run) == run.alive /\ run.stage # "lost"

(* planRemovals, then each that can be removed; the names no one-shot has  *)
(* are passed over.                                                        *)
MutSweepable(name, written) == OneShotName(name)
Sweepable(name, written) == OneShotName(name) /\ Old(written)

SweptRuns == {i \in DOMAIN os.runs : os.runs[i].session # None /\ Sweepable("run", os.runs[i].session)}
SweptProjects == {p \in OsProjects : os.projects[p] # None /\ Sweepable(p, os.projects[p])}

CleanGrokTempSessions ==
    \E runs \in SUBSET SweptRuns, projects \in SUBSET SweptProjects :
       /\ runs \cup projects # {}
       /\ (runs # SweptRuns \/ projects # SweptProjects) => OsFault
       /\ os' = [os EXCEPT
            !.runs = [i \in DOMAIN @ |-> IF i \in runs THEN [@[i] EXCEPT !.session = None] ELSE @[i]],
            !.projects = [p \in OsProjects |-> IF p \in projects THEN None ELSE @[p]],
            !.faults = IF runs = SweptRuns /\ projects = SweptProjects THEN @ ELSE @ + 1,
            !.swept = @ \cup {[name |-> "run", young |-> ~Old(os.runs[i].session), live |-> OsLive(os.runs[i])] : i \in runs}
                        \cup {[name |-> p, young |-> ~Old(os.projects[p]), live |-> FALSE] : p \in projects}]

(* A run is over, one way or the other, long before the clock shows it. *)
OsTick ==
    /\ os.clock < OsMaxClock
    /\ "sleep" \in OsLapses \/ \A i \in DOMAIN os.runs : os.runs[i].begun = os.clock \/ ~(OsLive(os.runs[i]) \/ OsHolding(os.runs[i]))
    /\ os' = [os EXCEPT !.clock = @ + 1]

(* The runs of a daemon that dies are nobody's. *)
OsRestart ==
    /\ OsFault
    /\ os' = [os EXCEPT !.faults = @ + 1,
                        !.runs = [i \in DOMAIN @ |-> IF @[i].stage = "settled" THEN @[i] ELSE [@[i] EXCEPT !.stage = "lost"]]]

OsNext ==
    \/ Summarize \/ SummarizeInVain \/ MakeCwd \/ RunnerUnknown \/ StartCli \/ CliCloses \/ CliTimesOut
    \/ StartServe \/ ServeAnswers \/ ServeDies \/ ServeEnds \/ GrokPersists \/ ProjectPersists
    \/ ProjectKey \/ E2eeRequired \/ CleanGrokTempSessions \/ OsTick \/ OsRestart

OsSpec == OsInit /\ [][OsNext]_OsVars

-----------------------------------------------------------------------------
OsTypeOK ==
    /\ {os.required, os.held} \subseteq BOOLEAN /\ os.clock \in 0 .. OsMaxClock /\ os.faults \in 0 .. OsMaxFaults
    /\ \A i \in DOMAIN os.runs : os.runs[i].answer \in {"none", "sealed", "plain", "refused", "error"}

(* Only sessions of one-shots that are over go, and only old ones: "Apenas *)
(* entradas ... mtime alem do TTL" (grok-session-cleanup.ts:7).            *)
OsSpared == \A gone \in os.swept : gone.name = "run" /\ ~gone.young /\ ~gone.live

(* A text that came sealed is not answered in the clear, whatever becomes  *)
(* of the project while the CLI runs (main.ts:1969).                       *)
OsSealed == \A i \in DOMAIN os.runs : os.runs[i].sealed => os.runs[i].answer # "plain"

(* A run leaves its directory only to a CLI it had to kill, or to nobody   *)
(* when the daemon died (summarizer-runner.ts:460).                        *)
OsTidy ==
    \A i \in DOMAIN os.runs : os.runs[i].cwd /\ os.runs[i].stage = "settled" => os.runs[i].cut \/ os.runs[i].kind = "dsh"

OneShotKept == OsSpared /\ OsSealed /\ OsTidy
=============================================================================
