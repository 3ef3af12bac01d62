------------------------------ MODULE SuitePark ------------------------------
(***************************************************************************)
(* The reaper of abandoned test suites (T-582): once a minute the daemon   *)
(* reads the processes, compares every tree of a `node --test` with the    *)
(* sample of flatWindowMs ago, and kills the tree when it is old enough,   *)
(* its CPU stayed flat and nothing in it was RUNNABLE twice.               *)
(*                                                                         *)
(* One tree: a root and its workers.  CPU is what the samples can tell of  *)
(* it, which processes burned more than maxCpuDeltaMs since a sample; a    *)
(* sample keeps the pids it saw, those RUNNABLE, the ones that burned      *)
(* since, and how many minutes ago it was taken, counted up to the window. *)
(*                                                                         *)
(* Left out: the text of `ps`, the manual command, which is the same       *)
(* verdict without a loop, and pids given to another process.              *)
(***************************************************************************)
EXTENDS Naturals, Sequences, FiniteSets
LOCAL INSTANCE SequencesExt

CONSTANTS
    SuiteRoot,          \* the pid of the root
    SuiteWorkers,       \* the pids its workers may have
    SuiteFresh,         \* are workers replaced while the suite runs?
    SuiteMinAge,        \* minAgeMs, in minutes
    SuiteWindow,        \* flatWindowMs, in minutes
    SuiteMaxFailures    \* bound on samples that fail

ASSUME SuiteAssumption ==
    /\ SuiteRoot \notin SuiteWorkers /\ SuiteFresh \in BOOLEAN
    /\ SuiteMinAge \in Nat /\ SuiteWindow \in Nat \ {0} /\ SuiteMaxFailures \in Nat

(* RUNNABLE_MIN. *)
SuiteRunnableMin == 2

VARIABLE u              \* the state, see SuiteTypeOK

SuiteVars == u

(* worked: did any process of the tree burn since the sample the verdict   *)
(* compares with? kept for each sample, for SuiteSpared alone.             *)
SuiteInit ==
    u = [vivos |-> {}, run |-> {}, age |-> 0, hung |-> FALSE, due |-> FALSE, begun |-> FALSE,
         emCurso |-> FALSE, fase |-> "none", hist |-> <<>>, alvo |-> {}, parado |-> FALSE,
         falhas |-> 0, injusto |-> FALSE]

Cap(n, top) == IF n < top THEN n + 1 ELSE top

(* The newest sample that is flatWindowMs old, 0 if there is none. *)
BaselineAt(s) == SelectLastInSeq(s.hist, LAMBDA h : h.ago >= SuiteWindow)

(* Only the size of the tree counts as liveness. *)
MutPendurada(s) == SuiteMinAge <= s.age /\ BaselineAt(s) # 0 /\ Cardinality(s.run) < SuiteRunnableMin

(* assessSuites: "pendurada". *)
Pendurada(s) ==
    /\ SuiteMinAge <= s.age
    /\ BaselineAt(s) # 0
    /\ LET h == s.hist[BaselineAt(s)]
       IN  /\ SuiteRoot \in h.pids
           /\ s.vivos \cap h.pids \cap h.burned = {}
           /\ Cardinality(s.run) < SuiteRunnableMin /\ s.run \cap h.run = {}

(* The sample joins the history; what is older than the baseline of the    *)
(* next tick is never read again (historyMax is far beyond it).            *)
PushSample(s) ==
    LET all == Append(s.hist, [pids |-> s.vivos, run |-> s.run, burned |-> {}, worked |-> FALSE, ago |-> 0])
        b   == BaselineAt(s)
    IN  [s EXCEPT !.hist = IF b = 0 THEN all ELSE SubSeq(all, b, Len(all))]

(* The end of a tick that forgets the `finally`. *)
MutTickEnds(s) == [s EXCEPT !.fase = "none", !.emCurso = @ /\ s.falhas > 0]

TickEnds(s) == [s EXCEPT !.fase = "none", !.emCurso = FALSE, !.alvo = {}]

-----------------------------------------------------------------------------
(* Somebody runs the tests, before a tick of the daemon or between two.    *)
SuiteBegins ==
    /\ ~u.begun
    /\ \E W \in SUBSET SuiteWorkers :
          /\ SuiteFresh => Cardinality(W) < Cardinality(SuiteWorkers)
          /\ u' = [u EXCEPT !.begun = TRUE, !.vivos = {SuiteRoot} \cup W, !.due = TRUE]

MinuteRuns == SuiteRoot \in u.vivos /\ ~u.due /\ u.fase # "grace"

(* A minute of the suite: who burns CPU, who is RUNNABLE at its end, and   *)
(* which worker ends for a new one to begin; or it hangs, for good.        *)
Minute ==
    /\ MinuteRuns
    /\ \E old, new \in SuiteWorkers \cup {SuiteRoot}, hangs \in {u.hung, TRUE} :
          /\ old = SuiteRoot <=> new = SuiteRoot
          /\ old # SuiteRoot => SuiteFresh /\ ~hangs /\ old \in u.vivos /\ new \notin u.vivos
          /\ \E B, R \in IF hangs THEN {{}} ELSE SUBSET u.vivos :
             LET now == IF old = SuiteRoot THEN u.vivos ELSE (u.vivos \ {old}) \cup {new}
                 later(h) == [h EXCEPT !.ago = Cap(@, SuiteWindow), !.worked = @ \/ B # {},
                                       !.pids = IF old = SuiteRoot THEN @ ELSE @ \ {new},
                                       !.burned = (@ \cup B) \ (IF old = SuiteRoot THEN {} ELSE {new})]
             IN  u' = [u EXCEPT !.vivos = now, !.run = R \cap now, !.age = Cap(@, SuiteMinAge), !.due = TRUE, !.hung = hangs,
                                !.hist = [i \in DOMAIN @ |-> later(@[i])]]

(* setInterval: no second tick while one is on. *)
TickStarts ==
    /\ u.due /\ ~u.parado
    /\ u' = IF u.emCurso THEN [u EXCEPT !.due = FALSE]
            ELSE [u EXCEPT !.due = FALSE, !.emCurso = TRUE, !.fase = "ps"]

(* Three tries of ps have failed: no sample, and no empty host either. *)
PsFails ==
    /\ u.fase = "ps" /\ u.falhas < SuiteMaxFailures
    /\ u' = TickEnds([u EXCEPT !.falhas = @ + 1])

(* The rest of tickInner up to the SIGTERM: who heeds it ends. *)
PsAnswers ==
    /\ u.fase = "ps"
    /\ IF u.parado THEN u' = TickEnds(u)
       ELSE IF ~Pendurada(u) THEN u' = TickEnds(PushSample(u))
       ELSE \E heeds \in SUBSET u.vivos :
              u' = [PushSample(u) EXCEPT !.fase = "grace", !.alvo = u.vivos, !.vivos = @ \ heeds, !.run = @ \ heeds,
                                   !.injusto = u.hist[BaselineAt(u)].worked]

(* The grace is over: SIGKILL to what is left of the tree. *)
GraceEnds ==
    /\ u.fase = "grace"
    /\ u' = TickEnds([u EXCEPT !.vivos = @ \ u.alvo, !.run = {}])

StopPark == u.begun /\ ~u.parado /\ u' = [u EXCEPT !.parado = TRUE]

SuiteNext == SuiteBegins \/ Minute \/ TickStarts \/ PsFails \/ PsAnswers \/ GraceEnds \/ StopPark

(* A minute that runs ends, the interval fires, and ps and the grace end.  *)
SuiteFairness == []<>~MinuteRuns /\ WF_u(TickStarts) /\ WF_u(PsAnswers) /\ WF_u(GraceEnds)

SuiteSpec == SuiteInit /\ [][SuiteNext]_SuiteVars /\ SuiteFairness

-----------------------------------------------------------------------------
SuitePids == {SuiteRoot} \cup SuiteWorkers

SuiteTypeOK ==
    /\ u.vivos \subseteq SuitePids /\ u.run \subseteq u.vivos /\ u.alvo \subseteq SuitePids
    /\ u.age \in 0..SuiteMinAge /\ u.fase \in {"none", "ps", "grace"}
    /\ {u.emCurso, u.begun, u.hung, u.due, u.parado, u.injusto} \subseteq BOOLEAN /\ u.falhas \in 0..SuiteMaxFailures
    /\ \A i \in DOMAIN u.hist :
          u.hist[i] \in [pids : SUBSET SuitePids, run : SUBSET SuitePids, burned : SUBSET SuitePids,
                         worked : BOOLEAN, ago : 0..SuiteWindow]

(* "enquanto a CPU da árvore crescer acima do teto a suite é classificada  *)
(* viva e o reaper não a toca": no tree is killed that burned CPU within   *)
(* the window, in a process that is in it or was.                          *)
SuiteSpared == ~u.injusto

(* "Sem reaper o parque só cresce": a suite that hangs is killed, though   *)
(* samples fail, unless the loop was stopped.                              *)
SuiteReaped == u.hung ~> (SuiteRoot \notin u.vivos \/ u.parado)
=============================================================================
