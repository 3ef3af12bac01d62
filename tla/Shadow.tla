------------------------------- MODULE Shadow -------------------------------
(***************************************************************************)
(* The shadow analyses of one project: while its feature is on, copies of  *)
(* delegations, task texts, messages between agents, summaries and         *)
(* reflections go to SystemOne, and nobody waits for the answer.  What     *)
(* comes back is a verdict; of messages, spoken summaries and reflections  *)
(* the daemon tells the outcome too, once it knows both.                   *)
(*                                                                         *)
(* A job is one request.  Texts are numbers; that one is sealed, empty or  *)
(* holds a credential is a choice of the edit.  Probabilities, tokens,     *)
(* durations and hashes are left out.                                      *)
(***************************************************************************)
EXTENDS Naturals, Sequences, FiniteSets
LOCAL INSTANCE SequencesExt

CONSTANTS
    ShDeliveries,   \* messages between agents, by deliveryId
    ShTexts,        \* texts the task may have
    ShMaxPending,   \* MAX_PENDING
    ShCap,          \* MAX_EM_VOO
    ShMaxJobs,      \* bound on requests
    ShMaxEdits      \* bound on edits of the task

ASSUME ShAssumption ==
    /\ 0 \notin ShDeliveries \cup ShTexts
    /\ ShMaxPending \in Nat \ {0} /\ ShCap \in Nat \ {0} /\ ShMaxJobs \in Nat /\ ShMaxEdits \in Nat

VARIABLE sh

ShVars == <<sh>>

(* key: does the daemon hold the project key, without which there is no    *)
(* hash and no ref?  pending: of messages, in the order of the map, as     *)
(* indices of jobs.  task: cur is its text, posted the last one sent,      *)
(* ultimo and agendado as in the code, lapse whether cur was kept back.    *)
ShInit ==
    \E key \in BOOLEAN :
       sh = [on |-> FALSE, key |-> key, jobs |-> <<>>, pending |-> <<>>, edits |-> 0,
             task |-> [cur |-> 0, posted |-> 0, ultimo |-> 0, agendado |-> 0, lapse |-> FALSE]]

ShJob(kind, ref) == [kind |-> kind, ref |-> ref, out |-> TRUE, verdict |-> FALSE, settled |-> FALSE, outcomes |-> 0]

ShRoom == Len(sh.jobs) < ShMaxJobs

(* Of which analyses an outcome is told: a reply suggestion has none, and  *)
(* neither has what bears no ref.                                          *)
Tells(job) == job.kind \in {"message", "tts", "reflect"} /\ job.ref # 0

EmitOutcome(job) == IF Tells(job) /\ job.verdict /\ job.settled THEN [job EXCEPT !.outcomes = @ + 1] ELSE job

(* The map has one entry for a delivery, whichever job put it there.       *)
ForgetPending(s, d) == [s EXCEPT !.pending = SelectSeq(@, LAMBDA i : s.jobs[i].ref # d)]

(* agent:spawn and project:features. *)
RegistrarJev == sh' = [sh EXCEPT !.on = ~@]

ScheduleDelegate == sh.on /\ ShRoom /\ sh' = [sh EXCEPT !.jobs = Append(@, ShJob("delegate", 0))]

(* A summary to speak or a reply to suggest, under the id of the request.  *)
ScheduleSummary == sh.on /\ ShRoom /\ \E kind \in {"tts", "reply"} : sh' = [sh EXCEPT !.jobs = Append(@, ShJob(kind, 1))]

SombraDaReflexao == sh.on /\ ShRoom /\ sh' = [sh EXCEPT !.jobs = Append(@, ShJob("reflect", IF sh.key THEN 1 ELSE 0))]

(* What expired goes, the oldest entries make room, and a delivery that    *)
(* comes again takes the place of its first entry.                         *)
ScheduleMessage ==
    /\ sh.on /\ sh.key /\ ShRoom
    /\ \E d \in ShDeliveries, expired \in 0 .. Len(sh.jobs) :
          LET live == SelectSeq(sh.pending, LAMBDA i : i > expired)
              left == SubSeq(live, IF Len(live) < ShMaxPending THEN 1 ELSE Len(live) - ShMaxPending + 2, Len(live))
              job  == Len(sh.jobs) + 1
              at   == SelectInSeq(left, LAMBDA i : sh.jobs[i].ref = d)
          IN  sh' = [sh EXCEPT !.jobs = Append(@, ShJob("message", d)),
                               !.pending = IF at = 0 THEN Append(left, job) ELSE [left EXCEPT ![at] = job]]

(* The turn of a delivery is over. *)
SettleMessage ==
    \E at \in DOMAIN sh.pending :
       LET i   == sh.pending[at]
           job == EmitOutcome([sh.jobs[i] EXCEPT !.settled = TRUE])
           s   == [sh EXCEPT !.jobs[i] = job]
       IN  sh' = IF job.outcomes > sh.jobs[i].outcomes THEN ForgetPending(s, job.ref) ELSE s

(* The one-shot or the reflection is over: its registrar is heard once.    *)
OutcomeKnown ==
    \E i \in DOMAIN sh.jobs :
       /\ sh.jobs[i].kind \in {"tts", "reply", "reflect"} /\ ~sh.jobs[i].settled
       /\ sh' = [sh EXCEPT !.jobs[i] = EmitOutcome([@ EXCEPT !.settled = TRUE])]

-----------------------------------------------------------------------------
(* An analysis whose requests that fail are told without their outcome. *)
MutAnswered(i) == \E fails \in BOOLEAN :
    sh' = [sh EXCEPT !.jobs[i] = LET job == [@ EXCEPT !.out = FALSE, !.verdict = TRUE]
                                 IN  IF fails THEN job ELSE EmitOutcome(job)]

(* The request ends: with an answer, an error or a timeout, all of which   *)
(* are told; or it was never sent (no provider, or too large a body).      *)
Answered(i) ==
    LET job == EmitOutcome([sh.jobs[i] EXCEPT !.out = FALSE, !.verdict = TRUE])
        s   == [sh EXCEPT !.jobs[i] = job]
    IN  \/ sh' = [sh EXCEPT !.jobs[i].out = FALSE]
        \/ sh' = IF job.kind = "message" /\ job.outcomes > 0 THEN ForgetPending(s, job.ref) ELSE s

ShOut(kinds) == {i \in DOMAIN sh.jobs : sh.jobs[i].out /\ sh.jobs[i].kind \in kinds}

DelegateAnswers == \E i \in ShOut({"delegate"}) : Answered(i)
TaskAnswers == \E i \in ShOut({"task"}) : Answered(i)
MessageAnswers == \E i \in ShOut({"message"}) : Answered(i)
SummaryAnswers == \E i \in ShOut({"tts", "reply"}) : Answered(i)
ReflexaoAnswers == \E i \in ShOut({"reflect"}) : Answered(i)

-----------------------------------------------------------------------------
(* A burst of updates of which the first is sent. *)
MutAgendar(task, text) == [task EXCEPT !.agendado = IF @ = 0 THEN text ELSE @, !.ultimo = IF sh.key THEN text ELSE @]

(* The debounce, last wins; ultimo is set before anything is sent.         *)
Agendar(task, text) == [task EXCEPT !.agendado = text, !.ultimo = IF sh.key THEN text ELSE @]

(* scheduleTaskShadow, after tasks_add and tasks_update. *)
ScheduleTask ==
    /\ sh.edits < ShMaxEdits
    /\ \E text \in ShTexts, redacted \in BOOLEAN :
          LET task == [sh.task EXCEPT !.cur = text] IN
          sh' = [sh EXCEPT !.edits = @ + 1,
                           !.task = IF ~sh.on \/ redacted THEN [task EXCEPT !.lapse = TRUE]
                                    ELSE IF sh.key /\ task.ultimo = text THEN task
                                    ELSE Agendar(task, text)]

(* The timer fires: disparar, which does not ask for the feature again.    *)
Disparar ==
    /\ sh.task.agendado # 0
    /\ IF Cardinality(ShOut({"task"})) >= ShCap
       THEN sh' = [sh EXCEPT !.task.agendado = 0, !.task.lapse = TRUE]
       ELSE /\ ShRoom
            /\ sh' = [sh EXCEPT !.jobs = Append(@, ShJob("task", 0)),
                                !.task = [@ EXCEPT !.posted = sh.task.agendado, !.agendado = 0,
                                                   !.lapse = @ /\ sh.task.agendado # sh.task.cur]]

ShNext ==
    \/ RegistrarJev \/ ScheduleDelegate \/ ScheduleSummary \/ SombraDaReflexao \/ ScheduleMessage
    \/ SettleMessage \/ OutcomeKnown
    \/ DelegateAnswers \/ TaskAnswers \/ MessageAnswers \/ SummaryAnswers \/ ReflexaoAnswers
    \/ ScheduleTask \/ Disparar

ShSpec == ShInit /\ [][ShNext]_ShVars

-----------------------------------------------------------------------------
ShTypeOK ==
    /\ {sh.on, sh.key, sh.task.lapse} \subseteq BOOLEAN /\ sh.edits \in 0 .. ShMaxEdits
    /\ {sh.task.cur, sh.task.posted, sh.task.ultimo, sh.task.agendado} \subseteq ShTexts \cup {0}
    /\ Len(sh.jobs) <= ShMaxJobs /\ Len(sh.pending) <= ShMaxPending
    /\ \A i \in Range(sh.pending) : sh.jobs[i].kind = "message"
    /\ \A i, j \in DOMAIN sh.pending : sh.jobs[sh.pending[i]].ref = sh.jobs[sh.pending[j]].ref => i = j

(* Whichever comes first, the answer or the end of the turn, and whatever  *)
(* was evicted, expired or sent again in between: an outcome is told once, *)
(* after its verdict, and it is told as soon as both are known             *)
(* (typesafe-agentmsg-shadow.ts:89, typesafe-reflect-shadow.ts:250).       *)
ShPaired ==
    \A job \in Range(sh.jobs) : job.outcomes = IF Tells(job) /\ job.verdict /\ job.settled THEN 1 ELSE 0

(* "um burst de updates manda só o último estado" (line 364): once no      *)
(* timer is set the last text sent is that of the task, unless it came     *)
(* while the feature was off, could not be sent or was refused for the     *)
(* requests out, which ultimo then hides from an edit that repeats it.     *)
ShLastWins == sh.task.agendado = 0 /\ ~sh.task.lapse => sh.task.posted = sh.task.cur

ShTold == ShPaired /\ ShLastWins
=============================================================================
