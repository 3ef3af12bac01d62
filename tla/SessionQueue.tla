---------------------------- MODULE SessionQueue ----------------------------
(***************************************************************************)
(* One agent's queue of messages between the host that pushes and the turn *)
(* that consumes: pushUserMessage, drainOcQueue, the retry of a turn cut   *)
(* short, the live-queue removal, the drain of a restart and the synthetic *)
(* nudge of a hard recover.  Messages are numbered as they arrive.  How a  *)
(* turn comes to be cut, and who asks for the drain, is RunnerTurn's       *)
(* business; here every one of them may happen at any time.                *)
(***************************************************************************)
EXTENDS MessageQueue, FiniteSets
LOCAL INSTANCE SequencesExt

CONSTANTS
    Principals,     \* who may send; NoDono stands for a send without provenance
    MaxQueue,       \* MAX_BUFFERED_MESSAGES
    MaxBytes,       \* MAX_COALESCED_BYTES, in messages
    MaxAttempts,    \* how often a turn cut short is tried again
    MaxMessages     \* bound on the messages of a behaviour (the code has none)

ASSUME SizesAssumption ==
    /\ MaxQueue \in Nat \ {0} /\ MaxBytes \in Nat \ {0}
    /\ MaxAttempts \in Nat /\ MaxMessages \in Nat

VARIABLES
    s,              \* the runner: fila, turno, voo, compacting, armado (see SType)
    autor,          \* history: who sent each message, in order of arrival
    recusadas,      \* history: messages the queue refused
    retiradas       \* history: messages removed or drained before their turn

SessionVars == <<s, autor, recusadas, retiradas>>

Msgs == 1..MaxMessages

NoVoo == [conteudo |-> <<0>>, attempt |-> 0]

SessionInit ==
    /\ s = [fila |-> <<>>, turno |-> <<>>, voo |-> NoVoo, compacting |-> FALSE,
            armado |-> FALSE, iniciadas |-> <<>>]
    /\ autor = <<>>
    /\ recusadas = {}
    /\ retiradas = {}

(* drainOcQueue: unless a turn or a compact is under way, the head of the   *)
(* queue becomes the turn; a retry of the same content keeps its attempts.  *)
Drain(r) ==
    IF r.turno # <<>> \/ r.compacting \/ r.fila = <<>> THEN r
    ELSE LET item == Head(r.fila) IN
         [r EXCEPT !.fila  = Tail(@),
                   !.turno = <<item>>,
                   !.voo   = [conteudo |-> item.conteudo,
                              attempt  |-> IF @.conteudo = item.conteudo THEN @.attempt ELSE 0],
                   !.iniciadas = @ \o item.conteudo]

(* What pushUserMessage answers; a redelivery is never joined to another turn. *)
Recebe(fila, item, propria) ==
    IF propria /\ Len(fila) >= MaxQueue
    THEN [fila |-> fila, outcome |-> "dropped"]
    ELSE EnqueueOrCoalesce(fila, item, MaxQueue, MaxBytes)

PushUserMessage(dono, comId, propria) ==
    LET m == Len(autor) + 1
        r == Recebe(s.fila, Item(m, IF comId THEN m ELSE NoId, dono), propria)
    IN  /\ m <= MaxMessages
        /\ autor' = Append(autor, dono)
        /\ \/ /\ r.outcome = "dropped"
              /\ recusadas' = recusadas \cup {m}
              /\ UNCHANGED s
           \/ /\ r.outcome # "dropped"
              /\ s' = Drain([s EXCEPT !.fila = r.fila])
              /\ UNCHANGED recusadas
        /\ UNCHANGED retiradas

(* The turn closes; only a result clears what is in flight. *)
TurnEnds(sawResult) ==
    /\ s.turno # <<>>
    /\ s' = Drain([s EXCEPT !.turno = <<>>, !.voo = IF sawResult THEN NoVoo ELSE @])
    /\ UNCHANGED <<autor, recusadas, retiradas>>

(* A hard recover puts what is in flight back in front, or gives it up,     *)
(* drains, and arms the nudge if that leaves the queue empty.               *)
HardRecover ==
    /\ s.turno # <<>>
    /\ LET de == IF s.voo.attempt < MaxAttempts
                 THEN [s EXCEPT !.turno = <<>>, !.voo.attempt = @ + 1,
                                !.fila = PrependRetry(@, s.voo.conteudo)]
                 ELSE [s EXCEPT !.turno = <<>>, !.voo = NoVoo]
       IN  s' = [Drain(de) EXCEPT !.armado = @ \/ Drain(de).fila = <<>>]
    /\ UNCHANGED <<autor, recusadas, retiradas>>

(* The nudge timer of a hard recover. *)
NudgeFires ==
    /\ s.armado
    /\ s' = Drain([s EXCEPT !.armado = FALSE, !.fila = DeliverHangRecoverNudge(@, MaxQueue)])
    /\ UNCHANGED <<autor, recusadas, retiradas>>

(* compactContext holds the queue while it runs, and drains when it ends. *)
CompactBegins ==
    /\ ~s.compacting
    /\ s' = [s EXCEPT !.compacting = TRUE]
    /\ UNCHANGED <<autor, recusadas, retiradas>>

CompactEnds ==
    /\ s.compacting
    /\ s' = Drain([s EXCEPT !.compacting = FALSE])
    /\ UNCHANGED <<autor, recusadas, retiradas>>

(* removeQueued: the user takes a queued message out of the live queue. *)
RemoveQueued(id) ==
    LET r == RemoveByDeliveryId(s.fila, id)
    IN  /\ r.removida # <<>>
        /\ s' = [s EXCEPT !.fila = r.fila]
        /\ retiradas' = retiradas \cup ToSet(Mensagens(r.removida))
        /\ UNCHANGED <<autor, recusadas>>

(* takeQueuedForDrain: the queue leaves for the spool or the retention. *)
TakeQueuedForDrain ==
    /\ s.fila # <<>>
    /\ s' = [s EXCEPT !.fila = <<>>]
    /\ retiradas' = retiradas \cup UNION {ToSet(m.conteudo) : m \in TakeAllForDrain(s.fila)}
    /\ UNCHANGED <<autor, recusadas>>

SessionNext ==
    \/ \E dono \in Principals, comId, propria \in BOOLEAN : PushUserMessage(dono, comId, propria)
    \/ \E sawResult \in BOOLEAN : TurnEnds(sawResult)
    \/ HardRecover
    \/ NudgeFires
    \/ CompactBegins
    \/ CompactEnds
    \/ \E id \in Msgs : RemoveQueued(id)
    \/ TakeQueuedForDrain

SessionSpec == SessionInit /\ [][SessionNext]_SessionVars

-----------------------------------------------------------------------------
ItemType ==
    [conteudo : Seq(Msgs), id : Msgs \cup {NoId}, agrupadas : SUBSET Msgs,
     dono : Principals \cup {NoDono}, sintetica : BOOLEAN]

SType ==
    [fila : Seq(ItemType), turno : {<<>>} \cup {s.turno}, voo : {s.voo},
     compacting : BOOLEAN, armado : BOOLEAN, iniciadas : Seq(Msgs)]

(* The shape of the queue and of what is in flight; a retry is counted. *)
SessionTypeOK ==
    /\ s \in SType
    /\ s.turno \in Seq(ItemType) /\ Len(s.turno) <= 1
    /\ s.voo.attempt \in 0..MaxAttempts
    /\ autor \in Seq(Principals)
    /\ recusadas \cup retiradas \subseteq Msgs

Iniciadas == ToSet(s.iniciadas)

(* Every message that arrived was refused to the caller's face, waits, was *)
(* handed over, or reached a turn, and no message is in the queue twice or *)
(* both waits and was handed over: joining at the ceiling, retries and     *)
(* removals neither lose nor double anything.                              *)
NothingLost ==
    /\ DOMAIN autor = recusadas \cup retiradas \cup ToSet(Mensagens(s.fila)) \cup Iniciadas
    /\ recusadas \cap (retiradas \cup ToSet(Mensagens(s.fila)) \cup Iniciadas) = {}
    /\ retiradas \cap ToSet(Mensagens(s.fila)) = {}
    /\ \A i, j \in DOMAIN Mensagens(s.fila) :
          i # j => Mensagens(s.fila)[i] # Mensagens(s.fila)[j]

(* A turn never carries what two senders wrote: joining respects the       *)
(* principal, also after a retry has dropped it.                           *)
TurnsOfOneSender ==
    \A item \in ToSet(s.fila \o s.turno) :
        \A a, b \in ToSet(item.conteudo) : autor[a] = autor[b]

(* The order in which messages first reach a turn, one sender at a time:   *)
(* whatever is joined, cut and retried, a sender's messages start in the   *)
(* order he sent them, and what still waits is younger than what started.  *)
Primeira(m) == CHOOSE i \in DOMAIN s.iniciadas :
                   s.iniciadas[i] = m /\ \A j \in 1..(i - 1) : s.iniciadas[j] # m

Antes(a, b) ==
    b \in Iniciadas /\ a \notin recusadas \cup retiradas
        => a \in Iniciadas /\ Primeira(a) < Primeira(b)

SenderOrderKept ==
    \A a, b \in DOMAIN autor : a < b /\ autor[a] = autor[b] => Antes(a, b)
=============================================================================
