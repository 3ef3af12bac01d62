---------------------------- MODULE MessageQueue ----------------------------
(***************************************************************************)
(* The queue of messages that have not started a turn yet                  *)
(* (src/src/runners/message-session.ts), as operators on a sequence of     *)
(* items.  A message is its arrival number.  An item normally carries one  *)
(* message; at the ceiling a new message is appended to an item that is    *)
(* already there, so an item carries a sequence of them.                   *)
(*                                                                         *)
(*   conteudo   the messages of the item, in the order they were joined    *)
(*   id         the delivery id of the first one, NoId when it has none    *)
(*   agrupadas  `coalescedIds`: the delivery ids of those joined later     *)
(*   dono       the principal that sent it, NoDono when it has none        *)
(*   sintetica  a nudge the daemon queued by itself                        *)
(*                                                                         *)
(* A message weighs one unit, so `maxBytes` is how many fit in an item.    *)
(* Left out: the text, images and the latency observer.                    *)
(***************************************************************************)
EXTENDS Naturals, Sequences
LOCAL INSTANCE SequencesExt

NoId == 0
NoDono == "none"

Item(m, id, dono) ==
    [conteudo |-> <<m>>, id |-> id, agrupadas |-> {}, dono |-> dono, sintetica |-> FALSE]

Nudge == [conteudo |-> <<>>, id |-> NoId, agrupadas |-> {}, dono |-> NoDono, sintetica |-> TRUE]

(* sameTurnPrincipal: two missing principals are never the same one. *)
SamePrincipal(a, b) == a # NoDono /\ a = b

Joined(alvo, item) ==
    [alvo EXCEPT !.conteudo  = @ \o item.conteudo,
                 !.agrupadas = @ \cup ({item.id} \ {NoId})]

(* A join that ignores who sent the two messages. *)
MutCoalesceTarget(fila, item) ==
    SelectLastInSeq(fila, LAMBDA a : ~a.sintetica)

(* A join with the first item of the same principal. *)
MutCoalesceFirst(fila, item) ==
    SelectInSeq(fila, LAMBDA a : ~a.sintetica /\ SamePrincipal(a.dono, item.dono))

(* The last item a new message may join, 0 when there is none. *)
CoalesceTarget(fila, item) ==
    SelectLastInSeq(fila, LAMBDA a : ~a.sintetica /\ SamePrincipal(a.dono, item.dono))

(* A join that replaces the content instead of appending to it. *)
MutEnqueueOrCoalesce(fila, item, max, maxBytes) ==
    IF Len(fila) < max THEN [fila |-> Append(fila, item), outcome |-> "queued"]
    ELSE LET i == CoalesceTarget(fila, item)
         IN  IF i = 0 \/ Len(fila[i].conteudo) + Len(item.conteudo) > maxBytes
             THEN [fila |-> fila, outcome |-> "dropped"]
             ELSE [fila |-> [fila EXCEPT ![i].conteudo = item.conteudo],
                   outcome |-> "coalesced"]

(* enqueueOrCoalesce: queue below the ceiling, otherwise join, otherwise drop. *)
EnqueueOrCoalesce(fila, item, max, maxBytes) ==
    IF Len(fila) < max THEN [fila |-> Append(fila, item), outcome |-> "queued"]
    ELSE LET i == CoalesceTarget(fila, item)
         IN  IF i = 0 \/ Len(fila[i].conteudo) + Len(item.conteudo) > maxBytes
             THEN [fila |-> fila, outcome |-> "dropped"]
             ELSE [fila |-> [fila EXCEPT ![i] = Joined(@, item)],
                   outcome |-> "coalesced"]

(* The retry of a turn cut short: its content alone goes back to the front, *)
(* past the ceiling if the queue is full, without delivery id or principal. *)
PrependRetry(fila, conteudo) ==
    <<[conteudo |-> conteudo, id |-> NoId, agrupadas |-> {}, dono |-> NoDono,
       sintetica |-> FALSE]>> \o fila

(* takeAllForDrain: what is handed over when the queue is emptied. *)
TakeAllForDrain(fila) == {m \in ToSet(fila) : ~m.sintetica}

HasDelivery(item, id) == ~item.sintetica /\ (item.id = id \/ id \in item.agrupadas)

(* removeByDeliveryId: the whole item leaves, whatever else was joined to it. *)
RemoveByDeliveryId(fila, id) ==
    LET i == SelectInSeq(fila, LAMBDA m : HasDelivery(m, id))
    IN  [fila |-> IF i = 0 THEN fila ELSE RemoveAt(fila, i),
         removida |-> IF i = 0 THEN <<>> ELSE <<fila[i]>>]

(* deliverHangRecoverNudge: only into an empty queue. *)
DeliverHangRecoverNudge(fila, max) ==
    IF fila = <<>> /\ max > 0 THEN <<Nudge>> ELSE fila

(* The messages the items carry, in order. *)
Mensagens(itens) == FlattenSeq([i \in DOMAIN itens |-> itens[i].conteudo])
=============================================================================
