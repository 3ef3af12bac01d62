---------------------------- MODULE TurnGatePool ----------------------------
(***************************************************************************)
(* One pool of the turn gate (src/src/runners/turn-gate.ts) as a value:    *)
(* the counter `ativos`, the queue `fila`, the two debug maps `holders`    *)
(* and `waiters`, and the `liberado` flags of the handles already          *)
(* released.  A request is known by its number, the code's `slotSeq`.      *)
(* Every operator is one synchronous stretch of the code, so a caller that *)
(* releases and acquires in one callback composes two of them.             *)
(*                                                                         *)
(* Left out: labels, log lines, the statistics of poolStats and the clock. *)
(***************************************************************************)
EXTENDS Naturals, Sequences, FiniteSets

EmptyPool ==
    [ativos |-> 0, fila |-> <<>>, holders |-> {}, waiters |-> {}, liberados |-> {}]

PoolType ==
    [ativos : Nat, fila : Seq(Nat),
     holders : SUBSET Nat, waiters : SUBSET Nat, liberados : SUBSET Nat]

(* `conceder`: the promise of request id resolves with its release handle. *)
Conceder(pool, id) ==
    [pool EXCEPT !.ativos  = @ + 1,
                 !.holders = @ \cup {id},
                 !.waiters = @ \ {id}]

(* A hand-over that forgets to count the slot it grants. *)
MutProximo(pool, max) ==
    IF pool.fila = <<>> \/ pool.ativos >= max THEN pool
    ELSE [pool EXCEPT !.fila    = Tail(@),
                      !.holders = @ \cup {Head(pool.fila)},
                      !.waiters = @ \ {Head(pool.fila)}]

(* A hand-over that serves the youngest waiter. *)
MutProximoLifo(pool, max) ==
    IF pool.fila = <<>> \/ pool.ativos >= max THEN pool
    ELSE LET ultimo == pool.fila[Len(pool.fila)]
         IN  [Conceder(pool, ultimo) EXCEPT !.fila = SubSeq(@, 1, Len(@) - 1)]

(* `proximo`: while a slot is free, the head of the queue gets it. *)
Proximo(pool, max) ==
    LET livres == IF pool.ativos < max THEN max - pool.ativos ELSE 0
        n      == IF livres < Len(pool.fila) THEN livres ELSE Len(pool.fila)
        vez    == {pool.fila[i] : i \in 1..n}
    IN  [pool EXCEPT !.ativos  = @ + n,
                     !.fila    = SubSeq(@, n + 1, Len(@)),
                     !.holders = @ \cup vez,
                     !.waiters = @ \ vez]

(* An acquire that lets a newcomer in at the ceiling. *)
MutAcquireTurnSlot(pool, max, id) ==
    IF pool.ativos <= max
    THEN Conceder(pool, id)
    ELSE [pool EXCEPT !.waiters = @ \cup {id}, !.fila = Append(@, id)]

(* acquireTurnSlot: grant at once below the ceiling, otherwise queue. *)
AcquireTurnSlot(pool, max, id) ==
    IF pool.ativos < max
    THEN Conceder(pool, id)
    ELSE [pool EXCEPT !.waiters = @ \cup {id}, !.fila = Append(@, id)]

(* A release without the `liberado` flag: a second call frees a slot again. *)
MutReleaseSlot(pool, max, id) ==
    Proximo([pool EXCEPT !.liberados = @ \cup {id},
                         !.holders   = @ \ {id},
                         !.ativos    = @ - 1], max)

(* A release that does not wake the queue. *)
MutReleaseNoWake(pool, max, id) ==
    IF id \in pool.liberados THEN pool
    ELSE [pool EXCEPT !.liberados = @ \cup {id},
                      !.holders   = @ \ {id},
                      !.ativos    = @ - 1]

(* The release handle: idempotent, and it wakes the head of the queue. *)
ReleaseSlot(pool, max, id) ==
    IF id \in pool.liberados THEN pool
    ELSE Proximo([pool EXCEPT !.liberados = @ \cup {id},
                              !.holders   = @ \ {id},
                              !.ativos    = @ - 1], max)

(* The handles some caller may still call: granted, released or not. *)
Handles(pool) == pool.holders \cup pool.liberados
=============================================================================
