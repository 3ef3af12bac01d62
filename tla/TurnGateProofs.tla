--------------------------- MODULE TurnGateProofs ---------------------------
(***************************************************************************)
(* The turn gate for every set of pools, every ceiling and any number of   *)
(* requests: GateInv is inductive, it gives the invariants the runs check, *)
(* grants follow arrival order, and the gate implements SlotPool.          *)
(*                                                                         *)
(* The pool lemmas come first: one per operator of TurnGatePool, about a   *)
(* pool as a value.  The steps of the specification then only have to find *)
(* the pool they touch.                                                    *)
(***************************************************************************)
EXTENDS TurnGate, FiniteSetTheorems, TLAPS

(* The empty pool satisfies the pool invariant. *)
LEMMA EmptyPoolInv ==
    ASSUME NEW max \in Nat, NEW seq \in Nat
    PROVE  EmptyPool \in PoolType /\ PoolInv(EmptyPool, max, seq)
BY FS_EmptySet DEF EmptyPool, PoolType, PoolInv, PoolCounted, PoolWithin,
                   PoolBusyIfQueued, PoolCoherent

(* A request elsewhere only raises the bound on the request numbers. *)
LEMMA SeqGrows ==
    ASSUME NEW pool \in PoolType, NEW max \in Nat, NEW seq \in Nat,
           PoolInv(pool, max, seq)
    PROVE  PoolInv(pool, max, seq + 1)
BY DEF PoolType, PoolInv, PoolCounted, PoolWithin, PoolBusyIfQueued, PoolCoherent

(* Acquiring keeps the pool invariant. *)
LEMMA AcquireKeepsPool ==
    ASSUME NEW pool \in PoolType, NEW max \in Nat \ {0}, NEW seq \in Nat,
           PoolInv(pool, max, seq)
    PROVE  LET nova == AcquireTurnSlot(pool, max, seq + 1)
           IN  nova \in PoolType /\ PoolInv(nova, max, seq + 1)
<1> DEFINE id == seq + 1
           nova == AcquireTurnSlot(pool, max, id)
<1>1. id \notin pool.holders /\ id \notin pool.waiters /\ id \notin pool.liberados
  BY DEF PoolInv, PoolCoherent, PoolType
<1>2. CASE pool.ativos < max
  <2>1. nova = [ativos |-> pool.ativos + 1, fila |-> pool.fila,
                holders |-> pool.holders \cup {id}, waiters |-> pool.waiters,
                liberados |-> pool.liberados]
    BY <1>1, <1>2 DEF AcquireTurnSlot, Conceder, PoolType
  <2>2. pool.fila = <<>>
    BY <1>2 DEF PoolInv, PoolBusyIfQueued, PoolType
  <2>3. IsFiniteSet(nova.holders) /\ Cardinality(nova.holders) = Cardinality(pool.holders) + 1
    BY <2>1, <1>1, FS_AddElement DEF PoolInv, PoolCounted
  <2> HIDE DEF nova
  <2>4. nova \in PoolType
    BY <2>1 DEF PoolType
  <2>5. PoolCounted(nova) /\ PoolWithin(nova, max) /\ PoolBusyIfQueued(nova, max)
    BY <2>1, <2>2, <2>3, <1>2
    DEF PoolInv, PoolCounted, PoolWithin, PoolBusyIfQueued, PoolType
  <2>6. PoolCoherent(nova, id)
    BY <2>1, <1>1 DEF PoolInv, PoolCoherent, PoolType
  <2> QED BY <2>4, <2>5, <2>6 DEF PoolInv, nova
<1>3. CASE ~ (pool.ativos < max)
  <2>1. nova = [ativos |-> pool.ativos, fila |-> Append(pool.fila, id),
                holders |-> pool.holders, waiters |-> pool.waiters \cup {id},
                liberados |-> pool.liberados]
    BY <1>3 DEF AcquireTurnSlot, PoolType
  <2>2. pool.ativos = max
    BY <1>3 DEF PoolInv, PoolWithin, PoolType
  <2> HIDE DEF nova
  <2>3. nova \in PoolType
    BY <2>1 DEF PoolType
  <2>4. PoolCounted(nova) /\ PoolWithin(nova, max) /\ PoolBusyIfQueued(nova, max)
    BY <2>1, <2>2 DEF PoolInv, PoolCounted, PoolWithin, PoolBusyIfQueued, PoolType
  <2> DEFINE f == pool.fila
             n == Len(pool.fila)
  <2>5. /\ f \in Seq(Nat) /\ n \in Nat
        /\ Len(Append(f, id)) = n + 1
        /\ Append(f, id)[n + 1] = id
        /\ \A i \in 1..n : Append(f, id)[i] = f[i] /\ f[i] \in pool.waiters
    BY DEF PoolType, PoolInv, PoolCoherent
  <2>6. \A i \in 1..n : f[i] < id
    BY <2>5 DEF PoolInv, PoolCoherent, PoolType
  <2>7. nova.waiters = {nova.fila[i] : i \in 1..Len(nova.fila)}
    <3>1. nova.waiters = {f[i] : i \in 1..n} \cup {id}
      BY <2>1 DEF PoolInv, PoolCoherent
    <3> QED BY <3>1, <2>1, <2>5
  <2>8. \A i, j \in 1..Len(nova.fila) : i < j => nova.fila[i] < nova.fila[j]
    BY <2>1, <2>5, <2>6, SMTT(30) DEF PoolInv, PoolCoherent
  <2>9. PoolCoherent(nova, id)
    <3>1. /\ \A i \in nova.waiters \cup nova.holders \cup nova.liberados : 0 < i /\ i <= id
          /\ nova.waiters \cap nova.holders = {}
          /\ nova.liberados \cap (nova.waiters \cup nova.holders) = {}
      BY <2>1, <1>1 DEF PoolInv, PoolCoherent, PoolType
    <3> QED BY <3>1, <2>7, <2>8 DEF PoolCoherent
  <2> QED BY <2>3, <2>4, <2>9 DEF PoolInv, nova
<1> QED BY <1>2, <1>3

(* A pool whose fields are the ones given. *)
Fields(pool, ativos, fila, holders, waiters, liberados) ==
    /\ pool \in PoolType
    /\ pool.ativos = ativos
    /\ pool.fila = fila
    /\ pool.holders = holders
    /\ pool.waiters = waiters
    /\ pool.liberados = liberados

(* The while loop of `proximo` does nothing on an empty queue. *)
LEMMA ProximoEmpty ==
    ASSUME NEW pool \in PoolType, NEW max \in Nat, pool.fila = <<>>
    PROVE  Fields(Proximo(pool, max), pool.ativos, <<>>,
                  pool.holders, pool.waiters, pool.liberados)
<1> DEFINE livres == IF pool.ativos < max THEN max - pool.ativos ELSE 0
           n      == IF livres < Len(pool.fila) THEN livres ELSE Len(pool.fila)
           vez    == {pool.fila[i] : i \in 1..n}
           nova   == Proximo(pool, max)
<1>1. Len(pool.fila) = 0
  OBVIOUS
<1>2. n = 0
  BY <1>1 DEF PoolType
<1>3. vez = {}
  BY <1>2
<1>4. SubSeq(pool.fila, n + 1, Len(pool.fila)) = <<>>
  BY <1>1, <1>2
<1>5. nova = [pool EXCEPT !.ativos  = @ + n,
                          !.fila    = SubSeq(@, n + 1, Len(@)),
                          !.holders = @ \cup vez,
                          !.waiters = @ \ vez]
  BY DEF Proximo
<1> HIDE DEF n, vez, nova
<1>6. /\ nova.ativos = pool.ativos /\ nova.fila = <<>> /\ nova.holders = pool.holders
      /\ nova.waiters = pool.waiters /\ nova.liberados = pool.liberados
  BY <1>2, <1>3, <1>4, <1>5 DEF PoolType
<1>7. nova \in PoolType
  <2>1. pool.holders \cup vez = pool.holders /\ pool.waiters \ vez = pool.waiters
    BY <1>3
  <2>2. <<>> \in Seq(Nat) /\ pool.ativos + n \in Nat
    BY <1>2 DEF PoolType
  <2> QED BY <1>4, <1>5, <2>1, <2>2 DEF PoolType
<1> QED BY <1>6, <1>7 DEF Fields, nova

(* With one slot free, the loop runs once: the head of the queue gets it. *)
LEMMA ProximoHead ==
    ASSUME NEW pool \in PoolType, NEW max \in Nat,
           pool.fila # <<>>, pool.ativos + 1 = max
    PROVE  Fields(Proximo(pool, max), pool.ativos + 1, Tail(pool.fila),
                  pool.holders \cup {Head(pool.fila)},
                  pool.waiters \ {Head(pool.fila)}, pool.liberados)
<1> DEFINE livres == IF pool.ativos < max THEN max - pool.ativos ELSE 0
           n      == IF livres < Len(pool.fila) THEN livres ELSE Len(pool.fila)
           vez    == {pool.fila[i] : i \in 1..n}
           nova   == Proximo(pool, max)
<1>1. pool.fila \in Seq(Nat) /\ Len(pool.fila) \in Nat /\ Len(pool.fila) # 0
  BY DEF PoolType
<1>2. n = 1
  <2>1. pool.ativos < max /\ max - pool.ativos = 1
    BY DEF PoolType
  <2>2. livres = 1
    BY <2>1
  <2>3. CASE Len(pool.fila) = 1
    BY <2>2, <2>3
  <2>4. CASE Len(pool.fila) # 1
    <3>1. \A k \in Nat : k # 0 /\ k # 1 => 1 < k
      OBVIOUS
    <3>2. Len(pool.fila) \in Nat /\ Len(pool.fila) # 0
      BY <1>1
    <3>3. 1 < Len(pool.fila)
      BY <3>1, <3>2, <2>4, Zenon
    <3> QED BY <2>2, <3>3
  <2> QED BY <2>3, <2>4
<1>6. nova = [pool EXCEPT !.ativos  = @ + n,
                          !.fila    = SubSeq(@, n + 1, Len(@)),
                          !.holders = @ \cup vez,
                          !.waiters = @ \ vez]
  BY DEF Proximo
<1> HIDE DEF n
<1>3. /\ Head(pool.fila) = pool.fila[1] /\ Head(pool.fila) \in Nat
      /\ Tail(pool.fila) \in Seq(Nat)
  BY <1>1
<1>4. vez = {Head(pool.fila)}
  <2>1. 1..n = {1}
    BY <1>2
  <2> QED BY <2>1, <1>3
<1>5. SubSeq(pool.fila, n + 1, Len(pool.fila)) = Tail(pool.fila)
  BY <1>1, <1>2
<1> HIDE DEF vez, nova
<1>7. /\ nova.ativos = pool.ativos + 1 /\ nova.fila = Tail(pool.fila)
      /\ nova.holders = pool.holders \cup {Head(pool.fila)}
      /\ nova.waiters = pool.waiters \ {Head(pool.fila)}
      /\ nova.liberados = pool.liberados
  BY <1>2, <1>4, <1>5, <1>6 DEF PoolType
<1>8. nova \in PoolType
  <2>1. pool.holders \cup vez \in SUBSET Nat /\ pool.waiters \ vez \in SUBSET Nat
    BY <1>3, <1>4 DEF PoolType
  <2>2. pool.ativos + n \in Nat
    BY <1>2 DEF PoolType
  <2> QED BY <1>3, <1>5, <1>6, <2>1, <2>2 DEF PoolType
<1> QED BY <1>7, <1>8 DEF Fields, nova

(* What a release does: a no-op on a released handle; the slot comes free   *)
(* when nobody waits; otherwise exactly the head of the queue gets it.      *)
LEMMA ReleaseForms ==
    ASSUME NEW pool \in PoolType, NEW max \in Nat \ {0}, NEW seq \in Nat,
           PoolInv(pool, max, seq), NEW id \in Handles(pool)
    PROVE  LET nova == ReleaseSlot(pool, max, id) IN
           \/ id \in pool.liberados /\ nova = pool
           \/ /\ id \in pool.holders
              /\ pool.fila = <<>>
              /\ Fields(nova, pool.ativos - 1, <<>>, pool.holders \ {id},
                        pool.waiters, pool.liberados \cup {id})
           \/ /\ id \in pool.holders
              /\ pool.fila # <<>>
              /\ Fields(nova, pool.ativos, Tail(pool.fila),
                        (pool.holders \ {id}) \cup {Head(pool.fila)},
                        pool.waiters \ {Head(pool.fila)}, pool.liberados \cup {id})
<1> DEFINE solta == [pool EXCEPT !.liberados = @ \cup {id},
                                 !.holders   = @ \ {id},
                                 !.ativos    = @ - 1]
<1>1. CASE id \in pool.liberados
  BY <1>1 DEF ReleaseSlot
<1>2. CASE id \notin pool.liberados
  <2>1. id \in pool.holders
    BY <1>2 DEF Handles
  <2>2. ReleaseSlot(pool, max, id) = Proximo(solta, max)
    BY <1>2 DEF ReleaseSlot
  <2>3. pool.ativos \in Nat /\ pool.ativos <= max /\ pool.ativos # 0
    BY <2>1, FS_EmptySet DEF PoolInv, PoolCounted, PoolWithin, PoolType
  <2>4. Fields(solta, pool.ativos - 1, pool.fila, pool.holders \ {id},
               pool.waiters, pool.liberados \cup {id})
    <3>1. /\ pool.liberados \cup {id} \in SUBSET Nat
          /\ pool.holders \ {id} \in SUBSET Nat
          /\ pool.ativos - 1 \in Nat
      BY <2>1, <2>3 DEF PoolType
    <3>2. solta \in PoolType
      BY <3>1 DEF PoolType
    <3>3. /\ solta.ativos = pool.ativos - 1 /\ solta.fila = pool.fila
          /\ solta.holders = pool.holders \ {id} /\ solta.waiters = pool.waiters
          /\ solta.liberados = pool.liberados \cup {id}
      BY DEF PoolType
    <3> QED BY <3>2, <3>3 DEF Fields
  <2> HIDE DEF solta
  <2>5. CASE pool.fila = <<>>
    <3>1. Fields(Proximo(solta, max), solta.ativos, <<>>,
                 solta.holders, solta.waiters, solta.liberados)
      BY <2>4, <2>5, ProximoEmpty DEF Fields
    <3> QED BY <2>1, <2>2, <2>4, <2>5, <3>1 DEF Fields
  <2>6. CASE pool.fila # <<>>
    <3>1. pool.ativos = max
      BY <2>6 DEF PoolInv, PoolBusyIfQueued
    <3>2. solta.ativos + 1 = max /\ solta.fila # <<>> /\ solta \in PoolType
      BY <2>3, <2>4, <2>6, <3>1 DEF Fields
    <3>3. Fields(Proximo(solta, max), solta.ativos + 1, Tail(solta.fila),
                 solta.holders \cup {Head(solta.fila)},
                 solta.waiters \ {Head(solta.fila)}, solta.liberados)
      BY <3>2, ProximoHead
    <3> QED BY <2>1, <2>2, <2>3, <2>4, <2>6, <3>1, <3>2, <3>3 DEF Fields
  <2> QED BY <2>5, <2>6
<1> QED BY <1>1, <1>2

(* Facts about the queue of a coherent pool with a waiter: its head is a    *)
(* waiter older than the rest, and its tail holds the others.               *)
LEMMA HeadOfQueue ==
    ASSUME NEW pool \in PoolType, NEW seq \in Nat,
           PoolCoherent(pool, seq), pool.fila # <<>>
    PROVE  LET vez == Head(pool.fila)
               resto == Tail(pool.fila)
           IN  /\ vez \in pool.waiters
               /\ pool.waiters \ {vez} = {resto[i] : i \in 1..Len(resto)}
               /\ \A i, j \in 1..Len(resto) : i < j => resto[i] < resto[j]
               /\ \A w \in pool.waiters \ {vez} : vez < w
<1> DEFINE f == pool.fila
           n == Len(f)
           resto == Tail(f)
<1>1. f \in Seq(Nat) /\ n \in Nat /\ n # 0
  BY DEF PoolType
<1>2. /\ Len(resto) = n - 1
      /\ \A i \in 1..(n - 1) : resto[i] = f[i + 1]
      /\ Head(f) = f[1]
  BY <1>1
<1>3. /\ \A i, j \in 1..n : i < j => f[i] < f[j]
      /\ pool.waiters = {f[i] : i \in 1..n}
      /\ \A i \in 1..n : f[i] \in Nat
  BY <1>1 DEF PoolCoherent
<1> HIDE DEF f, n, resto
<1>4. n \in Nat /\ 1 <= n /\ 1 \in 1..n
  BY <1>1
<1>5. \A i \in 1..n : i # 1 => i - 1 \in 1..(n - 1) /\ f[i] = resto[i - 1] /\ f[1] < f[i]
  <2> SUFFICES ASSUME NEW i \in 1..n, i # 1
               PROVE  i - 1 \in 1..(n - 1) /\ f[i] = resto[i - 1] /\ f[1] < f[i]
    OBVIOUS
  <2>1. i - 1 \in 1..(n - 1) /\ (i - 1) + 1 = i
    BY <1>4
  <2>2. 1 < i
    BY <1>4
  <2> QED BY <2>1, <2>2, <1>2, <1>3, <1>4
<1>6. \A i \in 1..(n - 1) : i + 1 \in 1..n /\ i + 1 # 1
  BY <1>4
<1>7. \A i, j \in 1..Len(resto) : i < j => resto[i] < resto[j]
  <2> SUFFICES ASSUME NEW i \in 1..(n - 1), NEW j \in 1..(n - 1), i < j
               PROVE  resto[i] < resto[j]
    BY <1>2
  <2>1. i + 1 < j + 1
    BY <1>4
  <2> QED BY <2>1, <1>2, <1>3, <1>6
<1>8. pool.waiters \ {f[1]} = {resto[i] : i \in 1..(n - 1)}
  <2>1. ASSUME NEW w \in pool.waiters, w # f[1]
        PROVE  w \in {resto[i] : i \in 1..(n - 1)}
    BY <2>1, <1>3, <1>5
  <2>2. ASSUME NEW i \in 1..(n - 1)
        PROVE  resto[i] \in pool.waiters /\ resto[i] # f[1]
    <3>1. resto[i] = f[i + 1] /\ i + 1 \in 1..n /\ f[1] < f[i + 1]
      BY <1>2, <1>5, <1>6
    <3>2. f[1] \in Nat /\ f[i + 1] \in Nat
      BY <1>3, <1>4, <3>1
    <3> QED BY <1>3, <3>1, <3>2
  <2> QED BY <2>1, <2>2
<1>9. \A w \in pool.waiters \ {f[1]} : f[1] < w
  BY <1>3, <1>5
<1>10. f[1] \in pool.waiters
  BY <1>3, <1>4
<1> QED BY <1>2, <1>7, <1>8, <1>9, <1>10 DEF f, resto

(* Releasing keeps the pool invariant. *)
LEMMA ReleaseKeepsPool ==
    ASSUME NEW pool \in PoolType, NEW max \in Nat \ {0}, NEW seq \in Nat,
           PoolInv(pool, max, seq), NEW id \in Handles(pool)
    PROVE  LET nova == ReleaseSlot(pool, max, id)
           IN  nova \in PoolType /\ PoolInv(nova, max, seq)
<1> DEFINE nova == ReleaseSlot(pool, max, id)
<1>1. CASE id \in pool.liberados /\ nova = pool
  BY <1>1
<1>2. CASE /\ id \in pool.holders
           /\ pool.fila = <<>>
           /\ Fields(nova, pool.ativos - 1, <<>>, pool.holders \ {id},
                     pool.waiters, pool.liberados \cup {id})
  <2>1. /\ IsFiniteSet(nova.holders)
        /\ Cardinality(nova.holders) = Cardinality(pool.holders) - 1
    <3>1. nova.holders = pool.holders \ {id} /\ id \in pool.holders /\ IsFiniteSet(pool.holders)
      BY <1>2 DEF Fields, PoolInv, PoolCounted
    <3> HIDE DEF nova
    <3> QED BY <3>1, FS_RemoveElement, ZenonT(60)
  <2> HIDE DEF nova
  <2>2. PoolCounted(nova) /\ PoolWithin(nova, max) /\ PoolBusyIfQueued(nova, max)
    BY <1>2, <2>1
    DEF Fields, PoolInv, PoolCounted, PoolWithin, PoolBusyIfQueued, PoolType
  <2>3. PoolCoherent(nova, seq)
    <3>1. /\ nova.fila = pool.fila /\ nova.waiters = pool.waiters
          /\ nova.holders \subseteq pool.holders
          /\ nova.liberados = pool.liberados \cup {id} /\ id \notin nova.holders
          /\ id \notin nova.waiters
      BY <1>2 DEF Fields, PoolInv, PoolCoherent
    <3> QED BY <3>1, <1>2 DEF PoolInv, PoolCoherent
  <2> QED BY <1>2, <2>2, <2>3 DEF Fields, PoolInv, nova
<1>3. CASE /\ id \in pool.holders
           /\ pool.fila # <<>>
           /\ Fields(nova, pool.ativos, Tail(pool.fila),
                     (pool.holders \ {id}) \cup {Head(pool.fila)},
                     pool.waiters \ {Head(pool.fila)}, pool.liberados \cup {id})
  <2> DEFINE vez == Head(pool.fila)
             resto == Tail(pool.fila)
  <2>1. /\ vez \in pool.waiters
        /\ pool.waiters \ {vez} = {resto[i] : i \in 1..Len(resto)}
        /\ \A i, j \in 1..Len(resto) : i < j => resto[i] < resto[j]
    BY <1>3, HeadOfQueue DEF PoolInv
  <2>2. vez \notin pool.holders \ {id} /\ vez \notin pool.liberados /\ vez # id
    BY <1>3, <2>1 DEF PoolInv, PoolCoherent
  <2>3. /\ IsFiniteSet(pool.holders \ {id})
        /\ Cardinality(pool.holders \ {id}) = Cardinality(pool.holders) - 1
    BY <1>3, FS_RemoveElement DEF PoolInv, PoolCounted
  <2>4. /\ IsFiniteSet(nova.holders)
        /\ Cardinality(nova.holders) = Cardinality(pool.holders \ {id}) + 1
    <3> DEFINE S == pool.holders \ {id}
    <3>1. nova.holders = S \cup {vez}
      BY <1>3 DEF Fields
    <3>2. vez \notin S /\ IsFiniteSet(S)
      BY <2>2, <2>3
    <3> HIDE DEF nova, vez, S
    <3>3. IsFiniteSet(S \cup {vez}) /\ Cardinality(S \cup {vez}) = Cardinality(S) + 1
      BY <3>2, FS_AddElement
    <3> QED BY <3>1, <3>3 DEF S
  <2> HIDE DEF nova, vez, resto
  <2>5. PoolCounted(nova) /\ PoolWithin(nova, max) /\ PoolBusyIfQueued(nova, max)
    <3>1. nova.ativos = pool.ativos /\ pool.ativos = max
      BY <1>3 DEF Fields, PoolInv, PoolBusyIfQueued
    <3>2. Cardinality(nova.holders) = pool.ativos
      BY <2>3, <2>4 DEF PoolInv, PoolCounted, PoolType
    <3> QED BY <3>1, <3>2, <2>4
        DEF PoolInv, PoolCounted, PoolWithin, PoolBusyIfQueued
  <2>6. PoolCoherent(nova, seq)
    <3>1. /\ nova.fila = resto /\ nova.waiters = pool.waiters \ {vez}
          /\ nova.holders = (pool.holders \ {id}) \cup {vez}
          /\ nova.liberados = pool.liberados \cup {id}
      BY <1>3 DEF Fields, vez, resto
    <3>2. id \notin pool.waiters
      BY <1>3 DEF PoolInv, PoolCoherent
    <3>3. /\ nova.waiters \cap nova.holders = {}
          /\ nova.liberados \cap (nova.waiters \cup nova.holders) = {}
      BY <3>1, <3>2, <2>1, <2>2 DEF PoolInv, PoolCoherent
    <3>4. \A i \in nova.waiters \cup nova.holders \cup nova.liberados : 0 < i /\ i <= seq
      BY <3>1, <1>3, <2>1 DEF PoolInv, PoolCoherent
    <3> QED BY <3>1, <3>3, <3>4, <2>1 DEF PoolCoherent
  <2> QED BY <1>3, <2>5, <2>6 DEF Fields, PoolInv, nova
<1> QED BY <1>1, <1>2, <1>3, ReleaseForms

-----------------------------------------------------------------------------
(* GateInv holds initially. *)
LEMMA InitGateInv == Init => GateInv
BY EmptyPoolInv, PoolsAssumption DEF Init, GateInv, TypeOK

(* GateInv is inductive: a step changes one pool through one operator. *)
LEMMA StepGateInv == GateInv /\ [Next]_vars => GateInv'
<1> SUFFICES ASSUME GateInv, [Next]_vars PROVE GateInv'
  OBVIOUS
<1> USE PoolsAssumption DEF GateInv, TypeOK
<1>1. ASSUME NEW p \in Pools, Acquire(p) PROVE GateInv'
  <2>1. /\ AcquireTurnSlot(pools[p], Max[p], slotSeq + 1) \in PoolType
        /\ PoolInv(AcquireTurnSlot(pools[p], Max[p], slotSeq + 1), Max[p], slotSeq + 1)
    BY AcquireKeepsPool
  <2>2. /\ slotSeq' = slotSeq + 1
        /\ pools' = [pools EXCEPT ![p] = AcquireTurnSlot(pools[p], Max[p], slotSeq + 1)]
    BY <1>1 DEF Acquire
  <2>3. ASSUME NEW q \in Pools PROVE PoolInv(pools'[q], Max[q], slotSeq + 1)
    <3>1. CASE q = p
      BY <2>1, <2>2, <3>1
    <3>2. CASE q # p
      BY <2>2, <3>2, SeqGrows
    <3> QED BY <3>1, <3>2
  <2> QED BY <2>1, <2>2, <2>3
<1>2. ASSUME NEW p \in Pools, NEW id \in Handles(pools[p]),
             pools' = [pools EXCEPT ![p] = ReleaseSlot(@, Max[p], id)], slotSeq' = slotSeq
      PROVE  GateInv'
  <2>1. /\ ReleaseSlot(pools[p], Max[p], id) \in PoolType
        /\ PoolInv(ReleaseSlot(pools[p], Max[p], id), Max[p], slotSeq)
    BY ReleaseKeepsPool
  <2> QED BY <2>1, <1>2
<1>3. ASSUME NEW p \in Pools, NEW id \in Ids, Release(p, id) PROVE GateInv'
  BY <1>2, <1>3 DEF Release
<1>4. ASSUME NEW p \in Pools, NEW id \in Ids, Guarda(p, id) PROVE GateInv'
  BY <1>2, <1>4 DEF Guarda, Handles
<1>5. CASE UNCHANGED vars
  BY <1>5 DEF vars
<1> QED BY <1>1, <1>3, <1>4, <1>5 DEF Next

(* The gate's invariant, for every ceiling and any number of requests. *)
THEOREM GateCorrect == Spec => []GateInv
BY InitGateInv, StepGateInv, PTL DEF Spec

(* What the invariant says about the state the runs look at. *)
LEMMA GateInvGives ==
    GateInv => /\ TypeOK /\ CounterMatchesHolders /\ CeilingRespected
               /\ NoIdleSlot /\ QueueCoherent
<1> SUFFICES ASSUME GateInv
             PROVE  /\ TypeOK /\ CounterMatchesHolders /\ CeilingRespected
                    /\ NoIdleSlot /\ QueueCoherent
  OBVIOUS
<1>1. TypeOK /\ CounterMatchesHolders /\ QueueCoherent
  BY DEF GateInv, PoolInv, CounterMatchesHolders, QueueCoherent
<1>2. CeilingRespected
  BY DEF GateInv, PoolInv, PoolCounted, PoolWithin, CeilingRespected
<1>3. NoIdleSlot
  <2> SUFFICES ASSUME NEW p \in Pools, pools[p].waiters # {}
               PROVE  Cardinality(pools[p].holders) = Max[p]
    BY DEF NoIdleSlot
  <2>1. pools[p].fila # <<>>
    BY DEF GateInv, PoolInv, PoolCoherent
  <2> QED BY <2>1 DEF GateInv, PoolInv, PoolCounted, PoolBusyIfQueued
<1> QED BY <1>1, <1>2, <1>3

(* The variables always have their type. *)
THEOREM TypeCorrect == Spec => []TypeOK
BY GateCorrect, GateInvGives, PTL

(* The counter the gate decides with always counts the holders. *)
THEOREM CounterCorrect == Spec => []CounterMatchesHolders
BY GateCorrect, GateInvGives, PTL

(* Never more turns in a pool than its ceiling. *)
THEOREM CeilingCorrect == Spec => []CeilingRespected
BY GateCorrect, GateInvGives, PTL

(* No request waits beside a free slot. *)
THEOREM WorkConserving == Spec => []NoIdleSlot
BY GateCorrect, GateInvGives, PTL

(* Queue and debug map agree, in arrival order. *)
THEOREM QueueCorrect == Spec => []QueueCoherent
BY GateCorrect, GateInvGives, PTL

(* What one operator does to the two sets the callers see: nothing, a grant *)
(* of the newcomer, a newcomer in the queue, a slot given back, or a slot   *)
(* handed to the oldest waiter.                                             *)
LEMMA AcquireEffect ==
    ASSUME NEW pool \in PoolType, NEW max \in Nat \ {0}, NEW seq \in Nat,
           PoolInv(pool, max, seq)
    PROVE  LET nova == AcquireTurnSlot(pool, max, seq + 1) IN
           \/ /\ pool.ativos < max
              /\ pool.waiters = {}
              /\ nova.holders = pool.holders \cup {seq + 1}
              /\ nova.waiters = pool.waiters
           \/ /\ pool.ativos = max
              /\ nova.holders = pool.holders
              /\ nova.waiters = pool.waiters \cup {seq + 1}
<1> DEFINE nova == AcquireTurnSlot(pool, max, seq + 1)
<1>1. CASE pool.ativos < max
  <2>1. pool.waiters = {}
    <3>1. pool.fila = <<>> /\ Len(pool.fila) = 0
      BY <1>1 DEF PoolInv, PoolBusyIfQueued, PoolType
    <3> QED BY <3>1 DEF PoolInv, PoolCoherent
  <2>2. /\ nova.holders = pool.holders \cup {seq + 1}
        /\ nova.waiters = pool.waiters \ {seq + 1}
    BY <1>1 DEF AcquireTurnSlot, Conceder, PoolType
  <2> QED BY <1>1, <2>1, <2>2
<1>2. CASE ~ (pool.ativos < max)
  <2>1. pool.ativos = max
    BY <1>2 DEF PoolInv, PoolWithin, PoolType
  <2>2. /\ nova.holders = pool.holders
        /\ nova.waiters = pool.waiters \cup {seq + 1}
    BY <1>2 DEF AcquireTurnSlot, PoolType
  <2> QED BY <2>1, <2>2
<1> QED BY <1>1, <1>2

LEMMA ReleaseEffect ==
    ASSUME NEW pool \in PoolType, NEW max \in Nat \ {0}, NEW seq \in Nat,
           PoolInv(pool, max, seq), NEW id \in Handles(pool)
    PROVE  LET nova == ReleaseSlot(pool, max, id) IN
           \/ nova = pool
           \/ /\ id \in pool.holders
              /\ pool.waiters = {}
              /\ nova.holders = pool.holders \ {id}
              /\ nova.waiters = pool.waiters
           \/ \E vez \in pool.waiters :
                /\ id \in pool.holders
                /\ \A w \in pool.waiters \ {vez} : vez < w
                /\ nova.holders = (pool.holders \ {id}) \cup {vez}
                /\ nova.waiters = pool.waiters \ {vez}
<1>1. pool.fila = <<>> => pool.waiters = {}
  BY DEF PoolInv, PoolCoherent
<1>2. pool.fila # <<>> =>
        /\ Head(pool.fila) \in pool.waiters
        /\ \A w \in pool.waiters \ {Head(pool.fila)} : Head(pool.fila) < w
  BY HeadOfQueue DEF PoolInv
<1> QED BY <1>1, <1>2, ReleaseForms DEF Fields

(* Every step of the gate is one of these for one pool. *)
LEMMA StepShape ==
    ASSUME GateInv, [Next]_vars
    PROVE  \/ UNCHANGED pools
           \/ \E p \in Pools : 
                \/ /\ Acquire(p)
                   /\ pools' = [pools EXCEPT ![p] =
                                   AcquireTurnSlot(pools[p], Max[p], slotSeq + 1)]
                \/ \E id \in Handles(pools[p]) :
                     pools' = [pools EXCEPT ![p] = ReleaseSlot(pools[p], Max[p], id)]
<1>1. ASSUME NEW p \in Pools, Acquire(p)
      PROVE pools' = [pools EXCEPT ![p] = AcquireTurnSlot(pools[p], Max[p], slotSeq + 1)]
  BY <1>1 DEF Acquire
<1>2. ASSUME NEW p \in Pools, NEW id \in Ids, Release(p, id) \/ Guarda(p, id)
      PROVE  /\ id \in Handles(pools[p])
             /\ pools' = [pools EXCEPT ![p] = ReleaseSlot(pools[p], Max[p], id)]
  BY <1>2 DEF Release, Guarda, Handles
<1>3. CASE UNCHANGED vars
  BY <1>3 DEF vars
<1>4. CASE Next
  BY <1>1, <1>2, <1>4 DEF Next
<1> QED BY <1>3, <1>4

(* No step grants a request past an older one of its pool. *)
THEOREM ArrivalOrderCorrect == Spec => GrantsInArrivalOrder
<1>1. GateInv /\ [Next]_vars => [\A p \in Pools : ArrivalOrder(p)]_vars
  <2> SUFFICES ASSUME GateInv, [Next]_vars, NEW p \in Pools
               PROVE  ArrivalOrder(p)
    OBVIOUS
  <2> SUFFICES ASSUME NEW novo \in pools'[p].holders \ pools[p].holders,
                      NEW velho \in pools'[p].waiters
               PROVE  novo < velho
    BY DEF ArrivalOrder
  <2> USE PoolsAssumption
  <2>1. /\ slotSeq \in Nat /\ pools \in [Pools -> PoolType]
        /\ \A q \in Pools : PoolInv(pools[q], Max[q], slotSeq)
    BY DEF GateInv, TypeOK
  <2>2. ASSUME NEW q \in Pools,
               pools' = [pools EXCEPT ![q] = AcquireTurnSlot(pools[q], Max[q], slotSeq + 1)]
        PROVE  novo < velho
    <3>1. q = p
      BY <2>1, <2>2
    <3>2. pools'[p] = AcquireTurnSlot(pools[p], Max[p], slotSeq + 1)
      BY <2>1, <2>2, <3>1
    <3> QED BY <2>1, <3>2, AcquireEffect
  <2>3. ASSUME NEW q \in Pools, NEW id \in Handles(pools[q]),
               pools' = [pools EXCEPT ![q] = ReleaseSlot(pools[q], Max[q], id)]
        PROVE  novo < velho
    <3>1. q = p
      BY <2>1, <2>3
    <3>2. pools'[p] = ReleaseSlot(pools[p], Max[p], id) /\ id \in Handles(pools[p])
      BY <2>1, <2>3, <3>1
    <3> QED BY <2>1, <3>2, ReleaseEffect
  <2>4. pools' # pools
    OBVIOUS
  <2> QED BY <2>2, <2>3, <2>4, StepShape
<1> QED BY <1>1, GateCorrect, PTL DEF Spec, GrantsInArrivalOrder

-----------------------------------------------------------------------------
(* Refinement: the promise's initial state, then one abstract step, or a    *)
(* stutter, for each step of the gate.                                      *)
Asking  == [p \in Pools |-> pools[p].waiters]
Holding == [p \in Pools |-> pools[p].holders]

(* SlotPool counts with the same Cardinality.                               *)
LEMMA SameCardinality == ASSUME NEW S PROVE Promise!Cardinality(S) = Cardinality(S)
BY DEF Promise!Cardinality, Cardinality

LEMMA PromiseInit == Init => Promise!Init
BY DEF Init, Promise!Init, EmptyPool

LEMMA PromiseStep ==
    ASSUME GateInv, [Next]_vars
    PROVE  [Promise!Next]_(Promise!vars)
<1> USE PoolsAssumption
<1>1. /\ slotSeq \in Nat /\ pools \in [Pools -> PoolType]
      /\ \A q \in Pools : PoolInv(pools[q], Max[q], slotSeq)
  BY DEF GateInv, TypeOK
<1>2. ASSUME NEW p \in Pools, Acquire(p),
             pools' = [pools EXCEPT ![p] = AcquireTurnSlot(pools[p], Max[p], slotSeq + 1)]
      PROVE  Promise!Next
  <2>1. PICK id \in Ids : id = slotSeq + 1
    BY <1>1, <1>2, BoundAssumption DEF Acquire, Ids
  <2>2. Promise!Fresh(id)
    BY <1>1, <2>1 DEF PoolInv, PoolCoherent, PoolType, Promise!Fresh
  <2>3. pools'[p] = AcquireTurnSlot(pools[p], Max[p], slotSeq + 1)
    BY <1>1, <1>2
  <2>4. \A q \in Pools : q # p => pools'[q] = pools[q]
    BY <1>1, <1>2
  <2>5. Cardinality(pools[p].holders) = pools[p].ativos
    BY <1>1 DEF PoolInv, PoolCounted
  <2>6. CASE /\ pools[p].ativos < Max[p]
             /\ pools'[p].holders = pools[p].holders \cup {id}
             /\ pools'[p].waiters = pools[p].waiters
    <3>1. Holding' = [Holding EXCEPT ![p] = Holding[p] \cup {id}]
      BY <2>4, <2>6 DEF Holding
    <3>2. Asking' = Asking
      BY <2>4, <2>6 DEF Asking
    <3>3. Holding = [q \in Pools |-> pools[q].holders] /\ Promise!Cardinality(Holding[p]) = Cardinality(pools[p].holders)
      BY SameCardinality DEF Holding
    <3>4. Promise!Enter(p, id)
      BY <2>2, <2>5, <2>6, <3>1, <3>2, <3>3 DEF Promise!Enter, Holding, Asking
    <3> QED BY <3>4 DEF Promise!Next
  <2>7. CASE /\ pools[p].ativos = Max[p]
             /\ pools'[p].holders = pools[p].holders
             /\ pools'[p].waiters = pools[p].waiters \cup {id}
    <3>1. Asking' = [Asking EXCEPT ![p] = Asking[p] \cup {id}]
      BY <2>4, <2>7 DEF Asking
    <3>2. Holding' = Holding
      BY <2>4, <2>7 DEF Holding
    <3>3. Holding = [q \in Pools |-> pools[q].holders] /\ Promise!Cardinality(Holding[p]) = Cardinality(pools[p].holders)
      BY SameCardinality DEF Holding
    <3>4. Promise!Queue(p, id)
      BY <2>2, <2>5, <2>7, <3>1, <3>2, <3>3 DEF Promise!Queue, Holding, Asking
    <3> QED BY <3>4 DEF Promise!Next
  <2> QED BY <1>1, <2>1, <2>3, <2>6, <2>7, AcquireEffect
<1>3. ASSUME NEW p \in Pools, NEW id \in Handles(pools[p]),
             pools' = [pools EXCEPT ![p] = ReleaseSlot(pools[p], Max[p], id)]
      PROVE  [Promise!Next]_(Promise!vars)
  <2>1. pools'[p] = ReleaseSlot(pools[p], Max[p], id)
    BY <1>1, <1>3
  <2>2. \A q \in Pools : q # p => pools'[q] = pools[q]
    BY <1>1, <1>3
  <2>3. CASE pools'[p] = pools[p]
    <3>1. Asking' = Asking /\ Holding' = Holding
      BY <2>2, <2>3 DEF Asking, Holding
    <3> QED BY <3>1 DEF Promise!vars, Asking, Holding
  <2>4. CASE /\ id \in pools[p].holders
             /\ pools[p].waiters = {}
             /\ pools'[p].holders = pools[p].holders \ {id}
             /\ pools'[p].waiters = pools[p].waiters
    <3>1. Holding' = [Holding EXCEPT ![p] = Holding[p] \ {id}]
      BY <2>2, <2>4 DEF Holding
    <3>2. Asking' = Asking
      BY <2>2, <2>4 DEF Asking
    <3>3. Promise!Leave(p, id)
      BY <2>4, <3>1, <3>2 DEF Promise!Leave, Holding, Asking
    <3> QED BY <3>3, <2>4 DEF Promise!Next
  <2>5. ASSUME NEW vez \in pools[p].waiters,
               id \in pools[p].holders,
               pools'[p].holders = (pools[p].holders \ {id}) \cup {vez},
               pools'[p].waiters = pools[p].waiters \ {vez}
        PROVE  Promise!Next
    <3>1. /\ Holding' = [Holding EXCEPT ![p] = (Holding[p] \ {id}) \cup {vez}]
          /\ Asking' = [Asking EXCEPT ![p] = Asking[p] \ {vez}]
      BY <2>2, <2>5 DEF Holding, Asking
    <3>2. Promise!HandOver(p, id, vez)
      BY <2>5, <3>1 DEF Promise!HandOver, Holding, Asking
    <3> QED BY <3>2, <2>5 DEF Promise!Next
  <2> QED BY <1>1, <2>1, <2>3, <2>4, <2>5, ReleaseEffect
<1>4. CASE UNCHANGED pools
  BY <1>4 DEF Promise!vars
<1> QED BY <1>2, <1>3, <1>4, StepShape

(* The gate implements the pool it promises. *)
THEOREM GateImplementsPromise == Spec => ImplementsSlotPool
BY PromiseInit, PromiseStep, GateCorrect, PTL
   DEF Spec, ImplementsSlotPool, Promise!Safety
=============================================================================
