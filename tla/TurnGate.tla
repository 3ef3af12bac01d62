------------------------------ MODULE TurnGate ------------------------------
(***************************************************************************)
(* The turn gate: two pools of CLI-turn slots, `main` for agent turns and  *)
(* `bg` for the summarizer and one-shot turns.  Callers ask for a slot,    *)
(* wait in arrival order, and give it back through a handle they may call  *)
(* any number of times; a handle nobody calls is called by its MAX_HOLD    *)
(* timer.  Callers are adversarial here: RunnerTurn composes the pools     *)
(* with the code that really calls them.                                   *)
(***************************************************************************)
EXTENDS TurnGatePool

CONSTANTS
    Pools,          \* the names of the pools
    Max,            \* Max[p]: the ceiling of pool p
    MaxAcquires     \* bound on the requests of a behaviour (the code has none)

ASSUME PoolsAssumption == Max \in [Pools -> Nat \ {0}]
ASSUME BoundAssumption == MaxAcquires \in Nat

VARIABLES
    slotSeq,        \* the number of the last request
    pools           \* the pools, by name

vars == <<slotSeq, pools>>

Init ==
    /\ slotSeq = 0
    /\ pools = [p \in Pools |-> EmptyPool]

(* A caller asks for a slot of pool p. *)
Acquire(p) ==
    /\ slotSeq < MaxAcquires
    /\ slotSeq' = slotSeq + 1
    /\ pools' = [pools EXCEPT ![p] = AcquireTurnSlot(@, Max[p], slotSeq + 1)]

(* A caller calls a handle it was given: on close, on an error path, twice. *)
Release(p, id) ==
    /\ id \in Handles(pools[p])
    /\ pools' = [pools EXCEPT ![p] = ReleaseSlot(@, Max[p], id)]
    /\ UNCHANGED slotSeq

(* The MAX_HOLD timer of a handle nobody called. *)
Guarda(p, id) ==
    /\ id \in pools[p].holders
    /\ pools' = [pools EXCEPT ![p] = ReleaseSlot(@, Max[p], id)]
    /\ UNCHANGED slotSeq

Ids == 1..MaxAcquires

Next ==
    \E p \in Pools :
        \/ Acquire(p)
        \/ \E id \in Ids : Release(p, id) \/ Guarda(p, id)

(* A timer that is not cleared fires.  Nothing is assumed of the callers. *)
Fairness == \A p \in Pools, id \in Ids : WF_vars(Guarda(p, id))

Spec == Init /\ [][Next]_vars /\ Fairness

-----------------------------------------------------------------------------
(* The state has the shape of PoolState and of the two debug maps. *)
TypeOK ==
    /\ slotSeq \in Nat
    /\ pools \in [Pools -> PoolType]

(* The counter the gate decides with is the number of turns that really    *)
(* hold a slot, through double releases, forced ones and hand-overs.       *)
PoolCounted(pool) ==
    /\ IsFiniteSet(pool.holders)
    /\ pool.ativos = Cardinality(pool.holders)

CounterMatchesHolders == \A p \in Pools : PoolCounted(pools[p])

(* "até MAX rodam livres": never more holders than the ceiling. *)
PoolWithin(pool, max) == pool.ativos <= max

CeilingRespected == \A p \in Pools : Cardinality(pools[p].holders) <= Max[p]

(* Nobody waits while a slot is free (work conservation). *)
PoolBusyIfQueued(pool, max) == pool.fila # <<>> => pool.ativos = max

NoIdleSlot ==
    \A p \in Pools : pools[p].waiters # {} => Cardinality(pools[p].holders) = Max[p]

(* The queue and the debug map name the same requests, each request is in  *)
(* one place, and the queue is in arrival order.                           *)
PoolCoherent(pool, seq) ==
    /\ pool.waiters = {pool.fila[i] : i \in 1..Len(pool.fila)}
    /\ \A i, j \in 1..Len(pool.fila) : i < j => pool.fila[i] < pool.fila[j]
    /\ \A id \in pool.waiters \cup pool.holders \cup pool.liberados : 0 < id /\ id <= seq
    /\ pool.waiters \cap pool.holders = {}
    /\ pool.liberados \cap (pool.waiters \cup pool.holders) = {}

QueueCoherent == \A p \in Pools : PoolCoherent(pools[p], slotSeq)

(* Everything above at once, the form that is inductive. *)
PoolInv(pool, max, seq) ==
    /\ PoolCounted(pool)
    /\ PoolWithin(pool, max)
    /\ PoolBusyIfQueued(pool, max)
    /\ PoolCoherent(pool, seq)

GateInv == TypeOK /\ \A p \in Pools : PoolInv(pools[p], Max[p], slotSeq)

(* "o resto espera na fila em ordem de chegada": a request that is granted *)
(* in a step leaves no older request of its pool waiting.                  *)
ArrivalOrder(p) ==
    \A novo \in pools'[p].holders \ pools[p].holders :
        \A velho \in pools'[p].waiters : novo < velho

GrantsInArrivalOrder == [][\A p \in Pools : ArrivalOrder(p)]_vars

(* The anti-deadlock guard: whoever waits is granted a slot, even if no    *)
(* caller ever calls its handle.                                           *)
WaitersServed ==
    \A p \in Pools, id \in Ids :
        (id \in pools[p].waiters) ~> (id \in pools[p].holders)

-----------------------------------------------------------------------------
(* What the gate promises, without counter or queue: SlotPool. *)
Promise == INSTANCE SlotPool WITH
               asking  <- [p \in Pools |-> pools[p].waiters],
               holding <- [p \in Pools |-> pools[p].holders]

ImplementsSlotPool == Promise!Safety
=============================================================================
