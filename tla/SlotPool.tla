------------------------------ MODULE SlotPool ------------------------------
(***************************************************************************)
(* What the turn gate promises its callers, and nothing about how: at most *)
(* Max[p] requests hold a slot of pool p, a slot that comes free goes at   *)
(* once to somebody who asks, and nobody asks while a slot is free.        *)
(***************************************************************************)
EXTENDS Naturals, FiniteSets

CONSTANTS Pools, Max, Ids

VARIABLES asking, holding

vars == <<asking, holding>>

Init ==
    /\ asking = [p \in Pools |-> {}]
    /\ holding = [p \in Pools |-> {}]

Fresh(id) == \A p \in Pools : id \notin asking[p] \cup holding[p]

Enter(p, id) ==
    /\ Cardinality(holding[p]) < Max[p]
    /\ holding' = [holding EXCEPT ![p] = @ \cup {id}]
    /\ UNCHANGED asking
    /\ Fresh(id)

Queue(p, id) ==
    /\ Cardinality(holding[p]) = Max[p]
    /\ asking' = [asking EXCEPT ![p] = @ \cup {id}]
    /\ UNCHANGED holding
    /\ Fresh(id)

Leave(p, id) ==
    /\ id \in holding[p]
    /\ asking[p] = {}
    /\ holding' = [holding EXCEPT ![p] = @ \ {id}]
    /\ UNCHANGED asking

HandOver(p, id, next) ==
    /\ id \in holding[p]
    /\ next \in asking[p]
    /\ holding' = [holding EXCEPT ![p] = (@ \ {id}) \cup {next}]
    /\ asking' = [asking EXCEPT ![p] = @ \ {next}]

Next ==
    \E p \in Pools :
        \/ \E id \in Ids : Enter(p, id) \/ Queue(p, id)
        \/ \E id \in holding[p] : Leave(p, id) \/ \E next \in asking[p] : HandOver(p, id, next)

Safety == Init /\ [][Next]_vars
=============================================================================
