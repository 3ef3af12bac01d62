---------------------------- MODULE NaturalFacts ----------------------------
(***************************************************************************)
(* The least and the greatest of a set of numbers, which the selections of *)
(* the models (the first frame of low priority, the newest sample that is  *)
(* old enough) take.                                                       *)
(***************************************************************************)
EXTENDS Integers, WellFoundedInduction, TLAPS

(* A set of numbers that is not empty has a least one.                     *)
LEMMA NatHasLeast ==
    ASSUME NEW S \in SUBSET Nat, S # {}
    PROVE  \E n \in S : \A m \in S : n <= m
<1>1. IsWellFoundedOn(OpToRel(<, Nat), Nat)
  BY NatLessThanWellFounded
<1>2. \E n \in S : \A m \in S : <<m, n>> \notin OpToRel(<, Nat)
  BY <1>1, WFMin
<1>3. \A m, n \in Nat : <<m, n>> \notin OpToRel(<, Nat) => n <= m
  BY DEF OpToRel
<1> QED BY <1>2, <1>3

(* One that is bounded has a greatest. *)
LEMMA NatHasGreatest ==
    ASSUME NEW top \in Nat, NEW S \in SUBSET (0 .. top), S # {}
    PROVE  \E n \in S : \A m \in S : n >= m
<1> DEFINE T == {t \in Nat : \E m \in S : t = top - m}
<1>1. \A m \in S : m \in Int /\ top - m \in Nat /\ top - m \in T
  OBVIOUS
<1>2. T # {} /\ T \in SUBSET Nat
  <2>1. PICK x : x \in S
    OBVIOUS
  <2> QED BY <1>1, <2>1
<1>3. \A t \in T : \E m \in S : t = top - m
  OBVIOUS
<1> HIDE DEF T
<1>4. PICK t \in T : \A u \in T : t <= u
  BY <1>2, NatHasLeast
<1>5. PICK n \in S : t = top - n
  BY <1>3, <1>4
<1>6. \A m \in S : top - n <= top - m
  BY <1>1, <1>4, <1>5
<1> QED BY <1>1, <1>6
=============================================================================
