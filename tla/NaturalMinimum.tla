----------------------------- MODULE NaturalMinimum -----------------------------
(* Induction over an interval of the naturals, in the form of sets.              *)
EXTENDS Integers, WellFoundedInduction, TLAPS

(* A set of naturals that is not empty has a least element.                      *)
LEMMA Minimum ==
  ASSUME NEW T \in SUBSET Nat, T # {}
  PROVE  \E x \in T : \A y \in T : x <= y
<1> DEFINE R == OpToRel(<, Nat)
<1>1. IsWellFoundedOn(R, Nat)
  BY NatLessThanWellFounded
<1> HIDE DEF R
<1>2. \E x \in T : \A y \in T : ~ (<<y, x>> \in R)
  BY <1>1, WFMin
<1>3. PICK x \in T : \A y \in T : ~ (<<y, x>> \in R)
  BY <1>2
<1>4. \A y \in Nat : y < x => <<y, x>> \in R
  BY DEF R, OpToRel
<1>5. x \in Nat /\ \A y \in T : y \in Nat
  OBVIOUS
<1>6. \A y \in T : ~(y < x)
  BY <1>3, <1>4, <1>5
<1>7. \A y \in T : x <= y
  BY <1>5, <1>6
<1> QED
  BY <1>7

(* A set that has m and the successor of each of its elements below n has m to n. *)
LEMMA IntervalInduction ==
  ASSUME NEW S, NEW m \in Nat, NEW n \in Nat,
         m \in S, \A i \in m .. n - 1 : i \in S => i + 1 \in S
  PROVE  m .. n \subseteq S
<1> DEFINE T == {i \in m .. n : i \notin S}
<1>1. T \in SUBSET Nat
  OBVIOUS
<1>2. T = {}
  <2> SUFFICES ASSUME T # {} PROVE FALSE
    OBVIOUS
  <2>1. PICK x \in T : \A y \in T : x <= y
    BY <1>1, Minimum
  <2>2. x \in m .. n /\ x \notin S /\ x # m
    OBVIOUS
  <2>3. x - 1 \in m .. n - 1 /\ x - 1 \notin T
    BY <2>1, <2>2
  <2>4. x - 1 \in S
    BY <2>3
  <2> QED  BY <2>2, <2>3, <2>4
<1> QED
  BY <1>2

==================================================================================
