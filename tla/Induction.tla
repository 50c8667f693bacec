----------------------------- MODULE Induction ------------------------------
(***************************************************************************)
(* Induction over naturals as the proofs of this project use it.  The      *)
(* library's induction theorems take the formula as a parameter; here it   *)
(* is the set of its counterexamples, whose least element is refuted.      *)
(***************************************************************************)
EXTENDS Integers, WellFoundedInduction, TLAPS

(* A non-empty set of naturals has a least element.  What page_windows and *)
(* normalizeSearchResults compute in their loops is proved with it.        *)
LEMMA LeastNatural ==
  ASSUME NEW T \in SUBSET Nat, T # {}
  PROVE  \E n \in T : \A m \in T : n <= m
<1> DEFINE R == OpToRel(<, Nat)
<1>1. IsWellFoundedOn(R, Nat)
  BY NatLessThanWellFounded, Zenon
<1>2. \A m, n \in Nat : <<m, n>> \in R <=> m < n
  BY DEF OpToRel
<1> HIDE DEF R
<1>3. PICK x \in T : \A y \in T : ~ (<<y, x>> \in R)
  BY <1>1, WFMin
<1>4. \A y \in T : ~ (y < x) /\ y \in Nat /\ x \in Nat
  BY <1>2, <1>3
<1>5. \A y \in T : x <= y
  BY <1>4
<1> QED BY <1>5
=============================================================================
