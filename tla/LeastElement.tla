--------------------------- MODULE LeastElement ----------------------------
(***************************************************************************)
(* The least-element principle for the naturals, from the well-foundedness *)
(* of < (WellFoundedInduction's WFMin and NatLessThanWellFounded, neither  *)
(* of which takes an operator parameter).  The proofs about the codec's    *)
(* concatenation and the CSV header index argue by a least counterexample *)
(* or a least distance from the end, and cite it by name.                 *)
(***************************************************************************)
EXTENDS WellFoundedInduction, TLAPS

\* Every nonempty set of naturals has a least element.
LEMMA LeastNat ==
  ASSUME NEW T \in SUBSET Nat, T # {}
  PROVE  \E m \in T : \A k \in T : m <= k
<1>1. PICK m \in T : \A y \in T : ~(<<y, m>> \in OpToRel(<, Nat))
  BY NatLessThanWellFounded, WFMin
<1>2. \A y \in T : ~(y < m)
  BY <1>1 DEF OpToRel
<1>. QED  BY <1>2

=============================================================================
