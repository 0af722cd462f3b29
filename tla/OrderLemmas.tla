---------------------------- MODULE OrderLemmas ----------------------------
(***************************************************************************)
(* Facts about the order of the naturals that the proofs of this project   *)
(* keep needing: a non-empty set of naturals has a least element (the      *)
(* Idle step of the executor jumps to the earliest timer; a recursive      *)
(* definition over positions is pinned down at its first disagreement),   *)
(* and an upper bound that belongs to the set is the set's maximum.        *)
(***************************************************************************)
EXTENDS Naturals, WellFoundedInduction, TLAPS

\* The least-number principle, from the well-foundedness of < on Nat.
LEMMA NatSetHasMin ==
    ASSUME NEW S \in SUBSET Nat, S # {}
    PROVE  \E x \in S : \A y \in S : x <= y
<1>1. \E x \in S : \A y \in S : ~(<<y, x>> \in OpToRel(<, Nat))
  BY NatLessThanWellFounded, WFMin
<1>2. \A x, y \in Nat : <<y, x>> \in OpToRel(<, Nat) <=> y < x
  BY DEF OpToRel
<1>3. PICK x \in S : \A y \in S : ~(<<y, x>> \in OpToRel(<, Nat))
  BY <1>1
<1>4. \A y \in S : ~(y < x)
  BY <1>2, <1>3
<1>5. QED
  BY <1>4
=============================================================================
