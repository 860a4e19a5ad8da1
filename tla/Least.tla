-------------------------------- MODULE Least --------------------------------
(* A nonempty set of numbers has a least member: what the proofs about the  *)
(* oldest sample of a channel and the columns of a line rest on: a least    *)
(* counterexample does the work of an induction.                           *)
EXTENDS Integers, FiniteSets, TLAPS, FiniteSetTheorems, WellFoundedInduction

(* Each number n stands for the finite set 0..n; one of these sets includes *)
(* no other.                                                               *)
LEMMA LeastNumber ==
  ASSUME NEW T \in SUBSET Nat, T # {}
  PROVE  \E n \in T : \A k \in T : n <= k
  <1> DEFINE Upto == {0..n : n \in T}
  <1>1. Upto \subseteq FiniteSubsetsOf(Nat) /\ Upto # {}
    <2>1. \A n \in T : 0..n \in SUBSET Nat /\ IsFiniteSet(0..n)
      BY FS_Interval
    <2> QED  BY <2>1 DEF FiniteSubsetsOf
  <1>2. IsWellFoundedOn(StrictSubsetOrdering(Nat), FiniteSubsetsOf(Nat))
    BY FS_StrictSubsetOrderingWellFounded
  <1>3. PICK x \in Upto : \A y \in Upto : <<y, x>> \notin StrictSubsetOrdering(Nat)
    <2> HIDE DEF Upto
    <2> QED  BY <1>1, <1>2, WFMin
  <1>4. PICK n \in T : x = 0..n  OBVIOUS
  <1>5. ASSUME NEW k \in T, k < n PROVE FALSE
    <2>1. 0..k \in Upto  OBVIOUS
    <2>2. 0..k \subseteq 0..n /\ 0..k # 0..n  BY <1>5
    <2>3. 0..k \in SUBSET Nat /\ 0..n \in SUBSET Nat  OBVIOUS
    <2>4. <<0..k, 0..n>> \in StrictSubsetOrdering(Nat)
      BY <2>2, <2>3 DEF StrictSubsetOrdering
    <2> QED  BY <1>3, <1>4, <2>1, <2>4
  <1> QED  BY <1>5
=============================================================================
