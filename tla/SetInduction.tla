---------------------------- MODULE SetInduction ----------------------------
(***************************************************************************)
(* Induction stated with sets where the library states it with predicates: *)
(* "P holds of every n" is "the set of those n of which P holds contains   *)
(* every n", which the provers can instantiate.  The recursive functions   *)
(* of the models are reasoned about with these lemmas.                     *)
(***************************************************************************)
EXTENDS FiniteSetTheorems, WellFoundedInduction, TLAPS

(* A set of natural numbers that is not empty has a least element.         *)
LEMMA LeastElement ==
    ASSUME NEW T \in SUBSET Nat, T # {}
    PROVE  \E x \in T : \A y \in T : x <= y
<1> DEFINE R == {ss \in Nat \X Nat : ss[1] < ss[2]}
<1>1. IsWellFoundedOn(R, Nat)
  <2>1. R = OpToRel(<, Nat)
    BY DEF OpToRel
  <2> QED BY <2>1, NatLessThanWellFounded
<1>2. PICK x \in T : \A y \in T : <<y, x>> \notin R
  <2> HIDE DEF R
  <2> QED BY <1>1, WFMin
<1>3. ASSUME NEW y \in T, y < x PROVE FALSE
  <2>1. <<y, x>> \in R
    BY <1>3
  <2> QED BY <2>1, <1>2
<1> QED
  <2> HIDE DEF R
  <2> QED BY <1>3

(* Induction from 0 to a number.                                           *)
LEMMA IntervalInduction ==
    ASSUME NEW N \in Nat, NEW T,
           0 \in T,
           \A n \in 1 .. N : n - 1 \in T => n \in T
    PROVE  \A n \in 0 .. N : n \in T
<1> DEFINE Bad == {n \in 0 .. N : n \notin T}
<1> SUFFICES ASSUME Bad # {} PROVE FALSE
  OBVIOUS
<1>1. PICK n \in Bad : \A k \in Bad : n <= k
  <2>1. Bad \in SUBSET Nat
    OBVIOUS
  <2> HIDE DEF Bad
  <2> QED BY <2>1, LeastElement
<1>2. n \in 1 .. N /\ n - 1 \notin Bad
  BY <1>1
<1> QED BY <1>2

(* Induction over the subsets of a finite set, by their size.              *)
LEMMA SubsetInduction ==
    ASSUME NEW S, IsFiniteSet(S), NEW T,
           {} \in T,
           \A A \in SUBSET S : A # {} /\ (\A x \in A : A \ {x} \in T) => A \in T
    PROVE  \A A \in SUBSET S : A \in T
<1> DEFINE Good == {n \in Nat : \A A \in SUBSET S : Cardinality(A) = n => A \in T}
<1>1. \A A \in SUBSET S : IsFiniteSet(A) /\ Cardinality(A) \in 0 .. Cardinality(S)
  BY FS_Subset, FS_CardinalityType
<1>2. Cardinality(S) \in Nat
  BY FS_CardinalityType
<1>3. 0 \in Good
  BY <1>1, FS_EmptySet
<1>4. ASSUME NEW n \in 1 .. Cardinality(S), n - 1 \in Good PROVE n \in Good
  <2> SUFFICES ASSUME NEW A \in SUBSET S, Cardinality(A) = n PROVE A \in T
    BY <1>2
  <2>1. A # {}
    BY <1>2, FS_EmptySet
  <2>2. ASSUME NEW x \in A PROVE A \ {x} \in T
    <3>1. Cardinality(A \ {x}) = n - 1
      BY <1>1, FS_RemoveElement
    <3> QED BY <3>1, <1>4
  <2> QED BY <2>1, <2>2
<1>5. \A n \in 0 .. Cardinality(S) : n \in Good
  <2> HIDE DEF Good
  <2> QED BY <1>2, <1>3, <1>4, IntervalInduction
<1> QED BY <1>1, <1>5
=============================================================================
