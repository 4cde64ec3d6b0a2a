------------------------------ MODULE Ordering ------------------------------
(***************************************************************************)
(* A finite set in an order, as a sequence. The one of SequencesExt looks  *)
(* for it among all the permutations; this one ranks each element, for     *)
(* sets of a dozen and more.                                               *)
(***************************************************************************)
EXTENDS Naturals, FiniteSets

Sorted(S, Before(_, _)) ==
  [k \in 1..Cardinality(S) |->
     CHOOSE e \in S : Cardinality({d \in S : Before(d, e)}) = k - 1]
=============================================================================
