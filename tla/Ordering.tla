------------------------------ MODULE Ordering ------------------------------
(***************************************************************************)
(* Finite sets of numbers in their order, and what a sequence holds at the *)
(* positions of such a set.                                                *)
(***************************************************************************)
EXTENDS Naturals, FiniteSets

InOrder(S) == [k \in 1..Cardinality(S) |->
                 CHOOSE i \in S : Cardinality({j \in S : j < i}) = k - 1]

Picked(seq, S) == [k \in DOMAIN InOrder(S) |-> seq[InOrder(S)[k]]]
=============================================================================
