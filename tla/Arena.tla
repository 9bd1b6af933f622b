-------------------------------- MODULE Arena --------------------------------
(* What the two generational arenas share: the orders in which a batch of  *)
(* slots goes back to a free list.                                         *)
EXTENDS Integers, Sequences, FiniteSets, Functions

(* The sequences that list the elements of Q once each.                    *)
Orders(Q) == Bijection(1..Cardinality(Q), Q)

(* The one that lists them in ascending order.                             *)
Ascending(Q) ==
  {o \in Orders(Q) : \A i, j \in 1..Cardinality(Q) : i < j => o[i] < o[j]}
=============================================================================
