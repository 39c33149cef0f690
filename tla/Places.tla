------------------------------- MODULE Places -------------------------------
(***************************************************************************)
(* Sets of places in a sequence, taken in their order.                     *)
(***************************************************************************)
EXTENDS Integers, FiniteSets

(* How many places of S there are up to i, and the k-th of them. *)
RankIn(S, i) == Cardinality({j \in S : j <= i})
Nth(S, k) == CHOOSE i \in S : RankIn(S, i) = k

(* The places of S one after the other. *)
InOrderOf(S) == [k \in 1..Cardinality(S) |-> Nth(S, k)]
=============================================================================
