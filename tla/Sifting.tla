------------------------------ MODULE Sifting ------------------------------
(* What a filter keeps of a sequence: the elements at the positions it        *)
(* accepts, in their order.                                                   *)
EXTENDS Naturals, Sequences, FiniteSets

(* The place of position k among the positions K, and the position at a place.*)
Rank(K, k) == Cardinality({j \in K : j <= k})
AtRank(K, i) == CHOOSE k \in K : Rank(K, k) = i

Sifted(s, K) == [i \in 1 .. Cardinality(K) |-> s[AtRank(K, i)]]
=============================================================================
