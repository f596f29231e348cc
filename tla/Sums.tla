-------------------------------- MODULE Sums --------------------------------
(* What a pass over a sequence makes of it: a loop of the code that keeps  *)
(* some state, and steps from each element to the next.  And what a sort   *)
(* makes of a set.                                                         *)
EXTENDS Integers, Sequences, FiniteSets

Folded(step, first, s) ==
    LET after[n \in 0..Len(s)] == IF n = 0 THEN first ELSE step[after[n - 1]][s[n]]
    IN  after[Len(s)]

SumOf(s) == Folded([n \in Int |-> [m \in Int |-> n + m]], 0, s)

(* The members of K in an order, given by its pairs: each comes after as   *)
(* many as are before it.                                                  *)
Rank(k, K, order) == Cardinality({j \in K : <<j, k>> \in order}) + 1
Ranked(K, order) == [i \in 1..Cardinality(K) |-> CHOOSE k \in K : Rank(k, K, order) = i]

UpTo(s, n) == SubSeq(s, 1, IF Len(s) < n THEN Len(s) ELSE n)
=============================================================================
