------------------------------- MODULE Sums -------------------------------
(* Sums over sequences and the removal of an element, written as functions of  *)
(* the positions: the provers unfold these, and cannot unfold a fold.          *)
EXTENDS Integers, Sequences

\* The sum of a sequence of numbers.
Total(s) ==
    LET sum[i \in 0..Len(s)] == IF i = 0 THEN 0 ELSE sum[i - 1] + s[i]
    IN sum[Len(s)]

\* The sequence without its i-th element.
Without(s, i) == [j \in 1..Len(s) - 1 |-> IF j < i THEN s[j] ELSE s[j + 1]]
===========================================================================
