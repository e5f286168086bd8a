----------------------------- MODULE Positions ------------------------------
(***************************************************************************)
(* Picking elements of a sequence by their positions: what Rust's filter   *)
(* and find do over a slice, by cardinalities and not by recursion, so     *)
(* that what is picked can be reasoned about.                              *)
(***************************************************************************)
EXTENDS Integers, Sequences, FiniteSets

\* The k-th smallest of a set of numbers.
Nth(S, k) == CHOOSE i \in S : Cardinality({j \in S : j < i}) = k - 1

\* The elements at the given positions, in their order.
Chosen(seq, positions) == [k \in 1..Cardinality(positions) |-> seq[Nth(positions, k)]]

\* The sum of a sequence of numbers.
Total(numbers) ==
  LET sum[n \in 0..Len(numbers)] == IF n = 0 THEN 0 ELSE sum[n - 1] + numbers[n]
  IN  sum[Len(numbers)]
=============================================================================
