---------------------------------- MODULE Sums ----------------------------------
(***************************************************************************)
(* The sum of the first n values of a sequence of integers, as a recursive *)
(* function, so that module Sums_proofs can reason about it.               *)
(***************************************************************************)
EXTENDS Integers

SumTo(f, n) ==
  LET upTo[k \in 0 .. n] == IF k = 0 THEN 0 ELSE upTo[k - 1] + f[k]
  IN upTo[n]
===============================================================================
