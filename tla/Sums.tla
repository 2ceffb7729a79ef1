-------------------------------- MODULE Sums --------------------------------
(***************************************************************************)
(* Sums of sequences of numbers.                                           *)
(***************************************************************************)
EXTENDS Integers, Sequences

\* The sum of the first i numbers of s, for each i.
Sums(s) ==
  LET sum[i \in 0 .. Len(s)] == IF i = 0 THEN 0 ELSE sum[i - 1] + s[i]
  IN  sum

\* The sum of all numbers of s.
Total(s) == Sums(s)[Len(s)]
=============================================================================
