----------------------------- MODULE PrefixSums -----------------------------
(* Sums of the numbers a sequence begins with *)
EXTENDS Integers, Sequences

(* Sums(s)[k] is the sum of the first k numbers of s *)
Sums(s) ==
  LET sum[k \in 0..Len(s)] == IF k = 0 THEN 0 ELSE sum[k - 1] + s[k]
  IN  sum

SumOf(s) == Sums(s)[Len(s)]
=============================================================================
