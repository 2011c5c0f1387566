-------------------------------- MODULE Sums --------------------------------
(* The sum of the first n numbers of a sequence. *)
EXTENDS Naturals

Total(numbers, n) ==
  LET total[k \in 0..n] == IF k = 0 THEN 0 ELSE total[k - 1] + numbers[k]
  IN  total[n]

=============================================================================
