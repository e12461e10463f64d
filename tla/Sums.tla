-------------------------------- MODULE Sums --------------------------------
(***************************************************************************)
(* Sums that the components need: the tokens of the periods that passed,   *)
(* the bytes of the buffers of a chain.  A recursive function, which the   *)
(* theorems of SumTheorems are about.                                      *)
(***************************************************************************)
EXTENDS Naturals

(* a[1] + ... + a[n] *)
SumTo(a, n) ==
  LET sum[k \in Nat] == IF k = 0 THEN 0 ELSE sum[k - 1] + a[k]
  IN  sum[n]

=============================================================================
