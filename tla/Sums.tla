-------------------------------- MODULE Sums --------------------------------
(***************************************************************************)
(* The sum of the weights of the elements of a finite set.                 *)
(***************************************************************************)
EXTENDS FiniteSetsExt

\* weight is a function whose domain contains S.
SumOf(weight, S) == MapThenSumSet(LAMBDA x : weight[x], S)

=============================================================================
