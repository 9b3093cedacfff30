-------------------------------- MODULE Sums --------------------------------
(***************************************************************************)
(* The sums of Drive's database code (`sum(...)` over the rows a condition *)
(* picks), of a function that gives each row its number.                   *)
(***************************************************************************)
EXTENDS Integers, FiniteSets, FiniteSetsExt

SumOf(f, S) == MapThenSumSet(LAMBDA x : f[x], S)
=============================================================================
