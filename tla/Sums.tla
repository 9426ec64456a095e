-------------------------------- MODULE Sums --------------------------------
(***************************************************************************)
(* SUM(...) of the queries and of the properties: a function summed over   *)
(* a finite set.                                                           *)
(***************************************************************************)
EXTENDS FiniteSetsExt

SumOver(f, S) == MapThenSumSet(LAMBDA x : f[x], S)
=============================================================================
