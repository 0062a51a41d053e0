---------------------------------- MODULE Sums ----------------------------------
(* Sums of the values of a function. *)
EXTENDS Integers, FiniteSets, FiniteSetsExt

SumOver(f, S) == MapThenSumSet(LAMBDA x : f[x], S)
Total(f) == SumOver(f, DOMAIN f)

================================================================================
