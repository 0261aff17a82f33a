-------------------------------- MODULE Sums --------------------------------
(* Sums of functions from a finite set to numbers.                         *)
EXTENDS Integers, Functions

Sum(f) == FoldFunction(+, 0, f)
=============================================================================
