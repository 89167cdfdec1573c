-------------------------------- MODULE MCTde ---------------------------------
(* TdeJobList on a small instance.                                         *)
EXTENDS TdeJobList, TLC

Symmetry == Permutations(Slots)
===============================================================================
