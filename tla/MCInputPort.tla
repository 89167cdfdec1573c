----------------------------- MODULE MCInputPort ------------------------------
(* OmxInputPort on a small instance.                                       *)
EXTENDS OmxInputPort, TLC

Symmetry == Permutations(Bufs)
===============================================================================
