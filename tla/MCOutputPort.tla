----------------------------- MODULE MCOutputPort -----------------------------
(* OmxOutputPort on a small instance.                                      *)
EXTENDS OmxOutputPort, TLC

Symmetry == Permutations(Bufs)
===============================================================================
