------------------------------- MODULE MCDevice -------------------------------
(* OmxDevice on a small instance.                                          *)
EXTENDS OmxDevice, TLC

Symmetry == Permutations(Fds) \cup Permutations(Ctxs)
===============================================================================
