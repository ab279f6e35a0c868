------------------------------ MODULE MCDepInfo ------------------------------
(* A small instance of DepInfo for TLC.                                      *)
EXTENDS DepInfo, TLC

Symmetry == Permutations(Holders)
=============================================================================
