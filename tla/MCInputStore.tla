----------------------------- MODULE MCInputStore -----------------------------
(* Small instances of InputStore for TLC.                                    *)
EXTENDS InputStore, TLC

Symmetry == Permutations(Calls) \cup Permutations(Inputs)
=============================================================================
