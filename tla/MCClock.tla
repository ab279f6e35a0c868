------------------------------- MODULE MCClock -------------------------------
(* Small instances of Clock for TLC.  The sets are model values; calls and   *)
(* inputs are interchangeable, so safety runs use the symmetry of both.      *)
EXTENDS Clock, TLC

Symmetry == Permutations(Calls) \cup Permutations(Inputs)
=============================================================================
