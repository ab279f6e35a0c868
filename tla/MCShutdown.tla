------------------------------ MODULE MCShutdown ------------------------------
(* A small instance of Shutdown for TLC.  Liveness does not go with symmetry.*)
EXTENDS Shutdown
=============================================================================
