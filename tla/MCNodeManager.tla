---------------------------- MODULE MCNodeManager ----------------------------
(* A small instance of NodeManager for TLC.  Liveness does not go with       *)
(* symmetry.                                                                 *)
EXTENDS NodeManager
=============================================================================
