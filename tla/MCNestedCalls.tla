---------------------------- MODULE MCNestedCalls ----------------------------
(* A small instance of NestedCalls for TLC.                                  *)
EXTENDS NestedCalls
=============================================================================
