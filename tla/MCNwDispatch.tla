---------------------------- MODULE MCNwDispatch ----------------------------
(* Instances of NwDispatch for TLC. *)
EXTENDS NwDispatch
=============================================================================
