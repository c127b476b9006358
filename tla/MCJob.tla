------------------------------- MODULE MCJob --------------------------------
(* Job with two agents and three segments, so that one agent sorts several  *)
(* and finds blocks of another segment in its scratch directory.            *)
EXTENDS Job
=============================================================================
