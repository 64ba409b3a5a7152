------------------------------- MODULE MCSwarm -------------------------------
(* The instance of Swarm that TLC checks: its .cfg files give the constants. *)
EXTENDS Swarm
=============================================================================
