---------------------------- MODULE MCDaemonPool -----------------------------
(* The instance of DaemonPool that TLC checks: its .cfg files give the constants. *)
EXTENDS DaemonPool
=============================================================================
