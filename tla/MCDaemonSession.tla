--------------------------- MODULE MCDaemonSession ---------------------------
(* The instance of DaemonSession that TLC checks: its .cfg files give the constants. *)
EXTENDS DaemonSession
=============================================================================
