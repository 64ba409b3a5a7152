--------------------------- MODULE MCProcessManager ---------------------------
(* The instance of ProcessManager that TLC checks: its .cfg gives the constants. *)
EXTENDS ProcessManager
===============================================================================
