-------------------------- MODULE MCBackgroundTasks --------------------------
(* The instance of BackgroundTasks that TLC checks: its .cfg files give the constants. *)
EXTENDS BackgroundTasks
=============================================================================
