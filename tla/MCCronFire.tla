----------------------------- MODULE MCCronFire ------------------------------
(* The instance of CronFire that TLC checks: its .cfg files give the constants. *)
EXTENDS CronFire
=============================================================================
