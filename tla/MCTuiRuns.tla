------------------------------ MODULE MCTuiRuns ------------------------------
(* The instance of TuiRuns that TLC checks: its bounds are in TuiRuns.cfg.  *)
EXTENDS TuiRuns
==============================================================================
