----------------------------- MODULE MCAgentLoop -----------------------------
(* The instance of AgentLoop that TLC checks: its .cfg files give the constants. *)
EXTENDS AgentLoop
=============================================================================
