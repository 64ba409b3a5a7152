----------------------------- MODULE MCTokenLock -----------------------------
(* The instance of TokenLock that TLC checks: its .cfg files give the constants. *)
EXTENDS TokenLock
=============================================================================
