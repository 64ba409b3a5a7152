--------------------------- MODULE MCSessionStore ---------------------------
(* Instances of SessionStore for TLC: a TUI that batches its checkpoints and   *)
(* rewinds, and an exec that captures at once and forks.  See the cfg files.  *)
EXTENDS SessionStore
=============================================================================
