-------------------------- MODULE MCDaemonRegistry --------------------------
(* Instances of DaemonRegistry for TLC.                                     *)
EXTENDS DaemonRegistry, TLC

\* Session ids are interchangeable.
IdSymmetry == Permutations(Ids)
=============================================================================
