----------------------------- MODULE MCRepoLock -----------------------------
(***************************************************************************)
(* Instances of RepoLock for TLC.                                          *)
(***************************************************************************)
EXTENDS RepoLock

CONSTANTS p1, p2, p3

OneRepo == [p \in Procs |-> "repo"]
=============================================================================
