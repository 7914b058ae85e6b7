--------------------------- MODULE MCProbeEngine ---------------------------
(***************************************************************************)
(* Instances of ProbeEngine for TLC.                                       *)
(***************************************************************************)
EXTENDS ProbeEngine

\* Entry e is function e of its own file: no two entries share a name.
DistinctNames == [e \in 1 .. K |-> e]

\* The entries of a block are functions of one name in several files.
SharedName == [e \in 1 .. K |-> 1]
=============================================================================
