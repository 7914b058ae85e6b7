----------------------------- MODULE MCStopGate -----------------------------
(***************************************************************************)
(* Instances of StopGate for TLC.                                          *)
(***************************************************************************)
EXTENDS StopGate

CONSTANTS s1, t1, t2

\* Writes of the memo may fail, or they may not.
Either == BOOLEAN
=============================================================================
