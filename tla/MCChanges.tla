----------------------------- MODULE MCChanges -----------------------------
(***************************************************************************)
(* Instances of Changes for TLC: two changed functions of one name in two  *)
(* files, and one the diff does not touch.                                 *)
(***************************************************************************)
EXTENDS Changes, TLC

CONSTANTS f1, f2, other

TwoOfOneName == [d \in Decls |-> IF d = other THEN "h" ELSE "f"]
Alike == Permutations({f1, f2})
=============================================================================
