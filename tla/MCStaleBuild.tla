---------------------------- MODULE MCStaleBuild ----------------------------
(***************************************************************************)
(* Instances of StaleBuild for TLC: two functions in one file, and one in  *)
(* another file that has the name of the first.                            *)
(***************************************************************************)
EXTENDS StaleBuild

CONSTANTS f, g, h

SharedName == [fn \in Fns |-> IF fn = g THEN "g" ELSE "f"]
TwoFiles == [fn \in Fns |-> IF fn = h THEN "Other.kt" ELSE "Sut.kt"]
AppModule == [file \in {"Sut.kt", "Other.kt"} |-> "app"]
=============================================================================
