SPECIFICATION Spec
CONSTANT Commands = {"probe", "explain"}
CHECK_DEADLOCK FALSE
INVARIANT ExitTruthful
INVARIANT DiffKept
