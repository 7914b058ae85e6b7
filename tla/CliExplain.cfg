SPECIFICATION Spec
CONSTANT Commands = {"explain"}
CHECK_DEADLOCK FALSE
INVARIANT ExplainedProven
