SPECIFICATION Spec
CONSTANTS
  N = 2
  K = 2
  FnOf <- SharedName
  MaxProbes = 2
  EnvAbort = 2
  Deep = TRUE
  Jvm = TRUE
  Timed = FALSE
INVARIANT HollowEarned
INVARIANT BudgetBound
PROPERTY ImplementsLedger
CHECK_DEADLOCK FALSE
