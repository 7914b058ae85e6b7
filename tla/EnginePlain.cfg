SPECIFICATION Spec
CONSTANTS
  N = 2
  K = 2
  FnOf <- DistinctNames
  MaxProbes = 2
  EnvAbort = 1
  Deep = FALSE
  Jvm = FALSE
  Timed = TRUE
INVARIANT TypeOK
INVARIANT Accounted
INVARIANT NoPartialVerdict
INVARIANT RelationalWaits
INVARIANT EnvAbortSound
CHECK_DEADLOCK FALSE
