SPECIFICATION Spec
CONSTANTS
  f1 = f1
  f2 = f2
  other = other
  Decls = {f1, f2, other}
  Changed = {f1, f2}
  InChangedFile = {f1, f2}
  NameOf <- TwoOfOneName
  MaxRecords = 3
SYMMETRY Alike
CHECK_DEADLOCK FALSE
INVARIANT TypeOK
INVARIANT ClaimsBacked
INVARIANT VerdictKept
INVARIANT UntestedTrue
