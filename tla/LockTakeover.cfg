SPECIFICATION FairSpec
CONSTANTS
  p1 = p1
  p2 = p2
  p3 = p3
  Procs = {p1, p2}
  RepoOf <- OneRepo
  MaxRounds = 2
INVARIANT ExclusionUnlessStolen
PROPERTY ReleaseDropsOwn
PROPERTY LiveWorkKept
PROPERTY LoneRunGetsIn
PROPERTY OrphanReaped
CHECK_DEADLOCK FALSE
