SPECIFICATION FairSpec
CONSTANTS
  s1 = s1
  s2 = s2
  t1 = t1
  t2 = t2
  Sessions = {s1}
  Tests = {t1, t2}
  Adapters = {"claude", "codex", "copilot"}
  Disks <- Either
INVARIANT BlockIsCurrent
INVARIANT SessionScope
INVARIANT NoRepeat
INVARIANT ResidueSpoken
PROPERTY TurnEnds
PROPERTY SettledTurnEnds
