SPECIFICATION Spec
CONSTANT Families <- AllWorlds
INVARIANT NoFalseHollow
INVARIANT AccusedIsCompared
INVARIANT ProvenByItself
INVARIANT JudgedByItself
INVARIANT SweepNeedsDescribe
PROPERTY ImplementsLedger
CHECK_DEADLOCK FALSE
