SPECIFICATION Spec
CONSTANT Families <- RebindWorlds
INVARIANT HollowNoticesNothing
CHECK_DEADLOCK FALSE
