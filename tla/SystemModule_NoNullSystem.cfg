\* NoNullSystem alone.
SPECIFICATION Spec
CONSTANT MaxLoads = 2
INVARIANT NoNullSystem
CHECK_DEADLOCK FALSE
