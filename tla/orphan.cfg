SPECIFICATION Spec
CONSTANTS
  MaxCtx = 3
  MaxNode = 2
  Quantum = 1
  Calls <- Family
  WellBehaved = FALSE
  None = None
INVARIANT ZombiesAwaited
CHECK_DEADLOCK FALSE
