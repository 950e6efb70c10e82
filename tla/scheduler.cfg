SPECIFICATION Spec
CONSTANTS
  MaxCtx = 3
  MaxNode = 2
  Quantum = 1
  Calls <- Family
  WellBehaved = TRUE
  None = None
INVARIANTS TypeOK MappingExact NoLostWakeup ZombiesAwaited
PROPERTY EveryoneRuns
CHECK_DEADLOCK FALSE
