SPECIFICATION Spec
CONSTANTS
  Nodes <- TwoNodes
  Nil = Nil
  MaxUpdates = 1
  Configured <- Both
  Networks <- SelfLinkedNetwork
INVARIANT EveryLoopReported
CHECK_DEADLOCK FALSE
