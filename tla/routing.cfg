SPECIFICATION Spec
CONSTANTS
  Nodes <- FourNodes
  Nil = Nil
  MaxUpdates = 3
  Configured <- ThreeOfThem
  Networks <- FourNodeNetworks
INVARIANTS ShortestPaths CycleExact NoRoutingLoop
CHECK_DEADLOCK FALSE
