SPECIFICATION Spec
CONSTANTS
  E1 = E1  E2 = E2  E3 = E3  W1 = W1  W2 = W2
  M1 = M1  M2 = M2  M3 = M3  M4 = M4
  None = None  Nil = Nil
  Node = {E1, E2, E3, W1, W2}
  EndNode = {E1, E2, E3}
  Nodes <- AllNodes
  LinkList <- Cables
  Msg = {M1, M2, M3, M4}
  Src <- FromNode
  Dst <- ToNode
  Size <- Sizes
  Automatic = {M2}
  Repeated = {M1, M2, M3}
  BufferSize <- Capacity
  Bandwidth <- Rates
  Tables <- TwoTables
INVARIANTS TypeOK BuffersExact AssertionsHold NoLostWakeup StuckOnlyOnCycles
PROPERTIES Delivery ImplementsChannel
CHECK_DEADLOCK FALSE
