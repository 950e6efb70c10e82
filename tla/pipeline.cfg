SPECIFICATION Spec
CONSTANTS
  Ax = Ax
  Zf = Zf
  Loreg = {Ax, Zf}
  Flag = {Zf}
  Size = 3
  Menu <- Uops
  RobSize = 3
  IqSize = 2
  LsqSize = 2
  MaxAccess = 1
  Start <- First
INVARIANTS TypeOK RegistersExact RenamingExact PendingHasProducer
PROPERTY NoCommitStall
