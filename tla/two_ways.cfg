SPECIFICATION Spec
CONSTANTS
  L1a = L1a  L1b = L1b  L1c = L1c  L2a = L2a  L2b = L2b  X = X  Y = Y  Z = Z
  MM = MM  None = None
  Mods = {L1a, MM}
  Cores = {L1a}
  Low <- FlatLow
  Blocks = {X, Y, Z}
  Assoc <- TwoAbove
  MaxAccesses = 3
  MaxInFlight = 3
  Workload <- Anything
SYMMETRY Alike
INVARIANT NoStrandedWaiter
