SPECIFICATION Spec
CONSTANTS
  L1a = L1a  L1b = L1b  L1c = L1c  L2a = L2a  L2b = L2b  X = X  Y = Y  Z = Z
  MM = MM  None = None
  Mods = {L1a, L1b, L2a, L2b, MM}
  Cores = {L1a, L1b}
  Low <- SplitLow
  Blocks = {X, Y}
  Assoc <- TwoBelow
  MaxAccesses = 4
  MaxInFlight = 1
  Workload <- Reread
INVARIANT SingleWriter
