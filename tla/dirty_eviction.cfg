SPECIFICATION Spec
CONSTANTS
  L1a = L1a  L1b = L1b  L1c = L1c  L2a = L2a  L2b = L2b  X = X  Y = Y  Z = Z
  MM = MM  None = None
  Mods = {L1a, L1b, L2a, MM}
  Cores = {L1a, L1b}
  Low <- SharedLow
  Blocks = {X, Y}
  Assoc <- OneWay
  MaxAccesses = 2
  MaxInFlight = 1
  Workload <- StoreAndEvict
INVARIANT DataSurvives
