CONSTANTS
  Clients = {c1, c2, c3}
  Configs <- MCConfigs
  NoValue = NoValue
  NoClient = NoClient
  Features <- MCFeatures
  MaxCalls = 2
  MaxAbandoned = 2
SPECIFICATION Spec
INVARIANTS
  IInv
  CurlIsUp
  InitsAreUndone
  ResultTellsOut
  ClientsHaveTheirFeatures
SYMMETRY MCSymmetry
CHECK_DEADLOCK FALSE
