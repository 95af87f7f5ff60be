SPECIFICATION Spec
CONSTANTS
  c1 = c1
  rest = rest
  rpc = rpc
  Clients <- OneClient
  Surfaces <- BothSurfaces
  Capacity = 2
  MaxConnections = 2
  MaxAuth = 0
  MaxEdits = 3
  Mishaps <- AllMishaps
INVARIANTS
  AccountsNeverMissed
