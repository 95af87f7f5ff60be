SPECIFICATION Spec
CONSTANTS
  c1 = c1
  rest = rest
  rpc = rpc
  Clients <- OneClient
  Surfaces <- BothSurfaces
  Capacity = 2
  MaxConnections = 1
  MaxAuth = 0
  MaxEdits = 2
  Mishaps <- NoMishap
INVARIANTS
  BroadcastsConverge
