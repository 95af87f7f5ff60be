SPECIFICATION Spec
CONSTANTS
  c1 = c1
  rest = rest
  rpc = rpc
  Clients <- OneClient
  Surfaces <- OneSurface
  Capacity = 1
  MaxConnections = 1
  MaxAuth = 0
  MaxEdits = 0
  Mishaps <- NoMishap
PROPERTIES
  AbandonedIsReaped
