SPECIFICATION Spec
CONSTANTS
  c1 = c1
  rest = rest
  rpc = rpc
  Clients <- OneClient
  Surfaces <- OneSurface
  Capacity = 2
  MaxConnections = 2
  MaxAuth = 2
  MaxEdits = 1
  Mishaps <- NoMishap
INVARIANTS
  TypeOK
  AuthNeverMissed
PROPERTIES
  ImplementsFeed
  GoneIsReaped
  FollowsTheServer
