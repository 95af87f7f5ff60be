SPECIFICATION Spec
CONSTANTS
  a = a
  b = b
  Worlds <- CheckedWorlds
  StaleAfter = 1
  PrimeCooldown = 2
  MaxListings = 2
  MaxEvents = 3
  RateLimit = 1
INVARIANTS
  TypeOK
  PayloadFaithful
  TurnsComeBack
PROPERTIES
  CatalogHeals
  UsageIsTold
