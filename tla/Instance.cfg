SPECIFICATION Spec
CONSTANTS
  a = a
  b = b
  c = c
  None = None
  Launches <- ThreeLaunches
  Sidecars <- OneSidecar
  PortScanLimit = 2
  Worlds <- CheckedWorlds
INVARIANTS
  TypeOK
  MarkerTellsTheLastEnd
  LoneSessionKeepsItsTraces
CHECK_DEADLOCK FALSE
PROPERTIES
  ExitGivesSettingsBack
  ShutdownEnds
  EveryLaunchSettles
