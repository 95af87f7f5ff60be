SPECIFICATION Spec
CONSTANTS
  a = a
  b = b
  c = c
  None = None
  Launches <- ThreeLaunches
  Sidecars <- OneSidecar
  PortScanLimit = 2
  Worlds <- OwnWorlds
CHECK_DEADLOCK FALSE
PROPERTIES
  ExitSparesTheRestored
