SPECIFICATION Spec
CONSTANTS
  MillisMod = 8
  UpdateInterval = 2
  SecondInterval = 3
  TicksPerFrame = 2
  ConnectAttempts = 1
  LinkTimeout = 2
  Builds <- MCBuilds
  Budget <- MCBudget
  MoreLines <- MCMoreLines
INVARIANTS
  PanelShowsLatestLines
  BusReadable
PROPERTIES
  OverlayNeverSkips
  BootEnds
  OverlayRefreshed
