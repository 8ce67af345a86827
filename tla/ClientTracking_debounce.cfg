SPECIFICATION Spec
CONSTANTS
  n1 = n1
  n2 = n2
  n3 = n3
  n4 = n4
  n5 = n5
  p1 = p1
  q1 = q1
  noport = noport
  NoPort = noport
  None = None
  Macs = {c1}
  Nodes <- MCNodes
  Ports <- MCPorts
  Lower <- KeepCase
  VirtualPorts = {}
  Reports <- TwoPlaces
  LinkReports <- NoLinks
  MapPlaces <- NoMap
  Debounce = 2
  Window = 4
  CleanupWindow = 3
  MaxTime = 5
PROPERTIES
  DebouncedRoamAccepted
CHECK_DEADLOCK FALSE
