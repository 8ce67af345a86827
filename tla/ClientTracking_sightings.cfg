SPECIFICATION Spec
CONSTANTS
  n1 = n1
  n2 = n2
  n3 = n3
  n4 = n4
  n5 = n5
  p1 = p1
  q1 = q1
  noport = noport
  NoPort = noport
  None = None
  Macs = {c1}
  Nodes <- FiveNodes
  Ports <- MCPorts
  Lower <- FoldCase
  VirtualPorts = {}
  Reports <- MixedSightings
  LinkReports <- OneLink
  MapPlaces <- OnTheMap
  Debounce = 1
  Window = 3
  CleanupWindow = 2
  MaxTime = 4
INVARIANTS
  PathConnected
  LocationIsReported
  AnnouncedFirst
  NoRevisit
  RoamBudget
PROPERTIES
  RowExplained
CHECK_DEADLOCK FALSE
SYMMETRY AlikeNodes
