SPECIFICATION PollerSpec
CONSTANTS
  Devices = {d1, d2}
  MaxRestarts = 1
  r = r
  s = s
  a = a
  h = h
  up = up
  down = down
  p = p
  noport = noport
  Nodes = {r, s, a, h}
  Ports <- MCPorts
  NoPort = noport
  Lower <- KeepCase
  VirtualPorts = {}
  Clients = {c1, c2}
  Role <- MCRole
  Hosts = {h}
  Toward <- MCToward
  Attach <- MCAttach
  Orders <- MCOrders
  NoPlace = NoPlace
  Addresses = {ip1, ip2}
  HostNames = {name1}
  Unresolved = Unresolved
  Threads = 1
  Ttl = 2
  MaxHostTime = 4
  e1 = e1
  e2 = e2
  MacEntries = {e1, e2}
  RealTables <- MCTables
  Period = 1
  Nothing = Nothing
INVARIANTS
  CyclesExclusive
  PendingIsWork
  NamesAreFresh
PROPERTIES
  TargetsStayShown
  DisabledDisappears
  EnabledAppears
  TableCatchesUp
  LeafFound
  NoGhostMove
  LookupsEnd
