SPECIFICATION Spec
CONSTANTS
  ap1 = ap1
  ph1 = ph1
  host1 = host1
  rep1 = rep1
  vm1 = vm1
  ont1 = ont1
  c1 = c1
  c2 = c2
  Devices = {1, 2, 3, 4}
  Ports = {1, 2, 3, 4, 5, 6}
  VirtualPorts = {6}
  VlanPorts = {6}
  AccessPoints = {ap1}
  Infra = {rep1}
  Phones = {ph1}
  Hosts = {host1}
  Unmanaged = {hub}
  Guests = {vm1}
  Clients = {c1, c2}
  Onts = {ont1}
  Internet = Internet
  Elsewhere = Elsewhere
  None = None
  Toward <- MCToward
  Scenes <- MCScenes
INVARIANTS
  CablesDrawn
  ClientsAtTheirPort
  HostsOffTrunks
  HiddenWithDevice
PROPERTIES
  SilentStay
CHECK_DEADLOCK FALSE
