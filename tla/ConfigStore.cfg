CONSTANTS
  a = a
  b = b
  x = x
  y = y
  v = v
  w = w
  k = k
  p = p
  t = t
  u = u
  None = None
  MaxFaults = 1
  Addresses <- MCAddresses
  Names <- MCNames
  Contents <- MCContents
  Keys <- MCKeys
  Ports <- MCPorts
  Texts <- MCTexts
  NewDevices <- MCNewDevices
  FormDevices <- MCFormDevices
  Changes <- MCChanges

VIEW MCView
SPECIFICATION Spec

INVARIANTS
  CacheExplained

PROPERTIES
  RequestsStayLocal
  CredentialsKept
