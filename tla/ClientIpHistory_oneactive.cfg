SPECIFICATION IpSpec
CONSTANTS
  Macs = {c1}
  Ips = {a1, a2}
  Observed <- UpToTwo
  NoIp = NoIp
INVARIANTS
  OneActiveAddress
