SPECIFICATION RecordsSpec
CONSTANTS
  Macs = {c1, c2}
  Ips = {a1, a2, a3}
  Observed <- UpToTwo
  NoIp = NoIp
  HourLen = 2
  RollupLag = 2
  CycleLen = 1
  Retentions <- MCRetentions
  Idle = Idle
  MaxTime = 7
  p1 = p1
  p2 = p2
  Names = {p1}
  Reported = {p1}
  Canonical <- Kept
  Modulus = 8
  Wrap = 8
  Half = 4
  Limits = {2, 6}
  Bursts = {2, 3}
  Outcomes = {"online", "zeros", "error"}
  MaxCarried = 9
  MaxBoots = 1
  MaxCum = 9
  None = None
INVARIANTS
  LatestIsActive
  TrendsComplete
  MemoryMatchesStore
  NothingInvented
  NothingLost
  RateIsTraffic
  ResetIsFinal
PROPERTIES
  NewAddressRetiresOthers
  CountedBeforePurged
  TotalsPersist
