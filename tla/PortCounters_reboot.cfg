SPECIFICATION Spec
CONSTANTS
  p1 = p1
  p2 = p2
  Names = {p1}
  Reported = {p1}
  Canonical <- Kept
  Modulus = 8
  Wrap = 8
  Half = 4
  Limits = {2, 6}
  Bursts = {2, 3}
  Outcomes = {"online"}
  MaxCarried = 9
  MaxBoots = 1
  MaxCum = 20
  None = None
INVARIANTS
  TrafficNotInvented
