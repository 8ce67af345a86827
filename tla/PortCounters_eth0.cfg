SPECIFICATION Spec
CONSTANTS
  p1 = p1
  p2 = p2
  Names = {p1, p2}
  Reported = {p1}
  Canonical <- Renamed
  Modulus = 8
  Wrap = 8
  Half = 4
  Limits = {2, 6}
  Bursts = {2, 3}
  Outcomes = {"online"}
  MaxCarried = 9
  MaxBoots = 0
  MaxCum = 9
  None = None
PROPERTIES
  TotalsPersist
