SPECIFICATION PrefsSpec
CONSTANTS
  Keys = {"settings", "map_positions"}
  StoredKeys = {"settings"}
  Values = {0, 1}
  Default = 0
  Unloaded = Unloaded
INVARIANTS
  LayoutKept
