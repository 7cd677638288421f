SPECIFICATION Spec
CONSTANTS
  Requests = {r1, r2}
  Patches <- MCPatches
  Booleans = {"auto_start"}
  Clamps <- MCClamps
  NoValue = NoValue
  Unset = Unset
  Corrupt = Corrupt
  MaxClock = 2
PROPERTIES
  MergesIntoStored
