SPECIFICATION Spec
CONSTANTS
  Requests = {r1, r2}
  Patches <- MCPatches
  Permitted = {"timezone", "route_opacity", "color"}
  Defaults <- MCDefaults
  TimeZones = {"Asia/Tokyo", "Europe/Paris"}
  Spelling <- MCSpelling
  Older <- MCOlder
INVARIANTS
  IInv
PROPERTIES
  UnitChosen
  FrozenByPatch
  PatchIsolated
