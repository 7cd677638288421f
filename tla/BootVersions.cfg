SPECIFICATION Spec
CONSTANTS
  Kinds = {"plain", "uri", "memory"}
  Owners = {o1, o2}
  Initial = {"none", "mvp"}
  Nobody = Nobody
  MaxClock = 1
  MaxDeaths = 3
INVARIANTS
  VersionsComplete
