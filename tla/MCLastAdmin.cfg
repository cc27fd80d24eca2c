\* Two administrators take each other's rights away at the same time.
SPECIFICATION Spec
CONSTANTS
  Users = {alice, bob}
  Roles = {"admin", "lecteur"}
  Requests = {r1, r2}
  Payloads <- Bodies
  TicksPerSecond = 1
  AccessTtl = 2
  MaxAccess = 2
  MaxTime = 1
  None = None
SYMMETRY Interchangeable
INVARIANT AnAdminRemains
CHECK_DEADLOCK FALSE
