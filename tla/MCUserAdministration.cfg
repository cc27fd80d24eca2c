\* Two requests on two accounts: roles, activation, passwords and the tokens they kill.
SPECIFICATION Spec
CONSTANTS
  Users = {alice, bob}
  Roles = {"admin", "lecteur"}
  Requests = {r1, r2}
  Payloads <- Bodies
  TicksPerSecond = 2
  AccessTtl = 2
  MaxAccess = 2
  MaxTime = 2
  None = None
SYMMETRY Interchangeable
INVARIANT TypeOK
PROPERTIES OnlyRacesRemoveTheLastAdmin RefusedForGood OlderTokensDie MintedTokensWork
CHECK_DEADLOCK FALSE
