SPECIFICATION Spec
CONSTANTS
  a = a
  b = b
  Tabs = {a, b}
  Families = {f, g}
  MaxSecret = 3
  Slots = {s1, s2}
  Rotations = {r1, r2, r3}
  Mixes <- Combinations
  None = None
INVARIANTS TypeOK FamiliesFallForACause LogoutSticks
CHECK_DEADLOCK FALSE
PROPERTY CallsSettle
