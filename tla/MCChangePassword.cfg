\* A change of password against a rotation of another device of the account.
SPECIFICATION Spec
CONSTANTS
  Tokens = {t1, t2, t3}
  Users = {alice}
  Passwords = {old, new}
  Requests = {r1, r2}
  Operations = {"login", "refresh", "change_password", "logout"}
  RefreshTtl = 1
  MaxTime = 0
  None = None
SYMMETRY Interchangeable
PROPERTY AllOtherSessionsFall
