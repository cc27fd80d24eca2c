\* Rotation, replay, expiry, and the revocations that reopen a session or close an account:
\* two requests on one account, four secrets.
SPECIFICATION Spec
CONSTANTS
  Tokens = {t1, t2, t3, t4}
  Users = {alice}
  Passwords = {old}
  Requests = {r1, r2}
  Operations = {"login", "refresh", "change_password", "set_active"}
  RefreshTtl = 1
  MaxTime = 1
  None = None
SYMMETRY Interchangeable
INVARIANTS TypeOK LiveFamilyHistory ChainsIntact RevocationReachesSeen
PROPERTY SessionSpec
