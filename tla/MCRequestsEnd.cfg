\* Every request ends although it waits on the rows of another and may deadlock with it.
SPECIFICATION FairSpec
CONSTANTS
  Tokens = {t1, t2}
  Users = {alice}
  Passwords = {old}
  Requests = {r1, r2}
  Operations = {"login", "refresh", "logout", "change_password", "logout_all", "change_role",
                "set_active", "reset_password", "confirm_reset"}
  RefreshTtl = 1
  MaxTime = 0
  None = None
PROPERTY RequestsEnd
