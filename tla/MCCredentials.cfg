\* Logins, links of a forgotten password and every writer of a password, two at a time.
\* The bounds on the clock, the logs and the links let everything be done.
SPECIFICATION Spec
CONSTANTS
  Emails = {alice, bob}
  Ips = {home, away}
  Passwords = {old, new}
  Links = {l1, l2, l3}
  Requests = {r1, r2}
  Mixes <- Combinations
  MaxPerPair = 1
  MaxPerIp = 1
  MaxPerEmail = 2
  LoginWindow = 1
  MaxLinksPerIp = 2
  MaxLinksPerEmail = 1
  ResetWindow = 1
  LinkTtl = 1
  MaxTime = 1
  MaxAttempts = 3
  None = None
SYMMETRY Interchangeable
INVARIANTS TypeOK GuessesBounded GrantsBounded LiveLinksBounded MailFollowsCommit
PROPERTIES LinkServesOnce LinkDiesForAReason OnlyRacesOverwrite OnlyRacesServeInactive
CHECK_DEADLOCK FALSE
