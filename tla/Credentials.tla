------------------------------ MODULE Credentials ------------------------------
(***************************************************************************)
(* Everything that reads or writes the password of an account: logins and  *)
(* their sliding limits, the links of a forgotten password, the change,    *)
(* the reset by an administrator, activation and creation.  Requests are   *)
(* READ COMMITTED transactions, one step per SQL statement; the hash of a  *)
(* password lies between the step that reads and the step that writes.     *)
(*                                                                         *)
(* The sessions these requests open and revoke are in RefreshSessions.     *)
(***************************************************************************)
EXTENDS Naturals, Sequences, FiniteSets

CONSTANTS Emails,      \* identifiers, each with one account at most
          Ips,         \* client addresses
          Passwords,
          Links,       \* secrets of password_reset_token, one row each
          Requests,    \* requests in flight at once
          Mixes,       \* what clients may ask for, whose and from where, one per behaviour
          MaxPerPair, MaxPerIp, MaxPerEmail,    \* LoginPolicy
          LoginWindow,
          MaxLinksPerIp, MaxLinksPerEmail,      \* PasswordResetPolicy
          ResetWindow,
          LinkTtl,
          MaxTime,     \* bound on the clock
          MaxAttempts, \* bound on each log of attempts
          None

ASSUME LimitsAssumption ==
  {MaxPerPair, MaxPerIp, MaxPerEmail, LoginWindow, MaxLinksPerIp, MaxLinksPerEmail,
   ResetWindow, LinkTtl} \subseteq Nat \ {0}

ASSUME BoundsAssumption == MaxTime \in Nat /\ MaxAttempts \in Nat /\ IsFiniteSet(Requests)

VARIABLES account, accountDraft, accountHolder,  \* table app_user, by email
          link, linkDraft, linkHolder,           \* table password_reset_token
          log,       \* login_attempt and password_reset_attempt, in order of commit
          outbox,    \* links whose mail is a background task not yet run
          mailed,    \* links whose mail arrived
          request,   \* each request in flight
          mix,       \* what is asked for in this behaviour
          now

tables == <<account, accountDraft, accountHolder, link, linkDraft, linkHolder>>
vars == <<account, accountDraft, accountHolder, link, linkDraft, linkHolder,
          log, outbox, mailed, request, mix, now>>

A == INSTANCE ReadCommitted
       WITH Keys <- Emails, Txns <- Requests, Nobody <- None, NoRow <- None,
            committed <- account, draft <- accountDraft, holder <- accountHolder

L == INSTANCE ReadCommitted
       WITH Keys <- Links, Txns <- Requests, Nobody <- None, NoRow <- None,
            committed <- link, draft <- linkDraft, holder <- linkHolder

-----------------------------------------------------------------------------
(* Rows and requests *)

\* mustChange is must_change_password.
AccountRow == [password : Passwords, active : BOOLEAN, mustChange : BOOLEAN]

LinkRow == [user : Emails, expires : Nat, consumed : BOOLEAN]

\* A row of either log.  A successful login is in no count and is left out.  The table
\* of reset attempts has no outcome: there it is history, which no step reads.
Outcomes == {"throttled", "refused", "granted"}

Attempt == [email : Emails, ip : Ips, at : Nat, outcome : Outcomes]

ASSUME NoneAssumption ==
  None \notin Emails \cup Ips \cup Passwords \cup Links \cup Requests \cup AccountRow \cup LinkRow

Ops == {"none", "login", "link", "confirm", "change_password", "reset_password",
        "set_active", "create"}

\* Where a request is, named after what it is about to execute.
Stages == {"idle", "read", "fail", "rehash", "touch", "invalidate", "sweep", "issue", "claim",
           "reread", "password", "activate", "create", "commit"}

\* started is the start of the transaction, which now() stamps rows with; old is the
\* password presented and new the one to write; left are the rows the bulk UPDATE has still
\* to visit.  stale is history: the account was changed by another since it was read.
Request == [op : Ops, at : Stages, email : Emails \cup {None}, ip : Ips \cup {None},
            started : Nat, link : Links \cup {None}, old : Passwords \cup {None},
            new : Passwords \cup {None}, active : BOOLEAN, left : SUBSET Links,
            outcome : Outcomes, stale : BOOLEAN]

Idle == [op |-> "none", at |-> "idle", email |-> None, ip |-> None, started |-> 0,
         link |-> None, old |-> None, new |-> None, active |-> TRUE, left |-> {},
         outcome |-> "refused", stale |-> FALSE]

Init ==
  /\ mix \in Mixes
  /\ account \in [Emails -> [password : Passwords, active : {TRUE}, mustChange : {FALSE}]
                             \cup {None}]
  /\ \A e \in Emails \ mix.emails : account[e] = None
  /\ accountDraft = [e \in Emails |-> None]
  /\ accountHolder = accountDraft
  /\ link = [l \in Links |-> None]
  /\ linkDraft = link
  /\ linkHolder = link
  /\ log = [kind \in {"login", "link"} |-> <<>>]
  /\ outbox = {}
  /\ mailed = {}
  /\ request = [x \in Requests |-> Idle]
  /\ now = 0

-----------------------------------------------------------------------------
(* The sliding limits *)

\* Mutant: the window is counted from its far end, and forgets the newest rows.
RecentBackwards(kind, window) == {n \in DOMAIN log[kind] : log[kind][n].at + window <= now}

Recent(kind, window) == {n \in DOMAIN log[kind] : log[kind][n].at + window > now}

Of(kind, rows, e) == {n \in rows : log[kind][n].email = e}
From(kind, rows, i) == {n \in rows : log[kind][n].ip = i}

\* Three counts of one query; the outcome that is not counted is the success.
MayTry(e, i) ==
  LET recent == Recent("login", LoginWindow)
  IN /\ Cardinality(From("login", Of("login", recent, e), i)) < MaxPerPair
     /\ Cardinality(From("login", recent, i)) < MaxPerIp
     /\ Cardinality(Of("login", recent, e)) < MaxPerEmail

\* Mutant: the threshold itself passes.
MayAskTooOften(e, i) ==
  LET recent == Recent("link", ResetWindow)
  IN /\ Cardinality(Of("link", recent, e)) <= MaxLinksPerEmail
     /\ Cardinality(From("link", recent, i)) <= MaxLinksPerIp

MayAsk(e, i) ==
  LET recent == Recent("link", ResetWindow)
  IN /\ Cardinality(Of("link", recent, e)) < MaxLinksPerEmail
     /\ Cardinality(From("link", recent, i)) < MaxLinksPerIp

-----------------------------------------------------------------------------
(* Starting a request: the call, and the first statement *)

InFlight(op) == Cardinality({x \in Requests : request[x].op = op})

\* Bounds of the model: the logs and the pool of links are never exhausted in flight.
Begin(x, r) ==
  /\ request[x] = Idle
  /\ r.op \in mix.ops
  /\ r.email \in mix.emails \cup {None}
  /\ r.ip \in mix.ips \cup {None}
  /\ r.op \in {"login", "link"} => Len(log[r.op]) + InFlight(r.op) < MaxAttempts
  /\ r.op = "link" => InFlight("link") < Cardinality(L!Unused)
  /\ request' = [request EXCEPT ![x] = r]
  /\ UNCHANGED <<tables, log, outbox, mailed, mix, now>>

\* The counters are read first, so that a blocked request costs no hash.
Authenticate(x, e, i, p) ==
  LET passes == MayTry(e, i)
  IN Begin(x, [Idle EXCEPT !.op = "login", !.email = e, !.ip = i, !.started = now,
                           !.old = p, !.new = p,
                           !.at = IF passes THEN "read" ELSE "fail",
                           !.outcome = IF passes THEN "refused" ELSE "throttled"])

RequestPasswordReset(x, e, i) ==
  LET passes == MayAsk(e, i)
  IN Begin(x, [Idle EXCEPT !.op = "link", !.email = e, !.ip = i, !.started = now,
                           !.at = IF passes THEN "read" ELSE "fail",
                           !.outcome = IF passes THEN "refused" ELSE "throttled"])

\* Only the holder of a mail has the secret, and may use it again and again.
ConfirmPasswordReset(x, l, p) ==
  /\ l \in mailed
  /\ Begin(x, [Idle EXCEPT !.op = "confirm", !.link = l, !.new = p, !.at = "claim"])

\* The account is the row the access token was checked against; the hash follows.
ChangePassword(x, e, current, new) ==
  /\ account[e] # None
  /\ account[e].active
  /\ account[e].password = current
  /\ Begin(x, [Idle EXCEPT !.op = "change_password", !.email = e, !.old = current,
                           !.new = new, !.at = "password"])

ResetPassword(x, e, new) ==
  /\ account[e] # None
  /\ Begin(x, [Idle EXCEPT !.op = "reset_password", !.email = e, !.new = new,
                           !.at = "password"])

SetActive(x, e, isActive) ==
  /\ account[e] # None
  /\ account[e].active # isActive
  /\ Begin(x, [Idle EXCEPT !.op = "set_active", !.email = e, !.active = isActive,
                           !.at = "activate"])

Create(x, e, p) ==
  /\ account[e] = None
  /\ Begin(x, [Idle EXCEPT !.op = "create", !.email = e, !.new = p, !.at = "create"])

-----------------------------------------------------------------------------
(* What the services do of the account *)

Think(x, r) ==
  /\ request' = [request EXCEPT ![x] = r]
  /\ UNCHANGED <<tables, log, outbox, mailed, mix, now>>

\* Mutant: the old hash is recomputed before the password is verified.
RehashesFirst(x) ==
  LET r == request[x]
      row == account[r.email]
  IN /\ r.op = "login"
     /\ r.at = "read"
     /\ \E needsRehash \in BOOLEAN :
          Think(x, [r EXCEPT !.at = IF row # None /\ row.active /\ needsRehash
                                    THEN "rehash"
                                    ELSE IF row # None /\ row.active /\ row.password = r.old
                                    THEN "touch" ELSE "fail"])

\* One read of the account, then the hash; what follows trusts that read.
Verify(x) ==
  LET r == request[x]
      row == account[r.email]
  IN /\ r.op = "login"
     /\ r.at = "read"
     /\ IF row # None /\ row.password = r.old /\ row.active
        THEN \E needsRehash \in BOOLEAN :
               Think(x, [r EXCEPT !.at = IF needsRehash THEN "rehash" ELSE "touch",
                                  !.stale = FALSE])
        ELSE Think(x, [r EXCEPT !.at = "fail"])

\* An unknown or inactive account answers alike, and its attempt counts alike.
FindAccount(x) ==
  LET r == request[x]
      row == account[r.email]
  IN /\ r.op = "link"
     /\ r.at = "read"
     /\ Think(x, [r EXCEPT !.at = IF row # None /\ row.active THEN "invalidate" ELSE "fail"])

Logged(r, outcome) ==
  [log EXCEPT ![r.op] = Append(@, [email |-> r.email, ip |-> r.ip, at |-> r.started,
                                   outcome |-> outcome])]

\* The refusal is recorded and committed before the error is raised; nothing else is pending.
RecordRefusal(x) ==
  LET r == request[x]
  IN /\ r.at = "fail"
     /\ log' = Logged(r, r.outcome)
     /\ request' = [request EXCEPT ![x] = Idle]
     /\ UNCHANGED <<tables, outbox, mailed, mix, now>>

\* UPDATE app_user: waits for the row, keeps the columns it does not set.
UpdateAccount(x, row, next) ==
  /\ A!WriteRow(x, request[x].email, row)
  /\ request' = [request EXCEPT ![x].at = next]
  /\ UNCHANGED <<link, linkDraft, linkHolder, log, outbox, mailed, mix, now>>

RehashPassword(x) ==
  LET r == request[x]
  IN /\ r.at = "rehash"
     /\ UpdateAccount(x, [A!Sees(x, r.email) EXCEPT !.password = r.new], "touch")

TouchLastLogin(x) ==
  /\ request[x].at = "touch"
  /\ UpdateAccount(x, A!Sees(x, request[x].email), "commit")

UpdatePassword(x) ==
  LET r == request[x]
  IN /\ r.at = "password"
     /\ UpdateAccount(x, [A!Sees(x, r.email) EXCEPT !.password = r.new,
                                                    !.mustChange = (r.op = "reset_password")],
                      "commit")

UpdateActive(x) ==
  LET r == request[x]
  IN /\ r.at = "activate"
     /\ UpdateAccount(x, [A!Sees(x, r.email) EXCEPT !.active = r.active], "commit")

-----------------------------------------------------------------------------
(* Statements on the links *)

WriteLinks(x, rows, r) ==
  /\ L!Write(x, rows)
  /\ request' = [request EXCEPT ![x] = r]
  /\ UNCHANGED <<account, accountDraft, accountHolder, log, outbox, mailed, mix, now>>

\* Mutant: the former links are left alone.
SkipInvalidation(x) ==
  LET r == request[x]
  IN /\ r.at = "invalidate"
     /\ Think(x, [r EXCEPT !.at = "sweep"])

\* The snapshot of the bulk UPDATE.
BeginInvalidation(x) ==
  LET r == request[x]
  IN /\ r.at = "invalidate"
     /\ Think(x, [r EXCEPT !.at = "sweep",
                           !.left = {l \in Links : /\ L!Sees(x, l) # None
                                                   /\ L!Sees(x, l).user = r.email
                                                   /\ ~L!Sees(x, l).consumed}])

\* Each row is waited for, then tested again.
InvalidateLink(x) ==
  LET r == request[x]
  IN /\ r.at = "sweep"
     /\ \E l \in r.left :
          LET row == L!Sees(x, l)
              rest == [r EXCEPT !.left = r.left \ {l}]
          IN /\ L!Free(x, l)
             /\ IF row.consumed
                THEN Think(x, rest)
                ELSE WriteLinks(x, [k \in {l} |-> [row EXCEPT !.consumed = TRUE]], rest)

\* Mutant: the link is mailed as soon as its row is inserted.
IssueAndMail(x) ==
  LET r == request[x]
  IN /\ r.at = "sweep"
     /\ r.left = {}
     /\ \E l \in L!Unused :
          /\ L!Write(x, [k \in {l} |-> [user |-> r.email, expires |-> now + LinkTtl,
                                        consumed |-> FALSE]])
          /\ request' = [request EXCEPT ![x] = [r EXCEPT !.link = l, !.at = "commit"]]
          /\ outbox' = outbox \cup {l}
          /\ UNCHANGED <<account, accountDraft, accountHolder, log, mailed, mix, now>>

IssueLink(x) ==
  LET r == request[x]
  IN /\ r.at = "sweep"
     /\ r.left = {}
     /\ \E l \in L!Unused :
          WriteLinks(x, [k \in {l} |-> [user |-> r.email, expires |-> now + LinkTtl,
                                        consumed |-> FALSE]],
                     [r EXCEPT !.link = l, !.at = "commit"])

\* Mutant: a link already used passes.
UsableUntilExpiry(row) == row # None /\ row.expires > now

Usable(row) == row # None /\ ~row.consumed /\ row.expires > now

\* Mutant: the database session is dropped without its ROLLBACK.
AbandonOpen(x) ==
  /\ request' = [request EXCEPT ![x] = Idle]
  /\ UNCHANGED <<tables, log, outbox, mailed, mix, now>>

Abandon(x) ==
  /\ A!Discard(x)
  /\ L!Discard(x)
  /\ request' = [request EXCEPT ![x] = Idle]
  /\ UNCHANGED <<log, outbox, mailed, mix, now>>

\* One UPDATE ... RETURNING: it waits for the row, then tests it.
Consume(x) ==
  LET r == request[x]
      row == L!Sees(x, r.link)
  IN /\ r.at = "claim"
     /\ L!Free(x, r.link)
     /\ IF Usable(row)
        THEN WriteLinks(x, [k \in {r.link} |-> [row EXCEPT !.consumed = TRUE]],
                        [r EXCEPT !.email = row.user, !.started = now, !.at = "reread"])
        ELSE Abandon(x)

\* Mutant: the account is not read again.
SkipReread(x) ==
  LET r == request[x]
  IN /\ r.at = "reread"
     /\ Think(x, [r EXCEPT !.at = "password"])

\* Mutant: the refusal commits what it has consumed.
RereadCommitting(x) ==
  LET r == request[x]
  IN /\ r.at = "reread"
     /\ IF account[r.email].active
        THEN Think(x, [r EXCEPT !.at = "password"])
        ELSE /\ L!Publish(x)
             /\ request' = [request EXCEPT ![x] = Idle]
             /\ UNCHANGED <<account, accountDraft, accountHolder, log, outbox, mailed, mix, now>>

\* A deactivated account raises, and the rollback leaves the link as it was.
RereadAccount(x) ==
  LET r == request[x]
  IN /\ r.at = "reread"
     /\ IF account[r.email].active
        THEN Think(x, [r EXCEPT !.at = "password", !.stale = FALSE])
        ELSE Abandon(x)

\* INSERT: the unique index waits for another creation of the email, and refuses a second.
InsertAccount(x) ==
  LET r == request[x]
  IN /\ r.at = "create"
     /\ A!Free(x, r.email)
     /\ IF account[r.email] = None
        THEN UpdateAccount(x, [password |-> r.new, active |-> TRUE, mustChange |-> TRUE],
                           "commit")
        ELSE Abandon(x)

-----------------------------------------------------------------------------
(* The end of a request, the mail and the clock *)

\* The mail of a link is queued once its row is committed, with its attempt.
Commit(x) ==
  LET r == request[x]
      e == r.email
  IN /\ r.at = "commit"
     /\ A!Publish(x)
     /\ L!Publish(x)
     /\ log' = IF r.op = "link" THEN Logged(r, "granted") ELSE log
     /\ outbox' = IF r.op = "link" THEN outbox \cup {r.link} ELSE outbox
     /\ request' = [y \in Requests |->
                      IF y = x THEN Idle
                      ELSE [request[y] EXCEPT !.stale =
                              @ \/ (request[y].email = e /\ account'[e] # account[e])]]
     /\ UNCHANGED <<mailed, mix, now>>

\* An exception, a lost connection, a dying worker, or the victim of a deadlock.
Rollback(x) ==
  /\ request[x] # Idle
  /\ Abandon(x)

\* A relay that fails is logged and the mail forgotten; so is a task its worker lost.
SendMail(l) ==
  /\ l \in outbox
  /\ outbox' = outbox \ {l}
  /\ \/ mailed' = mailed \cup {l}
     \/ mailed' = mailed
  /\ UNCHANGED <<tables, log, request, mix, now>>

Tick ==
  /\ now < MaxTime
  /\ now' = now + 1
  /\ UNCHANGED <<tables, log, outbox, mailed, request, mix>>

-----------------------------------------------------------------------------

Ask(x) ==
  \/ \E e \in Emails, i \in Ips, p \in Passwords : Authenticate(x, e, i, p)
  \/ \E e \in Emails, i \in Ips : RequestPasswordReset(x, e, i)
  \/ \E l \in Links, p \in Passwords : ConfirmPasswordReset(x, l, p)
  \/ \E e \in Emails, p, q \in Passwords : ChangePassword(x, e, p, q)
  \/ \E e \in Emails, p \in Passwords : ResetPassword(x, e, p)
  \/ \E e \in Emails, b \in BOOLEAN : SetActive(x, e, b)
  \/ \E e \in Emails, p \in Passwords : Create(x, e, p)

Step(x) ==
  \/ Verify(x)
  \/ FindAccount(x)
  \/ RecordRefusal(x)
  \/ RehashPassword(x)
  \/ TouchLastLogin(x)
  \/ UpdatePassword(x)
  \/ UpdateActive(x)
  \/ InsertAccount(x)
  \/ BeginInvalidation(x)
  \/ InvalidateLink(x)
  \/ IssueLink(x)
  \/ Consume(x)
  \/ RereadAccount(x)
  \/ Commit(x)

Next ==
  \/ Tick
  \/ \E l \in Links : SendMail(l)
  \/ \E x \in Requests : Ask(x) \/ Step(x) \/ Rollback(x)

Spec == Init /\ [][Next]_vars

-----------------------------------------------------------------------------
(* Properties *)

\* The tables and the requests are well-formed, and an idle request holds no row.
TypeOK ==
  /\ A!TableOK(AccountRow)
  /\ L!TableOK(LinkRow)
  /\ log \in [{"login", "link"} -> Seq(Attempt)]
  /\ outbox \subseteq Links
  /\ mailed \subseteq Links
  /\ request \in [Requests -> Request]
  /\ mix \in Mixes
  /\ now \in Nat
  /\ \A x \in Requests : request[x] = Idle =>
       /\ \A e \in Emails : accountHolder[e] # x
       /\ \A l \in Links : linkHolder[l] # x

\* Attempts that passed the counters, over a window that begins at s.
Passed(kind, s, window) ==
  {n \in DOMAIN log[kind] : /\ log[kind][n].outcome # "throttled"
                            /\ s <= log[kind][n].at
                            /\ log[kind][n].at < s + window}

Overshoot == Cardinality(Requests) - 1

\* The limit on logins: a counter is read before the hash and the failure recorded after it,
\* so a window holds at most the threshold, plus one attempt per other request in flight.
GuessesBounded ==
  \A s \in 0..now :
    LET passed == Passed("login", s, LoginWindow)
    IN /\ \A i \in Ips : Cardinality(From("login", passed, i)) <= MaxPerIp + Overshoot
       /\ \A e \in Emails :
            /\ Cardinality(Of("login", passed, e)) <= MaxPerEmail + Overshoot
            /\ \A i \in Ips : Cardinality(From("login", Of("login", passed, e), i))
                                <= MaxPerPair + Overshoot

\* The same of the requests for a link.
GrantsBounded ==
  \A s \in 0..now :
    LET passed == Passed("link", s, ResetWindow)
    IN /\ \A i \in Ips : Cardinality(From("link", passed, i)) <= MaxLinksPerIp + Overshoot
       /\ \A e \in Emails : Cardinality(Of("link", passed, e)) <= MaxLinksPerEmail + Overshoot

\* Each request kills the links its snapshot saw: the links of an account that can still
\* be used are at most as many as there are requests that overlapped.
LiveLinksBounded ==
  \A e \in Emails :
    Cardinality({l \in Links : link[l] # None /\ link[l].user = e /\ ~link[l].consumed})
      <= Cardinality(Requests)

\* A mail never names a link that is not committed.
MailFollowsCommit == \A l \in outbox \cup mailed : link[l] # None

\* Two submissions of one link never both succeed, and none after its deadline.
LinkServesOnce ==
  [][\A x \in Requests : Commit(x) /\ request[x].op = "confirm" =>
       LET row == link[request[x].link]
       IN ~row.consumed /\ row.expires > request[x].started]_vars

\* A link dies only with the password it changes or the link that replaces it, and for good.
LinkDiesForAReason ==
  [][\A l \in Links : link[l] # None /\ link'[l] # link[l] =>
       /\ ~link[l].consumed
       /\ \E x \in Requests :
            /\ Commit(x)
            /\ \/ /\ request[x].op = "confirm"
                  /\ request[x].link = l
                  /\ account'[link[l].user].password = request[x].new
               \/ request[x].op = "link" /\ request[x].email = link[l].user]_vars

\* Who overwrites a password has verified the one that is there, unless it changed meanwhile.
OnlyRacesOverwrite ==
  [][\A x \in Requests : Commit(x) /\ request[x].op \in {"login", "change_password"} =>
       LET e == request[x].email
       IN \/ account'[e].password = account[e].password
          \/ account[e].password = request[x].old
          \/ request[x].stale]_vars

\* A login or a link never serves a deactivated account, unless it was deactivated meanwhile.
OnlyRacesServeInactive ==
  [][\A x \in Requests : Commit(x) /\ request[x].op \in {"login", "confirm"} =>
       account[request[x].email].active \/ request[x].stale]_vars
=============================================================================
