---------------------------- MODULE RefreshSessions ----------------------------
(***************************************************************************)
(* The refresh sessions of the backend: the tables refresh_token and       *)
(* app_user, and the requests of services/auth.py and services/user.py     *)
(* that open, rotate and revoke sessions.  Each request is one READ        *)
(* COMMITTED transaction and each SQL statement is one step, except that   *)
(* a bulk UPDATE is a snapshot followed by one step per row, because it    *)
(* waits on the rows other requests hold.                                  *)
(*                                                                         *)
(* Left to other modules: rate limits, the roles themselves, the links of  *)
(* a forgotten password and the access tokens.                             *)
(***************************************************************************)
EXTENDS Naturals, FiniteSets

CONSTANTS Tokens,      \* refresh secrets, one row of refresh_token each
          Users,       \* accounts, all human
          Passwords,   \* passwords an account may have
          Requests,    \* requests in flight at once
          RefreshTtl,  \* refresh_token_ttl_seconds, in ticks
          MaxTime,     \* bound on the clock
          Operations,  \* the operations clients may ask for
          None         \* no row, no holder, no value

ASSUME TtlAssumption == RefreshTtl \in Nat \ {0} /\ MaxTime \in Nat

VARIABLES token, tokenDraft, tokenHolder,        \* table refresh_token
          account, accountDraft, accountHolder,  \* table app_user
          request,                               \* each request in flight
          now                                    \* the server's clock

tokenTable == <<token, tokenDraft, tokenHolder>>
accountTable == <<account, accountDraft, accountHolder>>
vars == <<token, tokenDraft, tokenHolder, account, accountDraft, accountHolder,
          request, now>>

T == INSTANCE ReadCommitted
       WITH Keys <- Tokens, Txns <- Requests, Nobody <- None, NoRow <- None,
            committed <- token, draft <- tokenDraft, holder <- tokenHolder

A == INSTANCE ReadCommitted
       WITH Keys <- Users, Txns <- Requests, Nobody <- None, NoRow <- None,
            committed <- account, draft <- accountDraft, holder <- accountHolder

-----------------------------------------------------------------------------
(* Rows and requests *)

Reasons == {"logout", "rotation", "reuse_detected", "password_change", "admin"}

\* status is revoked_reason, "live" standing for null: claim_for_rotation sets
\* rotated_at together with the reason "rotation", so the reason tells both.
\* family is the token the session was opened with, next is replaced_by.
TokenRow == [status : Reasons \cup {"live"}, user : Users, family : Tokens,
             expires : Nat, next : Tokens \cup {None}]

AccountRow == [password : Passwords, active : BOOLEAN]

ASSUME NoneAssumption ==
  None \notin Tokens \cup Users \cup Requests \cup Passwords \cup TokenRow \cup AccountRow

\* Where a request is, named after the statement it is about to execute.
Stages == {"idle", "claim", "inspect", "reread", "issue", "rehash", "touch", "open",
           "password", "role", "activate", "revoke", "sweep", "commit"}

Ops == {"none", "login", "refresh", "logout", "logout_all", "change_password", "confirm_reset",
        "change_role", "set_active", "reset_password"}

\* card is the secret presented, then the secret handed out; family is the scope
\* of the revocation (None is every session of the user); seen is the snapshot
\* of the bulk UPDATE and left the rows of it not yet visited; password and
\* active are the values to be written to the account.
Request == [op : Ops, at : Stages, user : Users \cup {None}, card : Tokens \cup {None},
            family : Tokens \cup {None}, reason : (Reasons \ {"rotation"}) \cup {None},
            seen : SUBSET Tokens, left : SUBSET Tokens,
            password : Passwords \cup {None}, active : BOOLEAN]

Idle == [op |-> "none", at |-> "idle", user |-> None, card |-> None, family |-> None,
         reason |-> None, seen |-> {}, left |-> {}, password |-> None, active |-> TRUE]

SameSession(a, b) == a.user = b.user /\ a.family = b.family /\ a.expires = b.expires

IsLive(row) == row # None /\ row.status = "live"

Init ==
  /\ token = [t \in Tokens |-> None]
  /\ tokenDraft = token
  /\ tokenHolder = token
  /\ account \in [Users -> [password : Passwords, active : {TRUE}]]
  /\ accountDraft = [u \in Users |-> None]
  /\ accountHolder = accountDraft
  /\ request = [x \in Requests |-> Idle]
  /\ now = 0

-----------------------------------------------------------------------------
(* Starting a request: the client's call and the first read of the service *)

\* A password that its owner chooses reopens a session for the device it was chosen on.
Reopening == {"change_password", "confirm_reset"}

\* The requests that have still to draw a fresh secret.
Issuing == {x \in Requests : /\ request[x].op \in {"login", "refresh"} \cup Reopening
                             /\ request[x].at # "commit"}

\* Bound of the model: no request is accepted that the pool of secrets could not serve.
Begin(x, r) ==
  /\ request[x] = Idle
  /\ r.op \in Operations
  /\ r.op \in {"login", "refresh"} \cup Reopening =>
       Cardinality(Issuing) < Cardinality(T!Unused)
  /\ request' = [request EXCEPT ![x] = r]
  /\ UNCHANGED <<token, tokenDraft, tokenHolder, account, accountDraft, accountHolder, now>>

\* The password is verified against the row read here, whatever happens to the
\* account during the hash.  A refusal writes no session and is left out.
Authenticate(x, u, p, needsRehash) ==
  /\ account[u] = [password |-> p, active |-> TRUE]
  /\ Begin(x, [Idle EXCEPT !.op = "login", !.user = u, !.password = p,
                           !.at = IF needsRehash THEN "rehash" ELSE "touch"])

\* Any secret ever handed out can come back: the current cookie, an older one
\* whose answer was lost, or a stolen copy.
Refresh(x, t) ==
  /\ token[t] # None
  /\ Begin(x, [Idle EXCEPT !.op = "refresh", !.card = t, !.at = "claim"])

Logout(x, t) ==
  /\ token[t] # None
  /\ Begin(x, [Idle EXCEPT !.op = "logout", !.user = token[t].user,
                           !.family = token[t].family, !.reason = "logout", !.at = "revoke"])

LogoutAll(x, u) ==
  /\ account[u].active
  /\ Begin(x, [Idle EXCEPT !.op = "logout_all", !.user = u, !.reason = "logout",
                           !.at = "revoke"])

ChangePassword(x, u, current, new) ==
  /\ account[u] = [password |-> current, active |-> TRUE]
  /\ Begin(x, [Idle EXCEPT !.op = "change_password", !.user = u, !.password = new,
                           !.reason = "password_change", !.at = "password"])

\* The link is taken before the account is read; who takes it is in Credentials.
ConfirmPasswordReset(x, u, new) ==
  /\ account[u].active
  /\ Begin(x, [Idle EXCEPT !.op = "confirm_reset", !.user = u, !.password = new,
                           !.reason = "password_change", !.at = "password"])

ResetPassword(x, u, new) ==
  Begin(x, [Idle EXCEPT !.op = "reset_password", !.user = u, !.password = new,
                        !.reason = "password_change", !.at = "password"])

ChangeRole(x, u) ==
  Begin(x, [Idle EXCEPT !.op = "change_role", !.user = u, !.reason = "admin", !.at = "role"])

SetActive(x, u, isActive) ==
  /\ account[u].active # isActive
  /\ Begin(x, [Idle EXCEPT !.op = "set_active", !.user = u, !.active = isActive,
                           !.reason = "admin", !.at = "activate"])

-----------------------------------------------------------------------------
(* Statements on the account *)

\* UPDATE app_user: waits for the row, keeps the columns it does not set.
UpdateAccount(x, row, next) ==
  LET r == request[x]
  IN /\ A!WriteRow(x, r.user, row)
     /\ request' = [request EXCEPT ![x].at = next]
     /\ UNCHANGED <<token, tokenDraft, tokenHolder, now>>

RehashPassword(x) ==
  LET u == request[x].user
  IN /\ request[x].at = "rehash"
     /\ UpdateAccount(x, [A!Sees(x, u) EXCEPT !.password = request[x].password], "touch")

TouchLastLogin(x) ==
  /\ request[x].at = "touch"
  /\ UpdateAccount(x, A!Sees(x, request[x].user), "open")

UpdatePassword(x) ==
  LET u == request[x].user
  IN /\ request[x].at = "password"
     /\ UpdateAccount(x, [A!Sees(x, u) EXCEPT !.password = request[x].password], "revoke")

\* The role itself is the business of UserAdministration; the row is locked.
UpdateRole(x) ==
  /\ request[x].at = "role"
  /\ UpdateAccount(x, A!Sees(x, request[x].user), "revoke")

\* Re-activating an account revokes nothing.
UpdateActive(x) ==
  LET r == request[x]
  IN /\ r.at = "activate"
     /\ UpdateAccount(x, [A!Sees(x, r.user) EXCEPT !.active = r.active],
                      IF r.active THEN "commit" ELSE "revoke")

-----------------------------------------------------------------------------
(* Statements on the sessions *)

WriteTokens(x, rows, r) ==
  /\ T!Write(x, rows)
  /\ request' = [request EXCEPT ![x] = r]
  /\ UNCHANGED <<account, accountDraft, accountHolder, now>>

Think(x, r) ==
  /\ request' = [request EXCEPT ![x] = r]
  /\ UNCHANGED <<token, tokenDraft, tokenHolder, account, accountDraft, accountHolder, now>>

\* _ouvre_une_famille: a fresh secret, which also names the family.
OpenFamily(x) ==
  LET r == request[x]
  IN /\ r.at = "open"
     /\ \E t \in T!Unused :
          WriteTokens(x, [k \in {t} |-> [status |-> "live", user |-> r.user, family |-> t,
                                         expires |-> now + RefreshTtl, next |-> None]],
                      [r EXCEPT !.card = t, !.at = "commit"])

\* Mutant: a claim that tests the deadline only.
ClaimableUntilExpiry(row) == row # None /\ row.expires > now

Claimable(row) == IsLive(row) /\ row.expires > now

\* One UPDATE ... RETURNING: it waits for the row, then tests it.
ClaimForRotation(x) ==
  LET r == request[x]
      row == T!Sees(x, r.card)
  IN /\ r.at = "claim"
     /\ T!Free(x, r.card)
     /\ IF Claimable(row)
        THEN WriteTokens(x, [k \in {r.card} |-> [row EXCEPT !.status = "rotation"]],
                         [r EXCEPT !.user = row.user, !.family = row.family, !.at = "reread"])
        ELSE Think(x, [r EXCEPT !.at = "inspect"])

\* An expired token revokes nothing; any other refused one is a replay.
InspectRefused(x) ==
  LET r == request[x]
      row == token[r.card]
  IN /\ r.at = "inspect"
     /\ Think(x, IF row.expires <= now
                 THEN Idle
                 ELSE [r EXCEPT !.user = row.user, !.family = row.family,
                                !.reason = "reuse_detected", !.at = "revoke"])

RereadAccount(x) ==
  LET r == request[x]
  IN /\ r.at = "reread"
     /\ Think(x, IF A!Sees(x, r.user).active
                 THEN [r EXCEPT !.at = "issue"]
                 ELSE [r EXCEPT !.reason = "admin", !.at = "revoke"])

\* Mutant: the successor gets a deadline of its own.
IssueRenewed(x) ==
  LET r == request[x]
      old == T!Sees(x, r.card)
  IN /\ r.at = "issue"
     /\ \E t \in T!Unused :
          WriteTokens(x, [k \in {t, r.card} |->
                            IF k = t THEN [old EXCEPT !.status = "live", !.next = None,
                                                      !.expires = now + RefreshTtl]
                                     ELSE [old EXCEPT !.next = t]],
                      [r EXCEPT !.card = t, !.at = "commit"])

\* Mutant: link_replacement() is forgotten.
IssueUnlinked(x) ==
  LET r == request[x]
      old == T!Sees(x, r.card)
  IN /\ r.at = "issue"
     /\ \E t \in T!Unused :
          WriteTokens(x, [k \in {t} |-> [old EXCEPT !.status = "live", !.next = None]],
                      [r EXCEPT !.card = t, !.at = "commit"])

\* create() then link_replacement(): the new row is invisible to the others and
\* the old one is already locked, so the two statements are one step.
IssueSuccessor(x) ==
  LET r == request[x]
      old == T!Sees(x, r.card)
  IN /\ r.at = "issue"
     /\ \E t \in T!Unused :
          WriteTokens(x, [k \in {t, r.card} |->
                            IF k = t THEN [old EXCEPT !.status = "live", !.next = None]
                                     ELSE [old EXCEPT !.next = t]],
                      [r EXCEPT !.card = t, !.at = "commit"])

-----------------------------------------------------------------------------
(* revoke_family() and revoke_all_for_user(): one UPDATE over many rows *)

InScope(r, row) ==
  /\ IsLive(row)
  /\ IF r.family = None THEN row.user = r.user ELSE row.family = r.family

\* The snapshot the statement selects its rows from.
BeginRevocation(x) ==
  LET r == request[x]
      rows == {t \in Tokens : InScope(r, T!Sees(x, t))}
  IN /\ r.at = "revoke"
     /\ Think(x, [r EXCEPT !.seen = rows, !.left = rows, !.at = "sweep"])

\* Mutant: the row is not tested again under its lock.
RevokeUntested(x) ==
  LET r == request[x]
  IN /\ r.at = "sweep"
     /\ \E t \in r.left :
          /\ T!Free(x, t)
          /\ WriteTokens(x, [k \in {t} |-> [T!Sees(x, t) EXCEPT !.status = r.reason]],
                         [r EXCEPT !.left = r.left \ {t}])

\* Mutant: rows held by another request are skipped.
RevokeSkippingLocked(x) ==
  LET r == request[x]
  IN /\ r.at = "sweep"
     /\ \E t \in r.left :
          LET row == T!Sees(x, t)
              rest == [r EXCEPT !.left = r.left \ {t}]
          IN IF InScope(r, row) /\ T!Free(x, t)
             THEN WriteTokens(x, [k \in {t} |-> [row EXCEPT !.status = r.reason]], rest)
             ELSE Think(x, rest)

\* Each row is locked, then tested again on the version found under the lock.
RevokeRow(x) ==
  LET r == request[x]
  IN /\ r.at = "sweep"
     /\ \E t \in r.left :
          LET row == T!Sees(x, t)
              rest == [r EXCEPT !.left = r.left \ {t}]
          IN /\ T!Free(x, t)
             /\ IF InScope(r, row)
                THEN WriteTokens(x, [k \in {t} |-> [row EXCEPT !.status = r.reason]], rest)
                ELSE Think(x, rest)

EndRevocation(x) ==
  LET r == request[x]
  IN /\ r.at = "sweep"
     /\ r.left = {}
     /\ Think(x, [r EXCEPT !.at = IF r.op \in Reopening THEN "open" ELSE "commit"])

-----------------------------------------------------------------------------
(* The end of a transaction *)

Commit(x) ==
  /\ request[x].at = "commit"
  /\ T!Publish(x)
  /\ A!Publish(x)
  /\ request' = [request EXCEPT ![x] = Idle]
  /\ UNCHANGED now

\* Mutant: the session is dropped without its ROLLBACK.
AbandonOpen(x) ==
  /\ request' = [request EXCEPT ![x] = Idle]
  /\ UNCHANGED <<token, tokenDraft, tokenHolder, account, accountDraft, accountHolder, now>>

Abandon(x) ==
  /\ T!Discard(x)
  /\ A!Discard(x)
  /\ request' = [request EXCEPT ![x] = Idle]
  /\ UNCHANGED now

\* An exception, a lost connection or a dying worker before COMMIT.
Rollback(x) ==
  /\ request[x] # Idle
  /\ Abandon(x)

\* The rows the next statement of x may wait for.
Awaits(x, y) ==
  LET r == request[x]
  IN /\ y # x
     /\ \/ r.at \in {"rehash", "touch", "password", "role", "activate"} /\ accountHolder[r.user] = y
        \/ r.at = "claim" /\ tokenHolder[r.card] = y
        \/ /\ r.at = "sweep" /\ r.left # {}
           /\ \A t \in r.left : ~T!Free(x, t)
           /\ \E t \in r.left : tokenHolder[t] = y

\* PostgreSQL cancels one transaction of a cycle of waiting ones.
DeadlockVictim(x) ==
  /\ \E S \in SUBSET Requests :
       /\ x \in S
       /\ \A y \in S : (\E z \in S : Awaits(y, z)) /\ (\E z \in S : Awaits(z, y))
  /\ Abandon(x)

Tick ==
  /\ now < MaxTime
  /\ now' = now + 1
  /\ UNCHANGED <<token, tokenDraft, tokenHolder, account, accountDraft, accountHolder, request>>

-----------------------------------------------------------------------------

\* What a client, or an administrator, may ask for.
Ask(x) ==
  \/ \E u \in Users, p \in Passwords, b \in BOOLEAN : Authenticate(x, u, p, b)
  \/ \E t \in Tokens : Refresh(x, t)
  \/ \E t \in Tokens : Logout(x, t)
  \/ \E u \in Users : LogoutAll(x, u)
  \/ \E u \in Users, p, q \in Passwords : ChangePassword(x, u, p, q)
  \/ \E u \in Users, p \in Passwords : ConfirmPasswordReset(x, u, p) \/ ResetPassword(x, u, p)
  \/ \E u \in Users : ChangeRole(x, u)
  \/ \E u \in Users, b \in BOOLEAN : SetActive(x, u, b)

\* What the server does of a request it has accepted.
Step(x) ==
  \/ RehashPassword(x)
  \/ TouchLastLogin(x)
  \/ UpdatePassword(x)
  \/ UpdateRole(x)
  \/ UpdateActive(x)
  \/ OpenFamily(x)
  \/ ClaimForRotation(x)
  \/ InspectRefused(x)
  \/ RereadAccount(x)
  \/ IssueSuccessor(x)
  \/ BeginRevocation(x)
  \/ RevokeRow(x)
  \/ EndRevocation(x)
  \/ Commit(x)
  \/ DeadlockVictim(x)

Next ==
  \/ Tick
  \/ \E x \in Requests : Ask(x) \/ Step(x) \/ Rollback(x)

Spec == Init /\ [][Next]_vars

\* The event loop runs every accepted request; the lock manager queues the waiters
\* of a row, so that one is not passed over for ever (strong fairness), and breaks
\* deadlocks.  Nothing obliges a client to ask, nor a request to fail.
FairSpec == Spec /\ \A x \in Requests : SF_vars(Step(x))

-----------------------------------------------------------------------------
(* Properties *)

\* The tables are well-formed, drafts exist only under a lock, and a request that
\* has ended holds nothing.
TypeOK ==
  /\ T!TableOK(TokenRow)
  /\ A!TableOK(AccountRow)
  /\ account \in [Users -> AccountRow]
  /\ request \in [Requests -> Request]
  /\ now \in Nat
  /\ \A x \in Requests : request[x].at = "idle" =>
       /\ \A t \in Tokens : tokenHolder[t] # x
       /\ \A u \in Users : accountHolder[u] # x

\* While a family has a live token, all its other tokens were rotated and name
\* their successor: the family has one usable secret, and no revoked token
\* (logout, replay, password change, administration) leaves a live sibling.
LiveFamilyHistory ==
  \A s, t \in Tokens :
    /\ s # t
    /\ token[s] # None
    /\ IsLive(token[t])
    /\ token[s].family = token[t].family
    => token[s].status = "rotation" /\ token[s].next # None

\* Rotations form one chain per family: every token descends from the one of the
\* login, keeps its user and its absolute deadline, and no secret is the
\* successor of two others (two tabs never win the same rotation).
ChainsIntact ==
  \A t \in Tokens : token[t] # None =>
    LET row == token[t]
    IN /\ token[row.family] # None
       /\ token[row.family].user = row.user
       /\ token[row.family].expires = row.expires
       /\ t # row.family => \E s \in Tokens : token[s] # None /\ token[s].next = t
       /\ row.next # None =>
            /\ row.status = "rotation"
            /\ row.next # row.family
            /\ token[row.next] # None
            /\ token[row.next].family = row.family
            /\ \A s \in Tokens \ {t} : token[s] # None => token[s].next # row.next

\* What a request has under lock: either a living row it is killing, or one new
\* row, which opens a family or succeeds the row the same request rotated.
HeldRowOK(t) ==
  LET x == tokenHolder[t]
      row == tokenDraft[t]
      new == request[x].card
  IN IF token[t] # None
     THEN /\ IsLive(token[t])
          /\ ~IsLive(row)
          /\ SameSession(row, token[t])
          /\ row.next # None =>
               /\ row.status = "rotation"
               /\ row.next = new
               /\ tokenHolder[new] = x
               /\ token[new] = None
               /\ tokenDraft[new] = [token[t] EXCEPT !.next = None]
     ELSE /\ request[x].at = "commit"
          /\ t = new
          /\ IsLive(row) /\ row.next = None
          /\ row.family # t => \E p \in Tokens : /\ tokenHolder[p] = x
                                                /\ token[p] # None
                                                /\ tokenDraft[p].next = t

DraftsOK == \A t \in Tokens : tokenHolder[t] # None => HeldRowOK(t)

\* When a bulk revocation has gone through its rows, no session its snapshot
\* saw is alive for it, whatever the other requests did to them meanwhile.
RevocationReachesSeen ==
  \A x \in Requests :
    \A t \in request[x].seen \ request[x].left : ~IsLive(T!Sees(x, t))

\* A rotated or revoked row never changes again: no secret comes back to life
\* and the reason that killed it is never overwritten by a later revocation.
DeadStaysDead ==
  [][\A t \in Tokens : token[t] # None /\ ~IsLive(token[t]) => token'[t] = token[t]]_vars

\* The session opened with secret f, as the committed rows of its family show it.
Members(f) == {t \in Tokens : token[t] # None /\ token[t].family = f}
Usable(f) == {t \in Members(f) : IsLive(token[t])}
SessionOf(f) ==
  [owners |-> {token[t].user : t \in Members(f)},
   deadlines |-> {token[t].expires : t \in Members(f)},
   usable |-> Usable(f),
   spent |-> [t \in Members(f) \ Usable(f) |-> token[t].status]]

Sessions == INSTANCE SessionLife
              WITH Secrets <- Tokens, Accounts <- Users, Fates <- Reasons,
                   Rotation <- "rotation", session <- [f \in Tokens |-> SessionOf(f)]

\* Requests, row locks and interleaved bulk updates amount to SessionLife: each
\* transaction closes sessions of one account and opens one, or rotates one.
SessionSpec == Sessions!Spec

\* Every accepted request ends, whatever it waits for.
RequestsEnd == \A x \in Requests : request[x] # Idle ~> request[x] = Idle

\* services/auth.py: "Toutes les sessions tombent, puis on en rouvre une".
AllOtherSessionsFall ==
  [][\A x \in Requests : Commit(x) /\ request[x].op = "change_password" =>
       \A t \in Tokens : IsLive(token'[t]) /\ token'[t].user = request[x].user =>
                           t = request[x].card]_vars
=============================================================================
