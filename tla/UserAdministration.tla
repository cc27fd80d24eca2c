-------------------------- MODULE UserAdministration --------------------------
(***************************************************************************)
(* Roles and activation of the accounts, and the access tokens they        *)
(* invalidate: services/user.py, repositories/user.py, the PATCH of        *)
(* endpoints/users.py and get_current_principal().  A PATCH may run two    *)
(* transactions in one database session, which caches the account it read. *)
(*                                                                         *)
(* The refresh sessions these requests revoke are the subject of           *)
(* RefreshSessions.  All accounts are human and none owes a change of      *)
(* password; creating accounts is left out.                                *)
(***************************************************************************)
EXTENDS Naturals, FiniteSets

CONSTANTS Users,           \* the accounts
          Roles,           \* "admin" and the lesser roles
          Requests,        \* requests in flight at once
          Payloads,        \* the bodies of PATCH, None for an absent field
          TicksPerSecond,  \* credentials_changed_at is finer than a token's iat
          AccessTtl,       \* life of an access token, in seconds
          MaxTime,         \* bound on the clock
          MaxAccess,       \* bound on the access tokens handed out
          None             \* no row, no holder, no value

ASSUME ClockAssumption == /\ TicksPerSecond \in Nat \ {0}
                          /\ AccessTtl \in Nat
                          /\ MaxTime \in Nat \ {0}
                          /\ MaxAccess \in Nat
ASSUME UsersAssumption == IsFiniteSet(Users)
ASSUME RolesAssumption == "admin" \in Roles
ASSUME PayloadsAssumption ==
  Payloads \subseteq [role : Roles \cup {None}, active : BOOLEAN \cup {None}]

VARIABLES account, accountDraft, accountHolder,  \* table app_user
          access,                                \* the access tokens handed out
          request,                               \* each request in flight
          now                                    \* the server's clock, in ticks

vars == <<account, accountDraft, accountHolder, access, request, now>>

A == INSTANCE ReadCommitted
       WITH Keys <- Users, Txns <- Requests, Nobody <- None, NoRow <- None,
            committed <- account, draft <- accountDraft, holder <- accountHolder

\* changed is credentials_changed_at.
AccountRow == [role : Roles, active : BOOLEAN, changed : 0..MaxTime]

\* What the services use of the copy of a row that the database session keeps.
Copy == [role : Roles, active : BOOLEAN]

CopyOf(row) == [role |-> row.role, active |-> row.active]

Second(t) == t \div TicksPerSecond

\* iat has the precision of a second.
AccessToken == [user : Users, role : Roles, iat : 0..Second(MaxTime)]

\* seen is the session's copy of the target account, before the copy the current
\* change was decided on, counted what count_active_admins() answered, change
\* the field the current transaction sets, began when the request began.
Request == [op : {"none", "login", "password", "reset", "patch"},
            at : {"idle", "load", "count", "update", "commit", "mint"},
            user : Users \cup {None},
            role : Roles \cup {None}, active : BOOLEAN \cup {None},
            change : {"none", "role", "active", "password"},
            seen : Copy \cup {None}, before : Copy \cup {None},
            counted : 0..Cardinality(Users) \cup {None}, began : 0..MaxTime]

Idle == [op |-> "none", at |-> "idle", user |-> None, role |-> None, active |-> None,
         change |-> "none", seen |-> None, before |-> None, counted |-> None, began |-> 0]

ASSUME NoneAssumption == /\ None \notin Users \cup Requests /\ None \notin Roles
                         /\ None \notin BOOLEAN /\ None \notin Nat /\ None \notin AccountRow \cup Copy

IsAdmin(row) == row.role = "admin" /\ row.active

ActiveAdmins == {u \in Users : IsAdmin(account[u])}

AnAdminRemains == ActiveAdmins # {}

\* The accounts were created at time 0.
Init ==
  /\ account \in [Users -> [role : Roles, active : BOOLEAN, changed : {0}]]
  /\ AnAdminRemains
  /\ accountDraft = [u \in Users |-> None]
  /\ accountHolder = accountDraft
  /\ access = {}
  /\ request = [x \in Requests |-> Idle]
  /\ now = 1

-----------------------------------------------------------------------------
(* get_current_principal() *)

\* Mutant: the marker is compared without being truncated to the second.
StaleToTheTick(a) == a.iat * TicksPerSecond < account[a.user].changed

Stale(a) == a.iat < Second(account[a.user].changed)

Accepted(a) ==
  /\ Second(now) < a.iat + AccessTtl
  /\ account[a.user].active
  /\ ~Stale(a)
  /\ a.role = account[a.user].role

-----------------------------------------------------------------------------
(* Starting a request *)

Begin(x, r) ==
  /\ request[x] = Idle
  /\ request' = [request EXCEPT ![x] = [r EXCEPT !.began = IF r.op = "login" THEN 0 ELSE now]]
  /\ UNCHANGED <<account, accountDraft, accountHolder, access, now>>

Think(x, r) ==
  /\ request' = [request EXCEPT ![x] = r]
  /\ UNCHANGED <<account, accountDraft, accountHolder, access, now>>

\* Bound of the model: the tokens handed out or about to be.
RoomForAToken ==
  Cardinality(access) + Cardinality({x \in Requests : request[x].op \in {"login", "password"}})
    < MaxAccess

\* A login or a refresh: the account is read here, the token minted later.
Login(x, u) ==
  /\ account[u].active
  /\ RoomForAToken
  /\ Begin(x, [Idle EXCEPT !.op = "login", !.at = "mint", !.user = u,
                           !.seen = CopyOf(account[u])])

ChangePassword(x, a) ==
  /\ Accepted(a)
  /\ RoomForAToken
  /\ Begin(x, [Idle EXCEPT !.op = "password", !.at = "update", !.user = a.user,
                           !.change = "password", !.seen = CopyOf(account[a.user])])

\* What the session may still hold of account u once it has identified its actor: it keeps its
\* objects by weak references, and reads again what nobody holds.
Cached(a, u) == {None} \cup (IF u = a.user THEN {CopyOf(account[u])} ELSE {})

ResetPassword(x, a, u) ==
  /\ Accepted(a) /\ a.role = "admin"
  /\ Begin(x, [Idle EXCEPT !.op = "reset", !.at = "update", !.user = u,
                           !.change = "password"])

\* A PATCH with neither field is refused.
UpdateUser(x, a, u, payload) ==
  /\ Accepted(a) /\ a.role = "admin"
  /\ payload.role # None \/ payload.active # None
  /\ \E seen \in Cached(a, u) :
       Begin(x, [Idle EXCEPT !.op = "patch", !.at = "load", !.user = u,
                             !.role = payload.role, !.active = payload.active,
                             !.change = IF payload.role # None THEN "role" ELSE "active",
                             !.seen = seen])

-----------------------------------------------------------------------------
(* change_role() and set_active(), one after the other *)

\* The account as the request wants it.
Target(r, row) ==
  CASE r.change = "role" -> [row EXCEPT !.role = r.role]
    [] r.change = "active" -> [row EXCEPT !.active = r.active]
    [] OTHER -> row

\* What follows a change_role() that has returned.
AndThen(r) ==
  IF r.op = "patch" /\ r.change = "role" /\ r.active # None
  THEN [r EXCEPT !.at = "load", !.change = "active", !.before = None, !.counted = None]
  ELSE IF r.op = "password"
  THEN [Idle EXCEPT !.op = "password", !.at = "mint", !.user = r.user, !.seen = r.seen]
  ELSE Idle

\* _exige(), the early return, and the first half of _refuse_si_dernier_admin().
Load(x) ==
  LET r == request[x]
      row == IF r.seen = None THEN CopyOf(account[r.user]) ELSE r.seen
      loaded == [r EXCEPT !.seen = row, !.before = row]
  IN /\ r.at = "load"
     /\ Think(x, IF Target(r, row) = row THEN AndThen(loaded)
                 ELSE IF IsAdmin(row) /\ ~IsAdmin(Target(r, row))
                 THEN [loaded EXCEPT !.at = "count"]
                 ELSE [loaded EXCEPT !.at = "update"])

\* Mutant: the bound of count_active_admins() is off by one.
LastIfNone(n) == n < 1

LastIfOne(n) == n <= 1

\* LastAdminError ends the request; what a first transaction committed stays.
CountActiveAdmins(x) ==
  LET r == request[x]
      n == Cardinality(ActiveAdmins)
  IN /\ r.at = "count"
     /\ Think(x, IF LastIfOne(n) THEN Idle ELSE [r EXCEPT !.counted = n, !.at = "update"])

\* Mutant: a marker taken as the request starts.
StampAtBegin(r) == r.began

\* clock_timestamp(): read once the row is locked.
Stamp(r) == now

\* Mutant: an update that leaves credentials_changed_at alone.
Unstamped(r, row) == Target(r, row)

Stamped(r, row) == [Target(r, row) EXCEPT !.changed = Stamp(r)]

\* UPDATE app_user waits for the row and sets its columns whatever they hold now;
\* the session's copy follows.
UpdateAccount(x) ==
  LET r == request[x]
  IN /\ r.at = "update"
     /\ A!WriteRow(x, r.user, Stamped(r, A!Sees(x, r.user)))
     /\ request' = [request EXCEPT ![x].at = "commit",
                                   ![x].seen = IF @ = None THEN None ELSE Target(r, @)]
     /\ UNCHANGED <<access, now>>

Commit(x) ==
  /\ request[x].at = "commit"
  /\ A!Publish(x)
  /\ request' = [request EXCEPT ![x] = AndThen(@)]
  /\ UNCHANGED <<access, now>>

\* The session answers with an access token that carries the role it has read.
Mint(x) ==
  LET r == request[x]
  IN /\ r.at = "mint"
     /\ access' = access \cup {[user |-> r.user, role |-> r.seen.role, iat |-> Second(now)]}
     /\ request' = [request EXCEPT ![x] = Idle]
     /\ UNCHANGED <<account, accountDraft, accountHolder, now>>

\* Mutant: the session is dropped without its ROLLBACK.
RollbackOpen(x) ==
  /\ request[x] # Idle
  /\ Think(x, Idle)

\* An exception or a lost connection.
Rollback(x) ==
  /\ request[x] # Idle
  /\ A!Discard(x)
  /\ request' = [request EXCEPT ![x] = Idle]
  /\ UNCHANGED <<access, now>>

Tick ==
  /\ now < MaxTime
  /\ now' = now + 1
  /\ UNCHANGED <<account, accountDraft, accountHolder, access, request>>

-----------------------------------------------------------------------------

Ask(x) ==
  \/ \E u \in Users : Login(x, u)
  \/ \E a \in access : ChangePassword(x, a)
  \/ \E a \in access, u \in Users : ResetPassword(x, a, u)
  \/ \E a \in access, u \in Users, p \in Payloads : UpdateUser(x, a, u, p)

Next ==
  \/ Tick
  \/ \E x \in Requests :
       \/ Ask(x)
       \/ Load(x)
       \/ CountActiveAdmins(x)
       \/ UpdateAccount(x)
       \/ Commit(x)
       \/ Mint(x)
       \/ Rollback(x)

Spec == Init /\ [][Next]_vars

-----------------------------------------------------------------------------
(* Properties *)

TypeOK ==
  /\ A!TableOK(AccountRow)
  /\ account \in [Users -> AccountRow]
  /\ access \subseteq AccessToken
  /\ request \in [Requests -> Request]
  /\ now \in 0..MaxTime
  /\ \A u \in Users, x \in Requests : accountHolder[u] = x => request[x].at = "commit"

\* The guard of the last administrator fails only on a stale read: as long as the
\* account and the count it was decided on are still true when the change commits,
\* an administrator remains (services/user.py, _refuse_si_dernier_admin).
OnlyRacesRemoveTheLastAdmin ==
  [][\A x \in Requests :
       LET r == request[x]
       IN /\ Commit(x) /\ AnAdminRemains
          /\ r.before # None =>
               IsAdmin(r.before) = IsAdmin(account[r.user])
          /\ r.counted # None => r.counted = Cardinality(ActiveAdmins)
          => AnAdminRemains']_vars

\* A token that a change of credentials has made stale is never accepted again:
\* credentials_changed_at never goes back, whatever the requests that race for the row.
RefusedForGood == [][\A a \in access : Stale(a) => Stale(a)']_vars

\* Once a change of role, activation or password is committed, the tokens issued
\* before the second its request began in are stale.
OlderTokensDie ==
  [][\A x \in Requests : Commit(x) =>
       \A a \in access : a.user = request[x].user /\ a.iat < Second(request[x].began)
                           => Stale(a)']_vars

\* A token is never stale when it is handed out, even in the second of the change
\* of password that reopened the session.
MintedTokensWork ==
  [][\A x \in Requests : Mint(x) => \A a \in access' \ access : ~Stale(a)']_vars
=============================================================================
