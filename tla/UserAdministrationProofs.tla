----------------------- MODULE UserAdministrationProofs -----------------------
(***************************************************************************)
(* Proofs about UserAdministration, for any finite set of accounts and any *)
(* set of requests, and any number of clock ticks to a second.             *)
(***************************************************************************)
EXTENDS UserAdministration, FiniteSetTheorems, TLAPS

\* A later tick is not in an earlier second.
LEMMA SecondMonotone ==
  ASSUME NEW a \in Nat, NEW b \in Nat, a <= b
  PROVE  Second(a) \in Nat /\ Second(a) <= Second(b)
  <1> DEFINE d == TicksPerSecond
             p == a \div d
             q == b \div d
  <1>1. d \in Nat /\ d > 0
    BY ClockAssumption
  <1>2. p \in Int /\ q \in Int
    BY <1>1
  <1>3. d * p <= a /\ a < d * p + d /\ d * q <= b /\ b < d * q + d
    BY <1>1
  <1>4. p >= 0
    BY <1>1, <1>2, <1>3
  <1>5. p <= q
    BY <1>1, <1>2, <1>3
  <1>6. QED
    BY <1>2, <1>4, <1>5 DEF Second

-----------------------------------------------------------------------------
(* The inductive invariant *)

ChangeOK(r) ==
  \/ r.change = "role" /\ r.role \in Roles
  \/ r.change = "active" /\ r.active \in BOOLEAN

\* What a request carries from one step to the next.  The last conjunct is what the
\* guard of the last administrator has established.
RequestOK(r) ==
  /\ r.at # "idle" => r.user \in Users
  /\ r.op = "password" \/ r.at = "mint" => r.seen \in Copy
  /\ r.at \in {"load", "count", "update", "commit"} =>
       \/ r.op = "patch" /\ ChangeOK(r)
       \/ /\ r.op \in {"password", "reset"}
          /\ r.change = "password" /\ r.at \in {"update", "commit"}
  /\ r.op = "patch" /\ r.at \in {"count", "update", "commit"} => r.before \in Copy
  /\ /\ r.op = "patch" /\ r.at \in {"update", "commit"}
     /\ IsAdmin(r.before) /\ ~IsAdmin(Target(r, r.before))
     => r.counted \in Nat /\ r.counted > 1
  /\ r.began <= now

\* A request about to commit holds its account, as it wants it and stamped.
CommitOK(x) ==
  LET r == request[x]
      u == r.user
  IN r.at = "commit" =>
       /\ accountHolder[u] = x
       /\ accountDraft[u].role = Target(r, account[u]).role
       /\ accountDraft[u].active = Target(r, account[u]).active
       /\ r.began <= accountDraft[u].changed

\* A marker never passes the clock, and the version about to be published never
\* carries an older one.
MarkerOK(u) ==
  /\ account[u].changed <= now
  /\ accountHolder[u] # None => /\ account[u].changed <= accountDraft[u].changed
                                /\ accountDraft[u].changed <= now

HolderOK(u) == \A x \in Requests : accountHolder[u] = x => request[x].user = u

IInv ==
  /\ TypeOK
  /\ \A x \in Requests : RequestOK(request[x]) /\ CommitOK(x)
  /\ \A u \in Users : MarkerOK(u) /\ HolderOK(u)

-----------------------------------------------------------------------------

LEMMA InitIInv == Init => IInv
  <1> SUFFICES ASSUME Init PROVE IInv
    OBVIOUS
  <1> USE DEF Init
  <1>1. /\ account \in [Users -> AccountRow]
        /\ \A u \in Users : account[u].changed = 0
    BY ClockAssumption DEF AccountRow
  <1>2. Idle \in Request
    BY ClockAssumption DEF Idle, Request
  <1>3. A!TableOK(AccountRow)
    BY <1>1, NoneAssumption DEF A!TableOK
  <1>4. TypeOK
    BY <1>1, <1>2, <1>3, ClockAssumption, NoneAssumption DEF TypeOK
  <1>5. ASSUME NEW x \in Requests PROVE RequestOK(request[x]) /\ CommitOK(x)
    BY DEF RequestOK, CommitOK, Idle
  <1>6. ASSUME NEW u \in Users PROVE MarkerOK(u) /\ HolderOK(u)
    BY <1>1, NoneAssumption DEF MarkerOK, HolderOK
  <1>7. QED
    BY <1>4, <1>5, <1>6 DEF IInv

\* A step that moves one request on, and not to or from its COMMIT.
LEMMA Moving ==
  ASSUME IInv, NEW x \in Requests, NEW r \in Request,
         request' = [request EXCEPT ![x] = r], access' \subseteq AccessToken,
         UNCHANGED <<account, accountDraft, accountHolder, now>>,
         request[x].at # "commit", r.at # "commit", RequestOK(r)
  PROVE  IInv'
  <1>1. request' \in [Requests -> Request] /\ request'[x] = r
    BY DEF IInv, TypeOK
  <1>2. \A y \in Requests \ {x} : request'[y] = request[y]
    BY DEF IInv, TypeOK
  <1>3. \A u \in Users : accountHolder[u] # x
    BY DEF IInv, TypeOK
  <1>4. TypeOK'
    BY <1>1, <1>2, <1>3 DEF IInv, TypeOK, A!TableOK
  <1>5. ASSUME NEW y \in Requests PROVE RequestOK(request[y])' /\ CommitOK(y)'
    <2>1. CASE y = x
      BY <1>1, <2>1 DEF RequestOK, ChangeOK, CommitOK
    <2>2. CASE y # x
      <3>1. RequestOK(request[y]) /\ CommitOK(y) /\ request'[y] = request[y]
        BY <1>2, <2>2 DEF IInv
      <3>2. QED
        BY <3>1 DEF RequestOK, ChangeOK, CommitOK, Target
    <2>3. QED
      BY <2>1, <2>2
  <1>6. ASSUME NEW u \in Users PROVE MarkerOK(u)' /\ HolderOK(u)'
    BY <1>2, <1>3 DEF IInv, MarkerOK, HolderOK
  <1>7. QED
    BY <1>4, <1>5, <1>6 DEF IInv

LEMMA Thinking ==
  ASSUME IInv, NEW x \in Requests, NEW r \in Request, Think(x, r),
         request[x].at # "commit", r.at # "commit", RequestOK(r)
  PROVE  IInv'
  BY Moving DEF Think, IInv, TypeOK

-----------------------------------------------------------------------------
(* Starting a request *)

LEMMA Beginning ==
  ASSUME IInv, NEW x \in Requests, NEW r \in Request, Begin(x, r),
         r.at # "commit", r.op # "none", r.op # "login" \/ r.at = "mint",
         \A t \in Nat : t <= now => RequestOK([r EXCEPT !.began = t])
  PROVE  IInv'
  <1> DEFINE n == IF r.op = "login" THEN 0 ELSE now
             s == [r EXCEPT !.began = n]
  <1>1. n \in 0..MaxTime /\ n <= now /\ n \in Nat
    BY ClockAssumption DEF IInv, TypeOK
  <1>2. s \in Request /\ s.at = r.at
    BY <1>1 DEF Request
  <1>3. RequestOK(s)
    BY <1>1
  <1>4. Think(x, s) /\ request[x].at # "commit"
    BY DEF Begin, Think, Idle
  <1> HIDE DEF s
  <1>5. QED
    BY <1>2, <1>3, <1>4, Thinking

LEMMA CopyTyped ==
  ASSUME IInv, NEW u \in Users
  PROVE  account[u] \in AccountRow /\ CopyOf(account[u]) \in Copy
  BY DEF IInv, TypeOK, AccountRow, Copy, CopyOf

LEMMA IdleTyped == Idle \in Request
  BY ClockAssumption DEF Idle, Request

LEMMA AskIInv ==
  ASSUME IInv, NEW x \in Requests, Ask(x)
  PROVE  IInv'
  <1>1. ASSUME NEW u \in Users, Login(x, u) PROVE IInv'
    <2> DEFINE r == [Idle EXCEPT !.op = "login", !.at = "mint", !.user = u,
                                 !.seen = CopyOf(account[u])]
    <2>1. r \in Request /\ r.at = "mint" /\ r.op = "login"
      BY CopyTyped, IdleTyped DEF Request
    <2>2. \A t \in Nat : t <= now => RequestOK([r EXCEPT !.began = t])
      BY CopyTyped DEF Idle, RequestOK
    <2>3. Begin(x, r)
      BY <1>1 DEF Login
    <2> HIDE DEF r
    <2>4. QED
      BY <2>1, <2>2, <2>3, Beginning
  <1>2. ASSUME NEW a \in access, ChangePassword(x, a) PROVE IInv'
    <2> DEFINE r == [Idle EXCEPT !.op = "password", !.at = "update", !.user = a.user,
                                 !.change = "password", !.seen = CopyOf(account[a.user])]
    <2>1. a.user \in Users
      BY DEF IInv, TypeOK, AccessToken
    <2>2. r \in Request /\ r.at = "update" /\ r.op = "password"
      BY ZenonT(30), <2>1, CopyTyped, IdleTyped DEF Request
    <2>3. \A t \in Nat : t <= now => RequestOK([r EXCEPT !.began = t])
      BY <2>1, CopyTyped DEF Idle, RequestOK
    <2>4. Begin(x, r)
      BY <1>2 DEF ChangePassword
    <2> HIDE DEF r
    <2>5. QED
      BY <2>2, <2>3, <2>4, Beginning
  <1>3. ASSUME NEW a \in access, NEW u \in Users, ResetPassword(x, a, u) PROVE IInv'
    <2> DEFINE r == [Idle EXCEPT !.op = "reset", !.at = "update", !.user = u,
                                 !.change = "password"]
    <2>1. r \in Request /\ r.at = "update" /\ r.op = "reset"
      BY ZenonT(30), IdleTyped DEF Request
    <2>2. \A t \in Nat : t <= now => RequestOK([r EXCEPT !.began = t])
      BY DEF Idle, RequestOK
    <2>3. Begin(x, r)
      BY <1>3 DEF ResetPassword
    <2> HIDE DEF r
    <2>4. QED
      BY <2>1, <2>2, <2>3, Beginning
  <1>4. ASSUME NEW a \in access, NEW u \in Users, NEW p \in Payloads, UpdateUser(x, a, u, p)
        PROVE  IInv'
    <2>1. p.role \in Roles \cup {None} /\ p.active \in BOOLEAN \cup {None}
      BY PayloadsAssumption
    <2>2. p.role # None \/ p.active # None
      BY <1>4 DEF UpdateUser
    <2>3. PICK seen \in Cached(a, u) :
            Begin(x, [Idle EXCEPT !.op = "patch", !.at = "load", !.user = u,
                                  !.role = p.role, !.active = p.active,
                                  !.change = IF p.role # None THEN "role" ELSE "active",
                                  !.seen = seen])
      BY <1>4 DEF UpdateUser
    <2> DEFINE r == [Idle EXCEPT !.op = "patch", !.at = "load", !.user = u,
                                 !.role = p.role, !.active = p.active,
                                 !.change = IF p.role # None THEN "role" ELSE "active",
                                 !.seen = seen]
    <2>4. seen \in Copy \cup {None}
      BY CopyTyped DEF Cached
    <2> DEFINE c == IF p.role # None THEN "role" ELSE "active"
               s == [Idle EXCEPT !.op = "patch", !.at = "load", !.user = u, !.change = c,
                                 !.seen = seen]
    <2>5. r \in Request /\ r.at = "load" /\ r.op = "patch"
      <3>1. c \in {"role", "active"}
        OBVIOUS
      <3> HIDE DEF c
      <3>2. s \in Request
        BY ZenonT(30), <2>4, <3>1, IdleTyped DEF Request
      <3>3. r = [s EXCEPT !.role = p.role, !.active = p.active]
        BY IdleTyped DEF Request, c
      <3> HIDE DEF s, r
      <3>4. r \in Request
        BY <2>1, <3>2, <3>3 DEF Request
      <3>5. s.at = "load" /\ s.op = "patch"
        BY IdleTyped DEF Request, s
      <3>6. QED
        BY <3>2, <3>3, <3>4, <3>5 DEF Request
    <2>6. ChangeOK(r)
      BY <2>1, <2>2 DEF Idle, ChangeOK
    <2>7. \A t \in Nat : t <= now => RequestOK([r EXCEPT !.began = t])
      BY <2>6 DEF Idle, RequestOK, ChangeOK
    <2>8. Begin(x, r)
      BY <2>3
    <2> HIDE DEF r
    <2>9. QED
      BY <2>5, <2>7, <2>8, Beginning
  <1>5. QED
    BY <1>1, <1>2, <1>3, <1>4 DEF Ask

-----------------------------------------------------------------------------
(* The steps of a request *)

\* The account a change makes is an account, and keeps its marker.
LEMMA TargetTyped ==
  ASSUME NEW r \in Request, ChangeOK(r) \/ r.change = "password"
  PROVE  /\ \A row \in Copy : Target(r, row) \in Copy
         /\ \A row \in AccountRow :
              /\ Target(r, row) \in AccountRow
              /\ Target(r, row).changed = row.changed
              /\ Target(r, row).role = IF r.change = "role" THEN r.role ELSE row.role
              /\ Target(r, row).active = IF r.change = "active" THEN r.active ELSE row.active
  <1>1. CASE r.change = "role" /\ r.role \in Roles
    BY <1>1 DEF Target, Copy, AccountRow
  <1>2. CASE r.change = "active" /\ r.active \in BOOLEAN
    BY <1>2 DEF Target, Copy, AccountRow
  <1>3. CASE r.change = "password"
    BY <1>3 DEF Target
  <1>4. QED
    BY <1>1, <1>2, <1>3 DEF ChangeOK

LEMMA MintingTyped ==
  ASSUME NEW u \in Users, NEW c \in Copy
  PROVE  [Idle EXCEPT !.op = "password", !.at = "mint", !.user = u, !.seen = c] \in Request
  BY IdleTyped DEF Request

\* After a transaction: the second service of a PATCH, the minting of a token, or nothing.
LEMMA AndThenOK ==
  ASSUME IInv, NEW r \in Request, r.user \in Users, r.began <= now,
         r.op = "password" => r.seen \in Copy
  PROVE  AndThen(r) \in Request /\ RequestOK(AndThen(r)) /\ AndThen(r).at # "commit"
  <1>0. 0 <= now
    BY DEF IInv, TypeOK
  <1>1. CASE r.op = "patch" /\ r.change = "role" /\ r.active # None
    <2> DEFINE s == [r EXCEPT !.at = "load", !.change = "active", !.before = None,
                              !.counted = None]
    <2>1. AndThen(r) = s
      BY <1>1 DEF AndThen
    <2>2. s \in Request /\ s.at = "load" /\ s.op = "patch" /\ s.change = "active"
          /\ s.active = r.active /\ s.user = r.user /\ s.began = r.began
      BY <1>1 DEF Request
    <2>3. s.active \in BOOLEAN
      BY <1>1, <2>2 DEF Request
    <2> HIDE DEF s
    <2>4. QED
      BY <2>1, <2>2, <2>3 DEF RequestOK, ChangeOK
  <1>2. CASE r.op = "password"
    <2> DEFINE s == [Idle EXCEPT !.op = "password", !.at = "mint", !.user = r.user,
                                 !.seen = r.seen]
    <2>1. AndThen(r) = s
      BY <1>2 DEF AndThen
    <2>2. s \in Request
      BY <1>2, MintingTyped
    <2>3. RequestOK(s) /\ s.at # "commit"
      BY <1>0, <1>2 DEF Idle, RequestOK
    <2>4. QED
      BY <2>1, <2>2, <2>3
  <1>3. CASE ~(r.op = "patch" /\ r.change = "role" /\ r.active # None) /\ r.op # "password"
    <2>1. AndThen(r) = Idle
      BY <1>3 DEF AndThen
    <2>2. RequestOK(Idle) /\ Idle.at # "commit"
      BY <1>0 DEF Idle, RequestOK
    <2>3. QED
      BY <2>1, <2>2, IdleTyped
  <1>4. QED
    BY <1>1, <1>2, <1>3

LEMMA LoadIInv ==
  ASSUME IInv, NEW x \in Requests, Load(x)
  PROVE  IInv'
  <1>1. PICK r : r = request[x]
    OBVIOUS
  <1>2. r \in Request /\ RequestOK(r) /\ r.at = "load"
    BY <1>1 DEF Load, IInv, TypeOK
  <1>3. r.user \in Users /\ r.op = "patch" /\ ChangeOK(r) /\ r.began <= now
    BY <1>2 DEF RequestOK
  <1>4. PICK row : row = IF r.seen = None THEN CopyOf(account[r.user]) ELSE r.seen
    OBVIOUS
  <1>5. row \in Copy
    BY <1>2, <1>3, <1>4, CopyTyped DEF Request
  <1> DEFINE l == [r EXCEPT !.seen = row, !.before = row]
  <1>6. l \in Request /\ l.user = r.user /\ l.op = "patch" /\ l.began = r.began
        /\ l.before = row /\ l.change = r.change /\ l.role = r.role /\ l.active = r.active
    BY <1>2, <1>3, <1>5 DEF Request
  <1>7. Target(r, row) = Target(l, row)
    BY <1>6 DEF Target
  <1>8. ASSUME Think(x, AndThen(l)) PROVE IInv'
    <2>1. AndThen(l) \in Request /\ RequestOK(AndThen(l)) /\ AndThen(l).at # "commit"
      BY <1>3, <1>6, AndThenOK
    <2>2. QED
      BY <1>1, <1>2, <1>8, <2>1, Thinking
  <1>9. ASSUME NEW at \in {"count", "update"}, Think(x, [l EXCEPT !.at = at]),
               at = "update" => ~(IsAdmin(row) /\ ~IsAdmin(Target(l, row)))
        PROVE  IInv'
    <2> DEFINE s == [l EXCEPT !.at = at]
    <2>1. s \in Request /\ s.at = at /\ s.user = r.user /\ s.op = "patch" /\ s.began = r.began
          /\ s.before = row /\ s.change = r.change /\ s.role = r.role /\ s.active = r.active
      BY ZenonT(30), <1>6 DEF Request
    <2> HIDE DEF s, l
    <2>2. Target(s, row) = Target(l, row) /\ ChangeOK(s)
      BY <1>3, <1>6, <2>1 DEF Target, ChangeOK
    <2>3. RequestOK(s)
      BY <1>3, <1>5, <1>9, <2>1, <2>2 DEF RequestOK
    <2>4. Think(x, s)
      BY <1>9 DEF s
    <2>5. QED
      BY <1>1, <1>2, <2>1, <2>3, <2>4, Thinking
  <1>10. \/ Think(x, AndThen(l))
         \/ IsAdmin(row) /\ ~IsAdmin(Target(r, row)) /\ Think(x, [l EXCEPT !.at = "count"])
         \/ ~(IsAdmin(row) /\ ~IsAdmin(Target(r, row))) /\ Think(x, [l EXCEPT !.at = "update"])
    BY <1>1, <1>4 DEF Load
  <1> HIDE DEF l
  <1>11. QED
    BY <1>7, <1>8, <1>9, <1>10

LEMMA AdminsCounted ==
  /\ IsFiniteSet(ActiveAdmins)
  /\ Cardinality(ActiveAdmins) \in Nat
  /\ Cardinality(Users) \in Nat
  /\ Cardinality(ActiveAdmins) <= Cardinality(Users)
  <1>1. ActiveAdmins \subseteq Users
    BY DEF ActiveAdmins
  <1>2. QED
    BY <1>1, UsersAssumption, FS_Subset, FS_CardinalityType

LEMMA CountIInv ==
  ASSUME IInv, NEW x \in Requests, CountActiveAdmins(x)
  PROVE  IInv'
  <1>1. PICK r : r = request[x]
    OBVIOUS
  <1>2. r \in Request /\ RequestOK(r) /\ r.at = "count"
    BY <1>1 DEF CountActiveAdmins, IInv, TypeOK
  <1>3. r.user \in Users /\ r.op = "patch" /\ ChangeOK(r) /\ r.began <= now /\ r.before \in Copy
    BY <1>2 DEF RequestOK
  <1>4. PICK n : n = Cardinality(ActiveAdmins)
    OBVIOUS
  <1>5. n \in 0..Cardinality(Users)
    BY <1>4, AdminsCounted
  <1>6. CASE LastIfOne(n)
    <2>1. Think(x, Idle)
      BY <1>4, <1>6 DEF CountActiveAdmins
    <2>2. RequestOK(Idle) /\ Idle.at # "commit"
      BY DEF Idle, RequestOK, IInv, TypeOK
    <2>3. QED
      BY <1>1, <1>2, <2>1, <2>2, IdleTyped, Thinking
  <1>7. CASE ~LastIfOne(n)
    <2> DEFINE s == [r EXCEPT !.counted = n, !.at = "update"]
    <2>1. s \in Request /\ s.at = "update" /\ s.user = r.user /\ s.op = "patch"
          /\ s.began = r.began /\ s.before = r.before /\ s.change = r.change
          /\ s.role = r.role /\ s.active = r.active /\ s.counted = n
      BY <1>2, <1>3, <1>5 DEF Request
    <2>2. Think(x, s)
      BY <1>1, <1>4, <1>7 DEF CountActiveAdmins
    <2> HIDE DEF s
    <2>3. ChangeOK(s) /\ n > 1
      BY <1>3, <1>5, <1>7, <2>1, AdminsCounted DEF ChangeOK, LastIfOne
    <2>4. RequestOK(s)
      BY <1>3, <1>5, <2>1, <2>3, AdminsCounted DEF RequestOK
    <2>5. QED
      BY <1>1, <1>2, <2>1, <2>2, <2>4, Thinking
  <1>8. QED
    BY <1>6, <1>7

LEMMA MintIInv ==
  ASSUME IInv, NEW x \in Requests, Mint(x)
  PROVE  IInv'
  <1>1. PICK r : r = request[x]
    OBVIOUS
  <1>2. r \in Request /\ RequestOK(r) /\ r.at = "mint"
    BY <1>1 DEF Mint, IInv, TypeOK
  <1>3. r.user \in Users /\ r.seen \in Copy
    BY <1>2 DEF RequestOK
  <1>4. Second(now) \in 0..Second(MaxTime)
    <2>1. now \in Nat /\ MaxTime \in Nat /\ now <= MaxTime
      BY ClockAssumption DEF IInv, TypeOK
    <2>2. Second(now) \in Nat /\ Second(now) <= Second(MaxTime) /\ Second(MaxTime) \in Nat
      BY <2>1, SecondMonotone
    <2>3. QED
      BY <2>2
  <1>5. access' \subseteq AccessToken
    BY <1>1, <1>3, <1>4 DEF Mint, AccessToken, Copy, IInv, TypeOK
  <1>6. RequestOK(Idle) /\ Idle.at # "commit"
    BY DEF Idle, RequestOK, IInv, TypeOK
  <1>7. QED
    BY <1>1, <1>2, <1>5, <1>6, IdleTyped, Moving DEF Mint

\* UPDATE app_user, once the row is free.
LEMMA UpdateIInv ==
  ASSUME IInv, NEW x \in Requests, UpdateAccount(x)
  PROVE  IInv'
  <1>1. PICK r : r = request[x]
    OBVIOUS
  <1>2. PICK u : u = r.user
    OBVIOUS
  <1>3. r \in Request /\ RequestOK(r) /\ r.at = "update"
    BY <1>1 DEF UpdateAccount, IInv, TypeOK
  <1>4. u \in Users /\ (ChangeOK(r) \/ r.change = "password") /\ r.began <= now
    BY <1>2, <1>3 DEF RequestOK
  <1>5. accountHolder[u] = None /\ A!Sees(x, u) = account[u]
    <2>1. accountHolder[u] # x
      BY <1>1, <1>3, <1>4 DEF IInv, TypeOK
    <2>2. QED
      BY <1>1, <1>2, <1>4, <2>1
         DEF UpdateAccount, A!WriteRow, A!Write, A!Free, A!Sees
  <1>6. PICK d : d = Stamped(r, account[u])
    OBVIOUS
  <1>7. /\ d \in AccountRow /\ d.changed = now
        /\ d.role = Target(r, account[u]).role /\ d.active = Target(r, account[u]).active
    <2>1. Target(r, account[u]) \in AccountRow
      BY <1>3, <1>4, CopyTyped, TargetTyped
    <2>2. now \in 0..MaxTime
      BY DEF IInv, TypeOK
    <2>3. QED
      BY <1>6, <2>1, <2>2 DEF Stamped, Stamp, AccountRow
  <1>8. PICK c : c = IF r.seen = None THEN None ELSE Target(r, r.seen)
    OBVIOUS
  <1>9. c \in Copy \cup {None} /\ (r.seen \in Copy => c \in Copy)
    BY <1>3, <1>4, <1>8, TargetTyped, NoneAssumption DEF Request
  <1>10. PICK s : s = [r EXCEPT !.at = "commit", !.seen = c]
    OBVIOUS
  <1>11. s \in Request /\ s.at = "commit" /\ s.seen = c /\ s.user = r.user /\ s.op = r.op
         /\ s.began = r.began /\ s.before = r.before /\ s.change = r.change
         /\ s.role = r.role /\ s.active = r.active /\ s.counted = r.counted
    BY <1>3, <1>9, <1>10 DEF Request
  <1>12. /\ account' = account /\ access' = access /\ now' = now
         /\ accountDraft' = [k \in Users |-> IF k = u THEN d ELSE accountDraft[k]]
         /\ accountHolder' = [k \in Users |-> IF k = u THEN x ELSE accountHolder[k]]
    BY <1>1, <1>2, <1>5, <1>6 DEF UpdateAccount, A!WriteRow, A!Write
  <1>13. request' \in [Requests -> Request] /\ request'[x] = s
         /\ \A y \in Requests \ {x} : request'[y] = request[y]
    BY <1>1, <1>3, <1>8, <1>10, <1>11 DEF UpdateAccount, IInv, TypeOK
  <1>14. TypeOK'
    <2>1. A!TableOK(AccountRow)'
      BY <1>4, <1>7, <1>12, NoneAssumption DEF IInv, TypeOK, A!TableOK
    <2>2. \A k \in Users, y \in Requests : accountHolder'[k] = y => request'[y].at = "commit"
      BY <1>11, <1>12, <1>13 DEF IInv, TypeOK
    <2>3. QED
      BY <1>12, <1>13, <2>1, <2>2 DEF IInv, TypeOK
  <1>15. ASSUME NEW y \in Requests PROVE RequestOK(request[y])' /\ CommitOK(y)'
    <2>1. CASE y = x
      <3>1. RequestOK(s)
        BY <1>3, <1>9, <1>11 DEF RequestOK, ChangeOK, Target
      <3>2. RequestOK(request[y])'
        BY <1>12, <1>13, <2>1, <3>1 DEF RequestOK, ChangeOK, Target, IsAdmin
      <3>3. Target(s, account[u]) = Target(r, account[u])
        BY <1>11 DEF Target
      <3>4. CommitOK(y)'
        BY <1>2, <1>4, <1>7, <1>11, <1>12, <1>13, <2>1, <3>3 DEF CommitOK, Target
      <3>5. QED
        BY <3>2, <3>4
    <2>2. CASE y # x
      <3>1. RequestOK(request[y]) /\ CommitOK(y) /\ request'[y] = request[y]
        BY <1>13, <2>2 DEF IInv
      <3>2. request[y].at = "commit" => request[y].user # u /\ request[y].user \in Users
        BY <1>5, <3>1, NoneAssumption DEF CommitOK, RequestOK
      <3>3. QED
        BY <1>12, <3>1, <3>2 DEF RequestOK, ChangeOK, CommitOK, Target
    <2>3. QED
      BY <2>1, <2>2
  <1>16. ASSUME NEW k \in Users PROVE MarkerOK(k)' /\ HolderOK(k)'
    <2>1. MarkerOK(k) /\ HolderOK(k)
      BY DEF IInv
    <2>2. CASE k = u
      BY <1>2, <1>7, <1>11, <1>12, <1>13, <2>1, <2>2 DEF MarkerOK, HolderOK, IInv, TypeOK
    <2>3. CASE k # u
      <3>1. accountHolder[k] # x
        BY <1>1, <1>3 DEF IInv, TypeOK
      <3>2. MarkerOK(k)'
        BY <1>12, <2>1, <2>3 DEF MarkerOK
      <3>3. HolderOK(k)'
        BY <1>12, <1>13, <2>1, <2>3, <3>1 DEF HolderOK
      <3>4. QED
        BY <3>2, <3>3
    <2>4. QED
      BY <2>2, <2>3
  <1>17. QED
    BY <1>14, <1>15, <1>16 DEF IInv

-----------------------------------------------------------------------------
(* The end of a transaction *)

\* Locks and drafts of x are gone, and each account has kept its version or taken
\* the one x had written.
LEMMA Ending ==
  ASSUME IInv, NEW x \in Requests, NEW r \in Request,
         request' = [request EXCEPT ![x] = r], UNCHANGED <<access, now>>, A!Release(x),
         account' \in [Users -> AccountRow],
         \A u \in Users : account'[u] = account[u]
                          \/ (accountHolder[u] = x /\ account'[u] = accountDraft[u]),
         r.at # "commit", RequestOK(r)
  PROVE  IInv'
  <1>1. request' \in [Requests -> Request] /\ request'[x] = r
        /\ \A y \in Requests \ {x} : request'[y] = request[y]
    BY DEF IInv, TypeOK
  <1>2. \A u \in Users :
          /\ accountDraft'[u] = IF accountHolder[u] = x THEN None ELSE accountDraft[u]
          /\ accountHolder'[u] = IF accountHolder[u] = x THEN None ELSE accountHolder[u]
    BY DEF A!Release
  <1>3. TypeOK'
    <2>1. A!TableOK(AccountRow)'
      BY <1>2, NoneAssumption DEF IInv, TypeOK, A!TableOK, A!Release
    <2>2. \A u \in Users, y \in Requests : accountHolder'[u] = y => request'[y].at = "commit"
      BY <1>1, <1>2, NoneAssumption DEF IInv, TypeOK
    <2>3. QED
      BY <1>1, <2>1, <2>2 DEF IInv, TypeOK
  <1>4. ASSUME NEW y \in Requests PROVE RequestOK(request[y])' /\ CommitOK(y)'
    <2>1. CASE y = x
      BY <1>1, <2>1 DEF RequestOK, ChangeOK, CommitOK, Target
    <2>2. CASE y # x
      <3>1. RequestOK(request[y]) /\ CommitOK(y) /\ request'[y] = request[y]
        BY <1>1, <2>2 DEF IInv
      <3>2. request[y].at = "commit" =>
              LET u == request[y].user
              IN /\ u \in Users
                 /\ account'[u] = account[u]
                 /\ accountHolder'[u] = accountHolder[u]
                 /\ accountDraft'[u] = accountDraft[u]
        BY <1>2, <2>2, <3>1 DEF CommitOK, RequestOK
      <3>3. QED
        BY <3>1, <3>2 DEF RequestOK, ChangeOK, CommitOK, Target
    <2>3. QED
      BY <2>1, <2>2
  <1>5. ASSUME NEW u \in Users PROVE MarkerOK(u)' /\ HolderOK(u)'
    <2>1. MarkerOK(u) /\ HolderOK(u)
      BY DEF IInv
    <2>2. MarkerOK(u)'
      BY <1>2, <2>1, NoneAssumption DEF MarkerOK
    <2>3. HolderOK(u)'
      BY <1>1, <1>2, <2>1, NoneAssumption DEF HolderOK
    <2>4. QED
      BY <2>2, <2>3
  <1>6. QED
    BY <1>3, <1>4, <1>5 DEF IInv

\* What a COMMIT publishes: the one account of the request.
LEMMA Committed ==
  ASSUME IInv, NEW x \in Requests, Commit(x), NEW u, u = request[x].user
  PROVE  /\ request[x] \in Request /\ RequestOK(request[x]) /\ request[x].at = "commit"
         /\ u \in Users
         /\ accountHolder[u] = x
         /\ accountDraft[u] \in AccountRow
         /\ \A k \in Users : account'[k] = IF k = u THEN accountDraft[u] ELSE account[k]
         /\ account' \in [Users -> AccountRow]
         /\ account[u].changed <= accountDraft[u].changed
         /\ request[x].began <= accountDraft[u].changed
         /\ accountDraft[u].role = Target(request[x], account[u]).role
         /\ accountDraft[u].active = Target(request[x], account[u]).active
  <1>1. request[x] \in Request /\ RequestOK(request[x]) /\ CommitOK(x)
        /\ request[x].at = "commit"
    BY DEF Commit, IInv, TypeOK
  <1>2. u \in Users
    BY <1>1 DEF RequestOK
  <1>3. /\ accountHolder[u] = x
        /\ accountDraft[u].role = Target(request[x], account[u]).role
        /\ accountDraft[u].active = Target(request[x], account[u]).active
        /\ request[x].began <= accountDraft[u].changed
    BY <1>1 DEF CommitOK
  <1>4. accountDraft[u] \in AccountRow
    BY <1>2, <1>3, NoneAssumption DEF IInv, TypeOK, A!TableOK
  <1>5. \A k \in Users : accountHolder[k] = x => k = u
    BY DEF IInv, HolderOK
  <1>6. account' = [k \in Users |-> IF k = u THEN accountDraft[u] ELSE account[k]]
    BY <1>2, <1>3, <1>5 DEF Commit, A!Publish, A!Sees
  <1>7. account[u].changed <= accountDraft[u].changed
    BY <1>2, <1>3, NoneAssumption DEF IInv, MarkerOK
  <1>8. /\ account' \in [Users -> AccountRow]
        /\ \A k \in Users : account'[k] = IF k = u THEN accountDraft[u] ELSE account[k]
    BY <1>4, <1>6 DEF IInv, TypeOK
  <1>9. QED
    BY <1>1, <1>2, <1>3, <1>4, <1>7, <1>8

LEMMA CommitIInv ==
  ASSUME IInv, NEW x \in Requests, Commit(x)
  PROVE  IInv'
  <1>1. PICK u : u = request[x].user
    OBVIOUS
  <1>2. PICK r : r = request[x]
    OBVIOUS
  <1>3. r \in Request /\ RequestOK(r) /\ account' \in [Users -> AccountRow]
    BY <1>1, <1>2, Committed
  <1>0. /\ u \in Users /\ accountHolder[u] = x
        /\ \A k \in Users : account'[k] = IF k = u THEN accountDraft[u] ELSE account[k]
    BY <1>1, Committed
  <1>4. r.user \in Users /\ r.began <= now /\ (r.op = "password" => r.seen \in Copy)
    BY <1>0, <1>1, <1>2, <1>3 DEF RequestOK
  <1>5. PICK s : s = AndThen(r)
    OBVIOUS
  <1>6. s \in Request /\ RequestOK(s) /\ s.at # "commit"
    BY <1>3, <1>4, <1>5, AndThenOK
  <1>7. request' = [request EXCEPT ![x] = s] /\ UNCHANGED <<access, now>> /\ A!Release(x)
    BY <1>2, <1>5 DEF Commit, A!Publish, IInv, TypeOK
  <1>8. ASSUME NEW k \in Users
        PROVE  account'[k] = account[k] \/ (accountHolder[k] = x /\ account'[k] = accountDraft[k])
    BY <1>0
  <1>9. QED
    BY <1>3, <1>6, <1>7, <1>8, Ending

LEMMA RollbackIInv ==
  ASSUME IInv, NEW x \in Requests, Rollback(x)
  PROVE  IInv'
  <1>1. RequestOK(Idle) /\ Idle.at # "commit"
    BY DEF Idle, RequestOK, IInv, TypeOK
  <1>2. account' = account /\ account \in [Users -> AccountRow]
    BY DEF Rollback, A!Discard, IInv, TypeOK
  <1>3. /\ request' = [request EXCEPT ![x] = Idle] /\ UNCHANGED <<access, now>>
        /\ A!Release(x)
    BY DEF Rollback, A!Discard
  <1>4. \A u \in Users : account'[u] = account[u]
    BY <1>2
  <1>5. QED
    BY <1>1, <1>2, <1>3, <1>4, IdleTyped, Ending

LEMMA TickIInv ==
  ASSUME IInv, Tick
  PROVE  IInv'
  <1> USE DEF Tick
  <1>1. now \in Nat /\ now' \in 0..MaxTime /\ now <= now'
    BY ClockAssumption DEF IInv, TypeOK
  <1>2. TypeOK'
    BY <1>1 DEF IInv, TypeOK, A!TableOK
  <1>3. ASSUME NEW x \in Requests PROVE RequestOK(request[x])' /\ CommitOK(x)'
    <2>1. request[x].began \in Nat
      BY DEF IInv, TypeOK, Request
    <2>2. RequestOK(request[x]) /\ CommitOK(x)
      BY DEF IInv
    <2>3. QED
      BY <1>1, <2>1, <2>2 DEF RequestOK, ChangeOK, CommitOK, Target
  <1>4. ASSUME NEW u \in Users PROVE MarkerOK(u)' /\ HolderOK(u)'
    <2>1. account[u].changed \in Nat
      BY ClockAssumption DEF IInv, TypeOK, AccountRow
    <2>2. accountHolder[u] # None => accountDraft[u].changed \in Nat
      BY ClockAssumption DEF IInv, TypeOK, A!TableOK, AccountRow
    <2>3. MarkerOK(u) /\ HolderOK(u)
      BY DEF IInv
    <2>4. QED
      BY <1>1, <2>1, <2>2, <2>3 DEF MarkerOK, HolderOK
  <1>5. QED
    BY <1>2, <1>3, <1>4 DEF IInv

LEMMA NextIInv == IInv /\ [Next]_vars => IInv'
  <1> SUFFICES ASSUME IInv, [Next]_vars PROVE IInv'
    OBVIOUS
  <1>1. CASE UNCHANGED vars
    BY <1>1 DEF vars, IInv, TypeOK, A!TableOK, RequestOK, ChangeOK, CommitOK, Target,
                MarkerOK, HolderOK
  <1>2. CASE Tick
    BY <1>2, TickIInv
  <1>3. CASE \E x \in Requests : \/ Ask(x) \/ Load(x) \/ CountActiveAdmins(x)
                                 \/ UpdateAccount(x) \/ Commit(x) \/ Mint(x) \/ Rollback(x)
    BY <1>3, AskIInv, LoadIInv, CountIInv, UpdateIInv, CommitIInv, MintIInv, RollbackIInv
  <1>4. QED
    BY <1>1, <1>2, <1>3 DEF Next

LEMMA Invariance == Spec => []IInv
  BY InitIInv, NextIInv, PTL DEF Spec

-----------------------------------------------------------------------------
(* Theorems *)

\* The table is well-formed, and only a request about to commit holds an account.
THEOREM TypeCorrect == Spec => []TypeOK
  BY Invariance, PTL DEF IInv

LEMMA PublishedByCommit ==
  ASSUME [Next]_vars
  PROVE  account' = account \/ \E x \in Requests : Commit(x)
  <1> USE DEF Begin, Think
  <1>1. CASE UNCHANGED vars
    BY <1>1 DEF vars
  <1>2. CASE Tick
    BY <1>2 DEF Tick
  <1>3. ASSUME NEW x \in Requests, Ask(x) PROVE account' = account
    BY <1>3 DEF Ask, Login, ChangePassword, ResetPassword, UpdateUser
  <1>4. ASSUME NEW x \in Requests, Load(x) \/ CountActiveAdmins(x) PROVE account' = account
    BY <1>4 DEF Load, CountActiveAdmins
  <1>5. ASSUME NEW x \in Requests, UpdateAccount(x) \/ Mint(x) \/ Rollback(x)
        PROVE account' = account
    BY <1>5 DEF UpdateAccount, Mint, Rollback, A!WriteRow, A!Write, A!Discard
  <1>6. QED
    BY <1>1, <1>2, <1>3, <1>4, <1>5 DEF Next

\* A marker never goes back: it is stamped under the lock, after the marker it replaces.
LEMMA MarkersAdvance ==
  ASSUME IInv, [Next]_vars, NEW u \in Users
  PROVE  /\ account[u].changed \in Nat /\ account'[u].changed \in Nat
         /\ account[u].changed <= account'[u].changed
  <1>1. account[u].changed \in Nat
    BY ClockAssumption DEF IInv, TypeOK, AccountRow
  <1>2. CASE account' = account
    BY <1>1, <1>2
  <1>3. ASSUME NEW x \in Requests, Commit(x)
        PROVE  account'[u].changed \in Nat /\ account[u].changed <= account'[u].changed
    <2>1. PICK v : v = request[x].user
      OBVIOUS
    <2>2. /\ accountDraft[v] \in AccountRow
          /\ account[v].changed <= accountDraft[v].changed
          /\ account'[u] = IF u = v THEN accountDraft[v] ELSE account[u]
      BY <1>3, <2>1, Committed
    <2>3. QED
      BY <1>1, <2>2, ClockAssumption DEF AccountRow
  <1>4. QED
    BY <1>1, <1>2, <1>3, PublishedByCommit

\* A stale token is never accepted again.
THEOREM StaleForGood == Spec => RefusedForGood
  <1>1. ASSUME IInv, [Next]_vars, NEW a \in access, Stale(a)
        PROVE  Stale(a)'
    <2>1. a.user \in Users /\ a.iat \in Nat
      <3>1. MaxTime \in Nat
        BY ClockAssumption
      <3>2. Second(MaxTime) \in Nat
        BY <3>1, SecondMonotone
      <3>3. QED
        BY <1>1, <3>2 DEF IInv, TypeOK, AccessToken
    <2>2. PICK m, n : m = account[a.user].changed /\ n = account'[a.user].changed
      OBVIOUS
    <2>3. m \in Nat /\ n \in Nat /\ m <= n
      BY <1>1, <2>1, <2>2, MarkersAdvance
    <2>4. Second(m) \in Nat /\ Second(n) \in Nat /\ Second(m) <= Second(n)
      BY <2>3, SecondMonotone
    <2>5. a.iat < Second(m)
      BY <1>1, <2>2 DEF Stale
    <2>6. QED
      BY <2>1, <2>2, <2>4, <2>5 DEF Stale
  <1>2. IInv /\ [Next]_vars => [\A a \in access : Stale(a) => Stale(a)']_vars
    BY <1>1
  <1>3. QED
    BY <1>2, Invariance, PTL DEF Spec, RefusedForGood

\* A committed change makes stale the tokens issued before the second its request began in.
THEOREM ChangesKillOlderTokens == Spec => OlderTokensDie
  <1>1. ASSUME IInv, NEW x \in Requests, Commit(x), NEW a \in access,
               a.user = request[x].user, a.iat < Second(request[x].began)
        PROVE  Stale(a)'
    <2>1. PICK u, b : u = request[x].user /\ b = request[x].began
      OBVIOUS
    <2>2. /\ request[x] \in Request /\ u \in Users
          /\ accountDraft[u] \in AccountRow
          /\ b <= accountDraft[u].changed
          /\ account'[u] = accountDraft[u]
      BY <1>1, <2>1, Committed
    <2>3. PICK n : n = account'[u].changed
      OBVIOUS
    <2>4. b \in Nat /\ n \in Nat /\ b <= n
      BY <2>1, <2>2, <2>3, ClockAssumption DEF Request, AccountRow
    <2>5. Second(b) \in Nat /\ Second(n) \in Nat /\ Second(b) <= Second(n)
      BY <2>4, SecondMonotone
    <2>6. a.iat \in Nat
      <3>1. MaxTime \in Nat
        BY ClockAssumption
      <3>2. Second(MaxTime) \in Nat
        BY <3>1, SecondMonotone
      <3>3. QED
        BY <1>1, <3>2 DEF IInv, TypeOK, AccessToken
    <2>7. QED
      BY <1>1, <2>1, <2>3, <2>5, <2>6 DEF Stale
  <1>2. IInv /\ [Next]_vars =>
          [\A x \in Requests : Commit(x) =>
             \A a \in access : a.user = request[x].user /\ a.iat < Second(request[x].began)
                                 => Stale(a)']_vars
    BY <1>1
  <1>3. QED
    BY <1>2, Invariance, PTL DEF Spec, OlderTokensDie

\* A token is good when it is handed out, even in the second of its change of password.
THEOREM FreshTokens == Spec => MintedTokensWork
  <1>1. ASSUME IInv, NEW x \in Requests, Mint(x), NEW a \in access' \ access
        PROVE  ~Stale(a)'
    <2>1. a.user = request[x].user /\ a.iat = Second(now) /\ account' = account
      BY <1>1 DEF Mint
    <2>2. a.user \in Users
      <3>1. RequestOK(request[x]) /\ request[x].at = "mint"
        BY <1>1 DEF Mint, IInv
      <3>2. QED
        BY <2>1, <3>1 DEF RequestOK
    <2>3. PICK m : m = account[a.user].changed
      OBVIOUS
    <2>4. m \in Nat /\ now \in Nat /\ m <= now
      BY <1>1, <2>2, <2>3, ClockAssumption DEF IInv, TypeOK, AccountRow, MarkerOK
    <2>5. Second(m) \in Nat /\ Second(now) \in Nat /\ Second(m) <= Second(now)
      BY <2>4, SecondMonotone
    <2>6. QED
      BY <2>1, <2>3, <2>5 DEF Stale
  <1>2. IInv /\ [Next]_vars =>
          [\A x \in Requests : Mint(x) => \A a \in access' \ access : ~Stale(a)']_vars
    BY <1>1
  <1>3. QED
    BY <1>2, Invariance, PTL DEF Spec, MintedTokensWork

\* The commit of a decision that is still true leaves an administrator: if it takes
\* an administrator away, it had counted another one.
LEMMA SoundDecision ==
  ASSUME IInv, NEW x \in Requests, Commit(x), AnAdminRemains,
         request[x].before # None =>
           IsAdmin(request[x].before) = IsAdmin(account[request[x].user]),
         request[x].counted # None => request[x].counted = Cardinality(ActiveAdmins)
  PROVE  AnAdminRemains'
  <1>1. PICK r, u : r = request[x] /\ u = request[x].user
    OBVIOUS
  <1>2. /\ r \in Request /\ RequestOK(r) /\ r.at = "commit" /\ u \in Users
        /\ \A k \in Users : account'[k] = IF k = u THEN accountDraft[u] ELSE account[k]
        /\ accountDraft[u] \in AccountRow
        /\ accountDraft[u].role = Target(r, account[u]).role
        /\ accountDraft[u].active = Target(r, account[u]).active
    BY <1>1, Committed
  <1>3. ASSUME NEW v \in ActiveAdmins, v # u PROVE AnAdminRemains'
    <2>1. v \in Users /\ IsAdmin(account'[v])
      BY <1>2, <1>3 DEF ActiveAdmins, IsAdmin
    <2>2. QED
      BY <2>1 DEF AnAdminRemains, ActiveAdmins, IsAdmin
  <1>4. ASSUME IsAdmin(accountDraft[u]) PROVE AnAdminRemains'
    BY <1>2, <1>4 DEF AnAdminRemains, ActiveAdmins, IsAdmin
  <1>5. account[u] \in AccountRow
    BY <1>2, CopyTyped
  <1>6. CASE ~IsAdmin(account[u])
    <2>1. PICK v \in ActiveAdmins : TRUE
      BY DEF AnAdminRemains
    <2>2. v # u
      BY <1>6, <2>1 DEF ActiveAdmins
    <2>3. QED
      BY <1>3, <2>1, <2>2
  <1>7. CASE IsAdmin(account[u]) /\ r.change = "password"
    <2>1. Target(r, account[u]) = account[u]
      BY <1>7 DEF Target
    <2>2. IsAdmin(accountDraft[u])
      BY <1>2, <1>7, <2>1 DEF IsAdmin
    <2>3. QED
      BY <1>4, <2>2
  <1>8. CASE IsAdmin(account[u]) /\ r.change # "password"
    <2>1. r.op = "patch" /\ ChangeOK(r) /\ r.before \in Copy
      BY <1>2, <1>8 DEF RequestOK
    <2>2. IsAdmin(r.before)
      BY <1>1, <1>8, <2>1, NoneAssumption
    <2>3. CASE IsAdmin(Target(r, r.before))
      <3>1. IsAdmin(Target(r, account[u]))
        <4>1. CASE r.change = "role"
          BY <1>5, <1>8, <2>1, <2>3, <4>1 DEF Target, IsAdmin, Copy, AccountRow
        <4>2. CASE r.change = "active"
          BY <1>5, <1>8, <2>1, <2>3, <4>2 DEF Target, IsAdmin, Copy, AccountRow
        <4>3. QED
          BY <2>1, <4>1, <4>2 DEF ChangeOK
      <3>2. IsAdmin(accountDraft[u])
        BY <1>2, <3>1 DEF IsAdmin
      <3>3. QED
        BY <1>4, <3>2
    <2>4. CASE ~IsAdmin(Target(r, r.before))
      <3>1. r.counted \in Nat /\ r.counted > 1
        BY <1>2, <2>1, <2>2, <2>4 DEF RequestOK
      <3>2. Cardinality(ActiveAdmins) > 1
        BY <1>1, <3>1, NoneAssumption
      <3>3. ActiveAdmins # {u}
        <4>1. Cardinality({u}) = 1
          BY FS_Singleton
        <4>2. QED
          BY <3>2, <4>1
      <3>4. PICK v \in ActiveAdmins : v # u
        BY <3>3 DEF AnAdminRemains
      <3>5. QED
        BY <1>3, <3>4
    <2>5. QED
      BY <2>3, <2>4
  <1>9. QED
    BY <1>6, <1>7, <1>8

\* Only a stale copy or a stale count lets a change take the last administrator.
THEOREM GuardHolds == Spec => OnlyRacesRemoveTheLastAdmin
  <1>1. IInv /\ [Next]_vars =>
          [\A x \in Requests :
             LET r == request[x]
             IN /\ Commit(x) /\ AnAdminRemains
                /\ r.before # None => IsAdmin(r.before) = IsAdmin(account[r.user])
                /\ r.counted # None => r.counted = Cardinality(ActiveAdmins)
                => AnAdminRemains']_vars
    BY SoundDecision
  <1>2. QED
    BY <1>1, Invariance, PTL DEF Spec, OnlyRacesRemoveTheLastAdmin
=============================================================================
