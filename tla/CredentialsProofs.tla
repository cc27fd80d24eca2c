--------------------------- MODULE CredentialsProofs ---------------------------
(***************************************************************************)
(* Proofs about Credentials, for any sets of identifiers, addresses,       *)
(* passwords and links, any finite set of requests in flight and any       *)
(* limits.  The counts over a window, and the number of living links, are  *)
(* in LimitsProofs.                                                        *)
(***************************************************************************)
EXTENDS Credentials, TLAPS

-----------------------------------------------------------------------------
(* The inductive invariant *)

\* What a request carries at each of its stages.
Shape(r) ==
  /\ r.op = "none" => r.at = "idle"
  /\ r.op = "login" => /\ r.at \in {"read", "fail", "rehash", "touch", "commit"}
                       /\ r.ip \in Ips /\ r.new \in Passwords /\ r.old = r.new
  /\ r.op = "link" => r.at \in {"read", "fail", "invalidate", "sweep", "commit"} /\ r.ip \in Ips
  /\ r.op = "confirm" => /\ r.at \in {"claim", "reread", "password", "commit"}
                         /\ r.link \in Links /\ r.new \in Passwords
  /\ r.op \in {"change_password", "reset_password"} =>
       r.at \in {"password", "commit"} /\ r.new \in Passwords
  /\ r.op = "set_active" => r.at \in {"activate", "commit"}
  /\ r.op = "create" => r.at \in {"create", "commit"} /\ r.new \in Passwords
  /\ r.op # "none" /\ r.at # "claim" => r.email \in Emails

\* The request has found its account.
Found(r) ==
  \/ r.op \in {"change_password", "reset_password", "set_active"}
  \/ r.op = "login" /\ r.at \in {"rehash", "touch", "commit"}
  \/ r.op = "link" /\ r.at \in {"invalidate", "sweep", "commit"}
  \/ r.op = "confirm" /\ r.at # "claim"

\* What a request has established of its account holds until another commits a change of it.
Verified(r) ==
  /\ Found(r) => account[r.email] # None
  /\ r.op = "login" /\ Found(r) =>
       r.stale \/ (account[r.email].password = r.old /\ account[r.email].active)
  /\ r.op = "change_password" => r.stale \/ account[r.email].password = r.old
  /\ r.op = "confirm" /\ r.at \in {"password", "commit"} => r.stale \/ account[r.email].active

\* A request holds its own account only, and a link that is confirmed gives it its password.
AccountLocks(x) ==
  LET r == request[x]
  IN /\ \A e \in Emails : accountHolder[e] = x => e = r.email /\ r.at \in {"touch", "commit"}
     /\ r.op = "confirm" /\ r.at = "commit" =>
          accountHolder[r.email] = x /\ accountDraft[r.email].password = r.new

\* A living link of the account of r, about to die.
Dying(r, l) ==
  /\ link[l] # None /\ ~link[l].consumed /\ link[l].user = r.email
  /\ linkDraft[l] = [link[l] EXCEPT !.consumed = TRUE]

\* A request holds the links it kills and the one it issues.
LinkLocks(x) ==
  LET r == request[x]
  IN /\ \A l \in Links : linkHolder[l] = x =>
          \/ r.op = "link" /\ r.at \in {"sweep", "commit"} /\ Dying(r, l)
          \/ /\ r.op = "link" /\ r.at = "commit" /\ l = r.link
             /\ link[l] = None /\ linkDraft[l].user = r.email
          \/ r.op = "confirm" /\ r.at # "claim" /\ l = r.link /\ Dying(r, l)
     /\ r.op = "link" /\ r.at = "sweep" =>
          \A l \in r.left : link[l] # None /\ link[l].user = r.email
     /\ r.op = "link" /\ r.at = "commit" => r.link \in Links /\ linkHolder[r.link] = x
     /\ r.op = "confirm" /\ r.at # "claim" =>
          linkHolder[r.link] = x /\ link[r.link].expires > r.started

Own(x) == Shape(request[x]) /\ Verified(request[x]) /\ AccountLocks(x) /\ LinkLocks(x)

IInv ==
  /\ TypeOK
  /\ \A x \in Requests : Own(x)
  /\ \A l \in Links : link[l] # None => account[link[l].user] # None
  /\ MailFollowsCommit

-----------------------------------------------------------------------------

LEMMA IdleTyped == Idle \in Request /\ Shape(Idle) /\ ~Found(Idle)
  BY DEF Idle, Request, Ops, Stages, Outcomes, Shape, Found

LEMMA InitIInv == Init => IInv
  <1> SUFFICES ASSUME Init PROVE IInv
    OBVIOUS
  <1> USE DEF Init
  <1>1. account \in [Emails -> AccountRow \cup {None}]
    BY DEF AccountRow
  <1>2. A!TableOK(AccountRow) /\ L!TableOK(LinkRow)
    BY <1>1, NoneAssumption DEF A!TableOK, L!TableOK
  <1>3. log \in [{"login", "link"} -> Seq(Attempt)]
    OBVIOUS
  <1>4. TypeOK
    BY <1>2, <1>3, IdleTyped, NoneAssumption DEF TypeOK
  <1>5. ASSUME NEW x \in Requests PROVE Own(x)
    <2>1. request[x] = Idle
      OBVIOUS
    <2>2. Verified(Idle)
      BY IdleTyped DEF Verified, Idle
    <2>3. AccountLocks(x) /\ LinkLocks(x)
      BY <2>1, NoneAssumption DEF AccountLocks, LinkLocks, Idle
    <2>4. QED
      BY <2>1, <2>2, <2>3, IdleTyped DEF Own
  <1>6. QED
    BY <1>4, <1>5 DEF IInv, MailFollowsCommit

\* A step of x that publishes nothing and leaves the rows the others hold.
LEMMA Stepping ==
  ASSUME IInv, NEW x \in Requests, NEW r \in Request,
         request' = [request EXCEPT ![x] = r],
         UNCHANGED <<account, link, outbox, mailed, mix, now>>,
         log' \in [{"login", "link"} -> Seq(Attempt)],
         A!TableOK(AccountRow)', L!TableOK(LinkRow)',
         \A y \in Requests \ {x}, e \in Emails :
           /\ accountHolder'[e] = y <=> accountHolder[e] = y
           /\ accountHolder[e] = y => accountDraft'[e] = accountDraft[e],
         \A y \in Requests \ {x}, l \in Links :
           /\ linkHolder'[l] = y <=> linkHolder[l] = y
           /\ linkHolder[l] = y => linkDraft'[l] = linkDraft[l],
         Own(x)'
  PROVE  IInv'
  <1>1. request' \in [Requests -> Request]
        /\ \A y \in Requests \ {x} : request'[y] = request[y]
    BY DEF IInv, TypeOK
  <1>2. ASSUME NEW y \in Requests PROVE Own(y)'
    <2>1. CASE y = x
      BY <2>1
    <2>2. CASE y # x
      <3>1. Own(y) /\ request'[y] = request[y] /\ request[y] \in Request
        BY <1>1, <2>2 DEF IInv, TypeOK
      <3>2. Shape(request[y])' /\ Verified(request[y])'
        BY <3>1 DEF Own, Shape, Verified, Found
      <3>3. AccountLocks(y)'
        BY <2>2, <3>1 DEF Own, AccountLocks, Shape
      <3>4. LinkLocks(y)'
        BY <2>2, <3>1 DEF Own, LinkLocks, Dying, Shape
      <3>5. QED
        BY <3>2, <3>3, <3>4 DEF Own
    <2>3. QED
      BY <2>1, <2>2
  <1>3. ASSUME NEW y \in Requests, request'[y] = Idle
        PROVE  /\ \A e \in Emails : accountHolder'[e] # y
               /\ \A l \in Links : linkHolder'[l] # y
    BY <1>2, <1>3 DEF Own, AccountLocks, LinkLocks, Idle
  <1>4. TypeOK'
    BY <1>1, <1>3 DEF IInv, TypeOK
  <1>5. QED
    BY <1>2, <1>4 DEF IInv, MailFollowsCommit

\* A step that only moves its request on.
LEMMA Thinking ==
  ASSUME IInv, NEW x \in Requests, NEW r \in Request, Think(x, r), Shape(r), Verified(r),
         AccountLocks(x)', LinkLocks(x)'
  PROVE  IInv'
  <1>1. request'[x] = r
    BY DEF Think, IInv, TypeOK
  <1>2. Own(x)'
    BY <1>1 DEF Own, Shape, Verified, Found, Think, tables
  <1>3. A!TableOK(AccountRow)' /\ L!TableOK(LinkRow)' /\ log' \in [{"login", "link"} -> Seq(Attempt)]
    BY DEF IInv, TypeOK, A!TableOK, L!TableOK, Think, tables
  <1>4. QED
    BY <1>2, <1>3, Stepping DEF Think, tables

-----------------------------------------------------------------------------
(* Starting a request *)

LEMMA Beginning ==
  ASSUME IInv, NEW x \in Requests, NEW r \in Request, Begin(x, r), Shape(r), Verified(r),
         r.at \notin {"touch", "sweep", "commit"}, r.op = "confirm" => r.at = "claim"
  PROVE  IInv'
  <1>1. Think(x, r)
    BY DEF Begin, Think
  <1>2. /\ \A e \in Emails : accountHolder[e] # x
        /\ \A l \in Links : linkHolder[l] # x
    BY DEF Begin, IInv, TypeOK
  <1>3. request'[x] = r /\ UNCHANGED tables
    BY <1>1 DEF Think, IInv, TypeOK
  <1>4. AccountLocks(x)' /\ LinkLocks(x)'
    BY <1>2, <1>3 DEF AccountLocks, LinkLocks, tables
  <1>5. QED
    BY <1>1, <1>4, Thinking

LEMMA AskIInv ==
  ASSUME IInv, NEW x \in Requests, Ask(x)
  PROVE  IInv'
  <1>0. now \in Nat
    BY DEF IInv, TypeOK
  <1>1. ASSUME NEW e \in Emails, NEW i \in Ips, NEW p \in Passwords, Authenticate(x, e, i, p)
        PROVE  IInv'
    <2>1. PICK at \in {"read", "fail"}, outcome \in Outcomes :
            Begin(x, [Idle EXCEPT !.op = "login", !.email = e, !.ip = i, !.started = now,
                                  !.old = p, !.new = p, !.at = at, !.outcome = outcome])
      BY <1>1 DEF Authenticate, Outcomes
    <2> DEFINE r == [Idle EXCEPT !.op = "login", !.email = e, !.ip = i, !.started = now,
                                 !.old = p, !.new = p, !.at = at, !.outcome = outcome]
    <2>2. r \in Request
      BY <1>0 DEF Idle, Request, Ops, Stages
    <2>3. Shape(r) /\ Verified(r) /\ r.at = at /\ r.op = "login"
      BY DEF Idle, Shape, Verified, Found
    <2> HIDE DEF r
    <2>4. QED
      BY <2>1, <2>2, <2>3, Beginning DEF r
  <1>2. ASSUME NEW e \in Emails, NEW i \in Ips, RequestPasswordReset(x, e, i)
        PROVE  IInv'
    <2>1. PICK at \in {"read", "fail"}, outcome \in Outcomes :
            Begin(x, [Idle EXCEPT !.op = "link", !.email = e, !.ip = i, !.started = now,
                                  !.at = at, !.outcome = outcome])
      BY <1>2 DEF RequestPasswordReset, Outcomes
    <2> DEFINE r == [Idle EXCEPT !.op = "link", !.email = e, !.ip = i, !.started = now,
                                 !.at = at, !.outcome = outcome]
    <2>2. r \in Request
      BY <1>0 DEF Idle, Request, Ops, Stages
    <2>3. Shape(r) /\ Verified(r) /\ r.at = at /\ r.op = "link"
      BY DEF Idle, Shape, Verified, Found
    <2> HIDE DEF r
    <2>4. QED
      BY <2>1, <2>2, <2>3, Beginning DEF r
  <1>3. ASSUME NEW l \in Links, NEW p \in Passwords, ConfirmPasswordReset(x, l, p)
        PROVE  IInv'
    <2> DEFINE r == [Idle EXCEPT !.op = "confirm", !.link = l, !.new = p, !.at = "claim"]
    <2>1. r \in Request
      BY DEF Idle, Request, Ops, Stages, Outcomes
    <2>2. Shape(r) /\ Verified(r) /\ r.at = "claim" /\ r.op = "confirm"
      BY DEF Idle, Shape, Verified, Found
    <2>3. Begin(x, r)
      BY <1>3 DEF ConfirmPasswordReset
    <2> HIDE DEF r
    <2>4. QED
      BY <2>1, <2>2, <2>3, Beginning
  <1>4. ASSUME NEW e \in Emails, NEW p \in Passwords, NEW q \in Passwords,
               ChangePassword(x, e, p, q)
        PROVE  IInv'
    <2> DEFINE r == [Idle EXCEPT !.op = "change_password", !.email = e, !.old = p, !.new = q,
                                 !.at = "password"]
    <2>1. r \in Request
      BY DEF Idle, Request, Ops, Stages, Outcomes
    <2>2. Shape(r) /\ Verified(r) /\ r.at = "password" /\ r.op = "change_password"
      BY <1>4 DEF Idle, Shape, Verified, Found, ChangePassword
    <2>3. Begin(x, r)
      BY <1>4 DEF ChangePassword
    <2> HIDE DEF r
    <2>4. QED
      BY <2>1, <2>2, <2>3, Beginning
  <1>5. ASSUME NEW e \in Emails, NEW p \in Passwords, ResetPassword(x, e, p)
        PROVE  IInv'
    <2> DEFINE r == [Idle EXCEPT !.op = "reset_password", !.email = e, !.new = p,
                                 !.at = "password"]
    <2>1. r \in Request
      BY DEF Idle, Request, Ops, Stages, Outcomes
    <2>2. Shape(r) /\ Verified(r) /\ r.at = "password" /\ r.op = "reset_password"
      BY <1>5 DEF Idle, Shape, Verified, Found, ResetPassword
    <2>3. Begin(x, r)
      BY <1>5 DEF ResetPassword
    <2> HIDE DEF r
    <2>4. QED
      BY <2>1, <2>2, <2>3, Beginning
  <1>6. ASSUME NEW e \in Emails, NEW b \in BOOLEAN, SetActive(x, e, b)
        PROVE  IInv'
    <2> DEFINE r == [Idle EXCEPT !.op = "set_active", !.email = e, !.active = b,
                                 !.at = "activate"]
    <2>1. r \in Request
      BY DEF Idle, Request, Ops, Stages, Outcomes
    <2>2. Shape(r) /\ Verified(r) /\ r.at = "activate" /\ r.op = "set_active"
      BY <1>6 DEF Idle, Shape, Verified, Found, SetActive
    <2>3. Begin(x, r)
      BY <1>6 DEF SetActive
    <2> HIDE DEF r
    <2>4. QED
      BY <2>1, <2>2, <2>3, Beginning
  <1>7. ASSUME NEW e \in Emails, NEW p \in Passwords, Create(x, e, p)
        PROVE  IInv'
    <2> DEFINE r == [Idle EXCEPT !.op = "create", !.email = e, !.new = p, !.at = "create"]
    <2>1. r \in Request
      BY DEF Idle, Request, Ops, Stages, Outcomes
    <2>2. Shape(r) /\ Verified(r) /\ r.at = "create" /\ r.op = "create"
      BY DEF Idle, Shape, Verified, Found
    <2>3. Begin(x, r)
      BY <1>7 DEF Create
    <2> HIDE DEF r
    <2>4. QED
      BY <2>1, <2>2, <2>3, Beginning
  <1>8. QED
    BY <1>1, <1>2, <1>3, <1>4, <1>5, <1>6, <1>7 DEF Ask

-----------------------------------------------------------------------------
(* The steps of a request *)

LEMMA VerifyIInv ==
  ASSUME IInv, NEW x \in Requests, Verify(x)
  PROVE  IInv'
  <1>1. PICK r : r = request[x]
    OBVIOUS
  <1>2. r \in Request /\ Own(x) /\ r.op = "login" /\ r.at = "read"
    BY <1>1 DEF Verify, IInv, TypeOK
  <1>3. \A e \in Emails : accountHolder[e] # x
    BY <1>1, <1>2 DEF Own, AccountLocks
  <1>4. \A l \in Links : linkHolder[l] # x
    BY <1>1, <1>2 DEF Own, LinkLocks
  <1>5. ASSUME NEW s \in Request, Think(x, s), Shape(s), Verified(s), s.op = "login"
        PROVE  IInv'
    <2>1. request'[x] = s /\ UNCHANGED tables
      BY <1>5 DEF Think, IInv, TypeOK
    <2>2. AccountLocks(x)' /\ LinkLocks(x)'
      BY <1>3, <1>4, <1>5, <2>1 DEF AccountLocks, LinkLocks, tables
    <2>3. QED
      BY <1>5, <2>2, Thinking
  <1>6. CASE Think(x, [r EXCEPT !.at = "fail"])
    <2> DEFINE s == [r EXCEPT !.at = "fail"]
    <2>1. s \in Request /\ s.op = "login" /\ s.at = "fail" /\ s.email = r.email
          /\ s.ip = r.ip /\ s.new = r.new /\ s.old = r.old
      BY <1>2 DEF Request, Stages
    <2> HIDE DEF s
    <2>2. Shape(s) /\ Verified(s)
      BY <1>1, <1>2, <2>1 DEF Own, Shape, Verified, Found
    <2>3. QED
      BY <1>5, <1>6, <2>1, <2>2 DEF s
  <1>7. ASSUME NEW at \in {"rehash", "touch"}, Think(x, [r EXCEPT !.at = at, !.stale = FALSE]),
               account[r.email] # None, account[r.email].password = r.old,
               account[r.email].active
        PROVE  IInv'
    <2> DEFINE s == [r EXCEPT !.at = at, !.stale = FALSE]
    <2>1. s \in Request /\ s.op = "login" /\ s.at = at /\ s.email = r.email
          /\ s.ip = r.ip /\ s.new = r.new /\ s.old = r.old
      BY <1>2 DEF Request, Stages
    <2> HIDE DEF s
    <2>2. Shape(s) /\ Verified(s)
      BY <1>1, <1>2, <1>7, <2>1 DEF Own, Shape, Verified, Found
    <2>3. QED
      BY <1>5, <1>7, <2>1, <2>2 DEF s
  <1>8. \/ Think(x, [r EXCEPT !.at = "fail"])
        \/ /\ account[r.email] # None /\ account[r.email].password = r.old
           /\ account[r.email].active
           /\ \E at \in {"rehash", "touch"} : Think(x, [r EXCEPT !.at = at, !.stale = FALSE])
    BY <1>1 DEF Verify
  <1>9. QED
    BY <1>6, <1>7, <1>8

LEMMA FindAccountIInv ==
  ASSUME IInv, NEW x \in Requests, FindAccount(x)
  PROVE  IInv'
  <1>1. PICK r : r = request[x]
    OBVIOUS
  <1>2. r \in Request /\ Own(x) /\ r.op = "link" /\ r.at = "read"
    BY <1>1 DEF FindAccount, IInv, TypeOK
  <1>3. \A e \in Emails : accountHolder[e] # x
    BY <1>1, <1>2 DEF Own, AccountLocks
  <1>4. \A l \in Links : linkHolder[l] # x
    BY <1>1, <1>2 DEF Own, LinkLocks
  <1>5. PICK at \in {"invalidate", "fail"} :
          /\ Think(x, [r EXCEPT !.at = at])
          /\ at = "invalidate" => account[r.email] # None
    BY <1>1 DEF FindAccount
  <1> DEFINE s == [r EXCEPT !.at = at]
  <1>6. s \in Request /\ s.op = "link" /\ s.at = at /\ s.email = r.email /\ s.ip = r.ip
    BY <1>2 DEF Request, Stages
  <1> HIDE DEF s
  <1>7. Shape(s) /\ Verified(s)
    BY <1>1, <1>2, <1>5, <1>6 DEF Own, Shape, Verified, Found
  <1>8. Think(x, s)
    BY <1>5 DEF s
  <1>9. request'[x] = s /\ UNCHANGED tables
    BY <1>8 DEF Think, IInv, TypeOK
  <1>10. AccountLocks(x)' /\ LinkLocks(x)'
    BY <1>3, <1>4, <1>6, <1>9 DEF AccountLocks, LinkLocks, tables
  <1>11. QED
    BY <1>6, <1>7, <1>8, <1>10, Thinking

\* One row more in a log.
LEMMA LogTyped ==
  ASSUME IInv, NEW r \in Request, r.op \in {"login", "link"}, Shape(r), r.at # "claim",
         NEW outcome \in Outcomes
  PROVE  Logged(r, outcome) \in [{"login", "link"} -> Seq(Attempt)]
  <1> DEFINE row == [email |-> r.email, ip |-> r.ip, at |-> r.started, outcome |-> outcome]
  <1>1. row \in Attempt
    BY DEF Shape, Attempt, Request
  <1>2. log \in [{"login", "link"} -> Seq(Attempt)] /\ log[r.op] \in Seq(Attempt)
    BY DEF IInv, TypeOK
  <1> HIDE DEF row
  <1>3. Append(log[r.op], row) \in Seq(Attempt)
    BY <1>1, <1>2
  <1>4. QED
    BY <1>2, <1>3 DEF Logged, row

LEMMA RecordRefusalIInv ==
  ASSUME IInv, NEW x \in Requests, RecordRefusal(x)
  PROVE  IInv'
  <1>1. PICK r : r = request[x]
    OBVIOUS
  <1>2. r \in Request /\ Own(x) /\ r.at = "fail" /\ r.op \in {"login", "link"}
    BY <1>1 DEF RecordRefusal, IInv, TypeOK, Own, Shape, Request, Ops
  <1>3. /\ \A e \in Emails : accountHolder[e] # x
        /\ \A l \in Links : linkHolder[l] # x
    BY <1>1, <1>2 DEF Own, AccountLocks, LinkLocks
  <1>4. log' \in [{"login", "link"} -> Seq(Attempt)]
    <2>1. r.outcome \in Outcomes
      BY <1>2 DEF Request
    <2>2. log' = Logged(r, r.outcome) /\ Shape(r)
      BY <1>1, <1>2 DEF RecordRefusal, Own
    <2>3. QED
      BY <1>2, <2>1, <2>2, LogTyped
  <1>5. request' = [request EXCEPT ![x] = Idle] /\ request'[x] = Idle
        /\ UNCHANGED <<tables, outbox, mailed, mix, now>>
    BY DEF RecordRefusal, IInv, TypeOK
  <1>6. Own(x)'
    <2>1. Shape(Idle) /\ Verified(Idle)'
      BY IdleTyped DEF Verified, Idle
    <2>2. AccountLocks(x)' /\ LinkLocks(x)'
      BY <1>3, <1>5 DEF AccountLocks, LinkLocks, Idle, tables
    <2>3. QED
      BY <1>5, <2>1, <2>2 DEF Own, Shape, Verified, Found
  <1>7. A!TableOK(AccountRow)' /\ L!TableOK(LinkRow)'
    BY <1>5 DEF IInv, TypeOK, A!TableOK, L!TableOK, tables
  <1>8. QED
    BY <1>4, <1>5, <1>6, <1>7, IdleTyped, Stepping DEF tables

\* An UPDATE or INSERT of the account of x.
LEMMA Updating ==
  ASSUME IInv, NEW x \in Requests, NEW row \in AccountRow, NEW next \in {"touch", "commit"},
         UpdateAccount(x, row, next), request[x].op \in Ops \ {"none", "link"},
         request[x].at \in {"rehash", "touch", "password", "activate", "create"},
         next = "touch" => request[x].at = "rehash",
         request[x].op = "confirm" => row.password = request[x].new
  PROVE  IInv'
  <1>1. PICK r : r = request[x]
    OBVIOUS
  <1>2. PICK u : u = r.email
    OBVIOUS
  <1> DEFINE s == [r EXCEPT !.at = next]
  <1>3. r \in Request /\ Own(x)
    BY <1>1 DEF IInv, TypeOK
  <1>4. u \in Emails
    BY <1>1, <1>2, <1>3 DEF Own, Shape
  <1>5. s \in Request /\ s.at = next /\ s.op = r.op /\ s.email = u /\ s.ip = r.ip
        /\ s.old = r.old /\ s.new = r.new /\ s.link = r.link /\ s.stale = r.stale
        /\ s.started = r.started
    BY <1>2, <1>3 DEF Request, Stages
  <1>6. /\ account' = account /\ A!Free(x, u)
        /\ accountDraft' = [k \in Emails |-> IF k = u THEN row ELSE accountDraft[k]]
        /\ accountHolder' = [k \in Emails |-> IF k = u THEN x ELSE accountHolder[k]]
        /\ request' = [request EXCEPT ![x] = s]
        /\ UNCHANGED <<link, linkDraft, linkHolder, log, outbox, mailed, mix, now>>
    BY <1>1, <1>2 DEF UpdateAccount, A!WriteRow, A!Write
  <1> HIDE DEF s
  <1>7. request'[x] = s
    BY <1>6 DEF IInv, TypeOK
  <1>8. A!TableOK(AccountRow)' /\ L!TableOK(LinkRow)'
    <2>1. A!TableOK(AccountRow)'
      BY <1>4, <1>6, NoneAssumption DEF IInv, TypeOK, A!TableOK
    <2>2. L!TableOK(LinkRow)'
      BY <1>6 DEF IInv, TypeOK, L!TableOK
    <2>3. QED
      BY <2>1, <2>2
  <1>9. Shape(s) /\ Verified(s)
    BY <1>1, <1>2, <1>3, <1>5 DEF Own, Shape, Verified, Found
  <1>10. Shape(request[x])' /\ Verified(request[x])'
    BY <1>6, <1>7, <1>9 DEF Shape, Verified, Found
  <1>11. AccountLocks(x)'
    BY <1>1, <1>2, <1>3, <1>4, <1>5, <1>6, <1>7, NoneAssumption DEF Own, AccountLocks
  <1>12. LinkLocks(x)'
    <2>1. s.op # "link" /\ r.op # "link" /\ r.at # "claim"
      BY <1>1, <1>3, <1>5 DEF Own, Shape
    <2>2. QED
      BY <1>1, <1>2, <1>3, <1>5, <1>6, <1>7, <2>1 DEF Own, LinkLocks, Dying
  <1>13. log' \in [{"login", "link"} -> Seq(Attempt)]
    BY <1>6 DEF IInv, TypeOK
  <1>14. ASSUME NEW y \in Requests \ {x}, NEW e \in Emails
         PROVE  /\ accountHolder'[e] = y <=> accountHolder[e] = y
                /\ accountHolder[e] = y => accountDraft'[e] = accountDraft[e]
    BY <1>4, <1>6, NoneAssumption DEF A!Free
  <1>15. Own(x)'
    BY <1>10, <1>11, <1>12 DEF Own
  <1>16. QED
    BY <1>5, <1>6, <1>8, <1>13, <1>14, <1>15, Stepping

\* What an account statement finds.
LEMMA SeenAccount ==
  ASSUME IInv, NEW x \in Requests, Found(request[x]), request[x].email \in Emails
  PROVE  A!Sees(x, request[x].email) \in AccountRow
  BY NoneAssumption DEF IInv, TypeOK, Own, Verified, A!TableOK, A!Sees

LEMMA AccountStepIInv ==
  ASSUME IInv, NEW x \in Requests,
         \/ RehashPassword(x) \/ TouchLastLogin(x) \/ UpdatePassword(x) \/ UpdateActive(x)
  PROVE  IInv'
  <1>1. PICK r : r = request[x]
    OBVIOUS
  <1>2. r \in Request /\ Shape(r)
    BY <1>1 DEF IInv, TypeOK, Own
  <1>3. r.at \in {"rehash", "touch", "password", "activate"}
    BY <1>1 DEF RehashPassword, TouchLastLogin, UpdatePassword, UpdateActive
  <1>4. r.op \in Ops \ {"none", "link"} /\ r.email \in Emails /\ Found(r)
    BY <1>2, <1>3 DEF Shape, Found, Request, Ops
  <1>5. PICK row : row = A!Sees(x, r.email)
    OBVIOUS
  <1>6. row \in AccountRow
    BY <1>1, <1>4, <1>5, SeenAccount
  <1>7. CASE RehashPassword(x)
    <2>1. r.at = "rehash" /\ r.op = "login" /\ r.new \in Passwords
      BY <1>1, <1>2, <1>4, <1>7 DEF RehashPassword, Shape, Ops
    <2>2. [row EXCEPT !.password = r.new] \in AccountRow
      BY <1>6, <2>1 DEF AccountRow
    <2>3. UpdateAccount(x, [row EXCEPT !.password = r.new], "touch")
      BY <1>1, <1>5, <1>7 DEF RehashPassword
    <2>4. QED
      BY <1>1, <1>4, <2>1, <2>2, <2>3, Updating
  <1>8. CASE TouchLastLogin(x)
    <2>1. UpdateAccount(x, row, "commit") /\ r.at = "touch" /\ r.op = "login"
      BY <1>1, <1>2, <1>4, <1>5, <1>8 DEF TouchLastLogin, Shape, Ops
    <2>2. QED
      BY <1>1, <1>4, <1>6, <2>1, Updating
  <1>9. CASE UpdatePassword(x)
    <2>1. r.at = "password" /\ r.new \in Passwords
      BY <1>1, <1>2, <1>4, <1>9 DEF UpdatePassword, Shape, Ops
    <2> DEFINE w == [row EXCEPT !.password = r.new, !.mustChange = (r.op = "reset_password")]
    <2>2. w \in AccountRow /\ w.password = r.new
      BY <1>6, <2>1 DEF AccountRow
    <2>3. UpdateAccount(x, w, "commit")
      BY <1>1, <1>5, <1>9 DEF UpdatePassword
    <2> HIDE DEF w
    <2>4. QED
      BY <1>1, <1>4, <2>1, <2>2, <2>3, Updating
  <1>10. CASE UpdateActive(x)
    <2>1. r.at = "activate" /\ r.op # "confirm" /\ r.active \in BOOLEAN
      BY <1>1, <1>2, <1>10 DEF UpdateActive, Shape, Request
    <2>2. [row EXCEPT !.active = r.active] \in AccountRow
      BY <1>6, <2>1 DEF AccountRow
    <2>3. UpdateAccount(x, [row EXCEPT !.active = r.active], "commit")
      BY <1>1, <1>5, <1>10 DEF UpdateActive
    <2>4. QED
      BY <1>1, <1>4, <2>1, <2>2, <2>3, Updating
  <1>11. QED
    BY <1>7, <1>8, <1>9, <1>10

\* A rollback.
LEMMA AbandonIInv ==
  ASSUME IInv, NEW x \in Requests, Abandon(x)
  PROVE  IInv'
  <1>1. /\ UNCHANGED <<account, link, log, outbox, mailed, mix, now>>
        /\ request' = [request EXCEPT ![x] = Idle]
        /\ \A e \in Emails :
             /\ accountDraft'[e] = IF accountHolder[e] = x THEN None ELSE accountDraft[e]
             /\ accountHolder'[e] = IF accountHolder[e] = x THEN None ELSE accountHolder[e]
        /\ \A l \in Links :
             /\ linkDraft'[l] = IF linkHolder[l] = x THEN None ELSE linkDraft[l]
             /\ linkHolder'[l] = IF linkHolder[l] = x THEN None ELSE linkHolder[l]
    BY DEF Abandon, A!Discard, A!Release, L!Discard, L!Release
  <1>2. A!TableOK(AccountRow)'
    BY <1>1 DEF IInv, TypeOK, A!TableOK, Abandon, A!Discard, A!Release
  <1>3. L!TableOK(LinkRow)'
    BY <1>1 DEF IInv, TypeOK, L!TableOK, Abandon, L!Discard, L!Release
  <1>4. request'[x] = Idle
    BY <1>1 DEF IInv, TypeOK
  <1>5. Own(x)'
    <2>1. Shape(Idle) /\ Verified(Idle)'
      BY IdleTyped DEF Verified, Idle
    <2>2. /\ \A e \in Emails : accountHolder'[e] # x
          /\ \A l \in Links : linkHolder'[l] # x
      BY <1>1, NoneAssumption
    <2>3. AccountLocks(x)' /\ LinkLocks(x)'
      BY <1>4, <2>2 DEF AccountLocks, LinkLocks, Idle
    <2>4. QED
      BY <1>4, <2>1, <2>3 DEF Own, Shape, Verified, Found
  <1>6. log' \in [{"login", "link"} -> Seq(Attempt)]
    BY <1>1 DEF IInv, TypeOK
  <1>7. /\ \A y \in Requests \ {x}, e \in Emails :
             /\ accountHolder'[e] = y <=> accountHolder[e] = y
             /\ accountHolder[e] = y => accountDraft'[e] = accountDraft[e]
        /\ \A y \in Requests \ {x}, l \in Links :
             /\ linkHolder'[l] = y <=> linkHolder[l] = y
             /\ linkHolder[l] = y => linkDraft'[l] = linkDraft[l]
    BY <1>1, NoneAssumption
  <1>8. QED
    BY <1>1, <1>2, <1>3, <1>5, <1>6, <1>7, IdleTyped, Stepping

LEMMA InsertAccountIInv ==
  ASSUME IInv, NEW x \in Requests, InsertAccount(x)
  PROVE  IInv'
  <1>1. PICK r : r = request[x]
    OBVIOUS
  <1>2. r \in Request /\ Shape(r) /\ r.at = "create"
    BY <1>1 DEF InsertAccount, IInv, TypeOK, Own
  <1>3. r.op = "create" /\ r.new \in Passwords
    BY <1>2 DEF Shape, Request, Ops
  <1> DEFINE row == [password |-> r.new, active |-> TRUE, mustChange |-> TRUE]
  <1>4. UpdateAccount(x, row, "commit") \/ Abandon(x)
    BY <1>1 DEF InsertAccount
  <1>5. row \in AccountRow
    BY <1>3 DEF AccountRow
  <1> HIDE DEF row
  <1>6. QED
    BY <1>1, <1>2, <1>3, <1>4, <1>5, AbandonIInv, Updating DEF Ops

-----------------------------------------------------------------------------
(* The links *)

\* A request that holds no account changes the links it holds.
LEMMA WritingLinks ==
  ASSUME IInv, NEW x \in Requests, NEW r \in Request, NEW l \in Links, NEW row \in LinkRow,
         WriteLinks(x, [k \in {l} |-> row], r), Shape(r), Verified(r),
         \A e \in Emails : accountHolder[e] # x, r.op = "confirm" => r.at # "commit",
         LinkLocks(x)'
  PROVE  IInv'
  <1>1. /\ link' = link /\ L!Free(x, l)
        /\ linkDraft' = [k \in Links |-> IF k = l THEN row ELSE linkDraft[k]]
        /\ linkHolder' = [k \in Links |-> IF k = l THEN x ELSE linkHolder[k]]
        /\ request' = [request EXCEPT ![x] = r]
        /\ UNCHANGED <<account, accountDraft, accountHolder, log, outbox, mailed, mix, now>>
    BY DEF WriteLinks, L!Write
  <1>2. request'[x] = r
    BY <1>1 DEF IInv, TypeOK
  <1>3. L!TableOK(LinkRow)'
    BY <1>1, NoneAssumption DEF IInv, TypeOK, L!TableOK
  <1>4. A!TableOK(AccountRow)' /\ log' \in [{"login", "link"} -> Seq(Attempt)]
    BY <1>1 DEF IInv, TypeOK, A!TableOK
  <1>5. AccountLocks(x)'
    BY <1>1, <1>2 DEF AccountLocks
  <1>6. Own(x)'
    BY <1>1, <1>2, <1>5 DEF Own, Shape, Verified, Found
  <1>7. \A y \in Requests \ {x}, k \in Links :
          /\ linkHolder'[k] = y <=> linkHolder[k] = y
          /\ linkHolder[k] = y => linkDraft'[k] = linkDraft[k]
    BY <1>1, NoneAssumption DEF L!Free
  <1>8. QED
    BY <1>1, <1>3, <1>4, <1>6, <1>7, Stepping

LEMMA BeginInvalidationIInv ==
  ASSUME IInv, NEW x \in Requests, BeginInvalidation(x)
  PROVE  IInv'
  <1>1. PICK r : r = request[x]
    OBVIOUS
  <1>2. r \in Request /\ Own(x) /\ r.op = "link" /\ r.at = "invalidate"
    BY <1>1 DEF BeginInvalidation, IInv, TypeOK, Own, Shape, Request, Ops
  <1>3. /\ \A e \in Emails : accountHolder[e] # x
        /\ \A l \in Links : linkHolder[l] # x
    BY <1>1, <1>2 DEF Own, AccountLocks, LinkLocks
  <1> DEFINE ls == {l \in Links : /\ L!Sees(x, l) # None
                                  /\ L!Sees(x, l).user = r.email
                                  /\ ~L!Sees(x, l).consumed}
             s == [r EXCEPT !.at = "sweep", !.left = ls]
  <1>4. Think(x, s)
    BY <1>1 DEF BeginInvalidation
  <1>5. ls \subseteq Links /\ \A l \in ls : link[l] # None /\ link[l].user = r.email
    BY <1>3 DEF L!Sees
  <1> HIDE DEF ls
  <1>6. s \in Request /\ s.op = "link" /\ s.at = "sweep" /\ s.email = r.email
        /\ s.ip = r.ip /\ s.left = ls
    BY <1>2, <1>5 DEF Request, Stages
  <1> HIDE DEF s
  <1>7. Shape(s) /\ Verified(s)
    BY <1>1, <1>2, <1>6 DEF Own, Shape, Verified, Found
  <1>8. request'[x] = s /\ UNCHANGED tables
    BY <1>4 DEF Think, IInv, TypeOK
  <1>9. AccountLocks(x)' /\ LinkLocks(x)'
    BY <1>3, <1>5, <1>6, <1>8 DEF AccountLocks, LinkLocks, tables
  <1>10. QED
    BY <1>4, <1>6, <1>7, <1>9, Thinking

LEMMA InvalidateLinkIInv ==
  ASSUME IInv, NEW x \in Requests, InvalidateLink(x)
  PROVE  IInv'
  <1>1. PICK r : r = request[x]
    OBVIOUS
  <1>2. r \in Request /\ Own(x) /\ r.op = "link" /\ r.at = "sweep"
    BY <1>1 DEF InvalidateLink, IInv, TypeOK, Own, Shape, Request, Ops
  <1>3. PICK l \in r.left :
          LET row == L!Sees(x, l)
              rest == [r EXCEPT !.left = r.left \ {l}]
          IN /\ L!Free(x, l)
             /\ IF row.consumed
                THEN Think(x, rest)
                ELSE WriteLinks(x, [k \in {l} |-> [row EXCEPT !.consumed = TRUE]], rest)
    BY <1>1 DEF InvalidateLink
  <1> DEFINE s == [r EXCEPT !.left = r.left \ {l}]
  <1>4. s \in Request /\ s.op = "link" /\ s.at = "sweep" /\ s.email = r.email
        /\ s.ip = r.ip /\ s.left = r.left \ {l}
    BY <1>2 DEF Request
  <1>5. l \in Links /\ link[l] # None /\ link[l].user = r.email /\ link[l] \in LinkRow
    <2>1. r.left \subseteq Links
      BY <1>2 DEF Request
    <2>2. QED
      BY <1>1, <1>2, <2>1 DEF Own, LinkLocks, IInv, TypeOK, L!TableOK
  <1>6. \A e \in Emails : accountHolder[e] # x
    BY <1>1, <1>2 DEF Own, AccountLocks
  <1> HIDE DEF s
  <1>7. Shape(s) /\ Verified(s)
    BY <1>1, <1>2, <1>4 DEF Own, Shape, Verified, Found
  <1>8. CASE Think(x, s)
    <2>1. request'[x] = s /\ UNCHANGED tables
      BY <1>8 DEF Think, IInv, TypeOK
    <2>2. AccountLocks(x)'
      BY <1>6, <1>4, <2>1 DEF AccountLocks, tables
    <2>3. LinkLocks(x)'
      BY <1>1, <1>2, <1>4, <2>1 DEF Own, LinkLocks, Dying, tables
    <2>4. QED
      BY <1>4, <1>7, <1>8, <2>2, <2>3, Thinking
  <1>9. CASE /\ ~L!Sees(x, l).consumed
             /\ WriteLinks(x, [k \in {l} |-> [L!Sees(x, l) EXCEPT !.consumed = TRUE]], s)
    <2>1. linkHolder[l] # x
      BY <1>1, <1>2, <1>5, <1>9 DEF Own, LinkLocks, Dying, L!Sees, LinkRow
    <2>2. L!Sees(x, l) = link[l] /\ ~link[l].consumed
      BY <1>9, <2>1 DEF L!Sees
    <2> DEFINE row == [link[l] EXCEPT !.consumed = TRUE]
    <2>3. row \in LinkRow
      BY <1>5 DEF LinkRow
    <2>4. WriteLinks(x, [k \in {l} |-> row], s)
      BY <1>9, <2>2
    <2>5. /\ link' = link /\ request'[x] = s
          /\ linkDraft' = [k \in Links |-> IF k = l THEN row ELSE linkDraft[k]]
          /\ linkHolder' = [k \in Links |-> IF k = l THEN x ELSE linkHolder[k]]
      BY <2>4 DEF WriteLinks, L!Write, IInv, TypeOK
    <2>6. Dying(s, l)'
      BY <1>4, <1>5, <2>2, <2>5 DEF Dying
    <2> HIDE DEF row
    <2>7. LinkLocks(x)'
      <3>1. ASSUME NEW k \in Links, linkHolder'[k] = x PROVE Dying(s, k)'
        <4>1. CASE k = l
          BY <2>6, <4>1
        <4>2. CASE k # l
          BY <1>1, <1>2, <1>4, <2>5, <3>1, <4>2 DEF Own, LinkLocks, Dying
        <4>3. QED
          BY <4>1, <4>2
      <3>2. \A k \in s.left : link'[k] # None /\ link'[k].user = s.email
        BY <1>1, <1>2, <1>4, <2>5 DEF Own, LinkLocks
      <3>3. QED
        BY <1>4, <2>5, <3>1, <3>2 DEF LinkLocks, Dying
    <2>8. QED
      BY <1>4, <1>5, <1>6, <1>7, <2>3, <2>4, <2>7, WritingLinks
  <1>10. QED
    BY <1>3, <1>8, <1>9 DEF s

LEMMA IssueLinkIInv ==
  ASSUME IInv, NEW x \in Requests, IssueLink(x)
  PROVE  IInv'
  <1>1. PICK r : r = request[x]
    OBVIOUS
  <1>2. r \in Request /\ Own(x) /\ r.op = "link" /\ r.at = "sweep" /\ r.email \in Emails
    BY <1>1 DEF IssueLink, IInv, TypeOK, Own, Shape, Request, Ops
  <1> DEFINE row == [user |-> r.email, expires |-> now + LinkTtl, consumed |-> FALSE]
  <1>3. PICK l \in L!Unused :
          WriteLinks(x, [k \in {l} |-> row], [r EXCEPT !.link = l, !.at = "commit"])
    BY <1>1 DEF IssueLink
  <1> DEFINE s == [r EXCEPT !.link = l, !.at = "commit"]
  <1>4. l \in Links /\ link[l] = None /\ linkHolder[l] = None
    BY DEF L!Unused
  <1>5. s \in Request /\ s.op = "link" /\ s.at = "commit" /\ s.email = r.email
        /\ s.ip = r.ip /\ s.link = l
    BY <1>2, <1>4 DEF Request, Stages
  <1>6. row \in LinkRow /\ row.user = r.email
    BY <1>2, LimitsAssumption DEF LinkRow, IInv, TypeOK
  <1>7. WriteLinks(x, [k \in {l} |-> row], s)
    BY <1>3
  <1> HIDE DEF s, row
  <1>8. Shape(s) /\ Verified(s)
    BY <1>1, <1>2, <1>5 DEF Own, Shape, Verified, Found
  <1>9. \A e \in Emails : accountHolder[e] # x
    BY <1>1, <1>2 DEF Own, AccountLocks
  <1>10. /\ link' = link /\ request'[x] = s
         /\ linkDraft' = [k \in Links |-> IF k = l THEN row ELSE linkDraft[k]]
         /\ linkHolder' = [k \in Links |-> IF k = l THEN x ELSE linkHolder[k]]
    BY <1>7 DEF WriteLinks, L!Write, IInv, TypeOK
  <1>11. LinkLocks(x)'
    <2>1. ASSUME NEW k \in Links \ {l}, linkHolder'[k] = x PROVE Dying(s, k)'
      BY <1>1, <1>2, <1>5, <1>10, <2>1 DEF Own, LinkLocks, Dying
    <2>2. QED
      BY <1>4, <1>5, <1>6, <1>10, <2>1 DEF LinkLocks, Dying
  <1>12. QED
    BY <1>4, <1>5, <1>6, <1>7, <1>8, <1>9, <1>11, WritingLinks

LEMMA ConsumeIInv ==
  ASSUME IInv, NEW x \in Requests, Consume(x)
  PROVE  IInv'
  <1>1. PICK r : r = request[x]
    OBVIOUS
  <1>2. r \in Request /\ Own(x) /\ r.op = "confirm" /\ r.at = "claim" /\ r.link \in Links
    BY <1>1 DEF Consume, IInv, TypeOK, Own, Shape, Request, Ops
  <1>3. PICK l : l = r.link
    OBVIOUS
  <1>4. /\ \A e \in Emails : accountHolder[e] # x
        /\ \A k \in Links : linkHolder[k] # x
    BY <1>1, <1>2 DEF Own, AccountLocks, LinkLocks
  <1>5. L!Sees(x, l) = link[l] /\ l \in Links
    BY <1>2, <1>3, <1>4 DEF L!Sees
  <1>0. PICK u, n : u = link[l].user /\ n = now
    OBVIOUS
  <1> DEFINE row == [link[l] EXCEPT !.consumed = TRUE]
             s == [r EXCEPT !.email = u, !.started = n, !.at = "reread"]
  <1>6. \/ Abandon(x)
        \/ Usable(link[l]) /\ WriteLinks(x, [k \in {l} |-> row], s)
    BY <1>0, <1>1, <1>3, <1>5 DEF Consume
  <1>7. CASE Usable(link[l]) /\ WriteLinks(x, [k \in {l} |-> row], s)
    <2>1. link[l] \in LinkRow /\ link[l] # None /\ ~link[l].consumed /\ link[l].expires > now
          /\ u \in Emails /\ u = link[l].user /\ n = now
      BY <1>0, <1>5, <1>7 DEF Usable, IInv, TypeOK, L!TableOK, LinkRow
    <2>2. account[link[l].user] # None
      BY <1>5, <2>1 DEF IInv
    <2>3. row \in LinkRow
      BY <2>1 DEF LinkRow
    <2>4. s \in Request /\ s.op = "confirm" /\ s.at = "reread" /\ s.email = u
          /\ s.link = l /\ s.new = r.new /\ s.started = n
      BY <1>2, <1>3, <2>1 DEF Request, Stages, IInv, TypeOK
    <2>5. /\ link' = link /\ request'[x] = s
          /\ linkDraft' = [k \in Links |-> IF k = l THEN row ELSE linkDraft[k]]
          /\ linkHolder' = [k \in Links |-> IF k = l THEN x ELSE linkHolder[k]]
      BY <1>7 DEF WriteLinks, L!Write, IInv, TypeOK
    <2> HIDE DEF s
    <2>6. Shape(s) /\ Verified(s)
      BY <1>1, <1>2, <1>5, <2>1, <2>2, <2>4 DEF Own, Shape, Verified, Found
    <2>7. Dying(s, l)'
      BY <1>5, <2>1, <2>4, <2>5 DEF Dying
    <2> HIDE DEF row
    <2>8. LinkLocks(x)'
      BY <1>4, <1>5, <2>1, <2>4, <2>5, <2>7 DEF LinkLocks, Dying
    <2>9. QED
      BY <1>4, <1>5, <1>7, <2>3, <2>4, <2>6, <2>8, WritingLinks
  <1>8. QED
    BY <1>6, <1>7, AbandonIInv

LEMMA RereadAccountIInv ==
  ASSUME IInv, NEW x \in Requests, RereadAccount(x)
  PROVE  IInv'
  <1>1. PICK r : r = request[x]
    OBVIOUS
  <1>2. r \in Request /\ Own(x) /\ r.op = "confirm" /\ r.at = "reread" /\ r.email \in Emails
    BY <1>1 DEF RereadAccount, IInv, TypeOK, Own, Shape, Request, Ops
  <1> DEFINE s == [r EXCEPT !.at = "password", !.stale = FALSE]
  <1>3. Abandon(x) \/ (account[r.email].active /\ Think(x, s))
    BY <1>1 DEF RereadAccount
  <1>4. CASE account[r.email].active /\ Think(x, s)
    <2>1. s \in Request /\ s.op = "confirm" /\ s.at = "password" /\ s.email = r.email
          /\ s.link = r.link /\ s.new = r.new /\ s.started = r.started
      BY <1>2 DEF Request, Stages
    <2> HIDE DEF s
    <2>2. Shape(s) /\ Verified(s)
      BY <1>1, <1>2, <1>4, <2>1 DEF Own, Shape, Verified, Found
    <2>3. request'[x] = s /\ UNCHANGED tables
      BY <1>4 DEF Think, IInv, TypeOK
    <2>4. AccountLocks(x)' /\ LinkLocks(x)'
      BY <1>1, <1>2, <2>1, <2>3 DEF Own, AccountLocks, LinkLocks, Dying, tables
    <2>5. QED
      BY <1>4, <2>1, <2>2, <2>4, Thinking
  <1>5. QED
    BY <1>3, <1>4, AbandonIInv

-----------------------------------------------------------------------------
(* The end of a request *)

\* What a COMMIT publishes: the account and the links its request holds.
LEMMA Committed ==
  ASSUME IInv, NEW x \in Requests, Commit(x)
  PROVE  /\ request[x] \in Request /\ Own(x) /\ request[x].at = "commit"
         /\ \A e \in Emails :
              /\ account'[e] = IF accountHolder[e] = x THEN accountDraft[e] ELSE account[e]
              /\ accountDraft'[e] = IF accountHolder[e] = x THEN None ELSE accountDraft[e]
              /\ accountHolder'[e] = IF accountHolder[e] = x THEN None ELSE accountHolder[e]
              /\ accountHolder[e] = x => e = request[x].email /\ accountDraft[e] # None
         /\ \A l \in Links :
              /\ link'[l] = IF linkHolder[l] = x THEN linkDraft[l] ELSE link[l]
              /\ linkDraft'[l] = IF linkHolder[l] = x THEN None ELSE linkDraft[l]
              /\ linkHolder'[l] = IF linkHolder[l] = x THEN None ELSE linkHolder[l]
              /\ linkHolder[l] = x => linkDraft[l] \in LinkRow /\ linkDraft[l] # None
         /\ A!TableOK(AccountRow)' /\ L!TableOK(LinkRow)'
  <1>1. request[x] \in Request /\ Own(x) /\ request[x].at = "commit"
    BY DEF Commit, IInv, TypeOK
  <1>2. ASSUME NEW e \in Emails
        PROVE  /\ account'[e] = IF accountHolder[e] = x THEN accountDraft[e] ELSE account[e]
               /\ accountDraft'[e] = IF accountHolder[e] = x THEN None ELSE accountDraft[e]
               /\ accountHolder'[e] = IF accountHolder[e] = x THEN None ELSE accountHolder[e]
    BY DEF Commit, A!Publish, A!Release, A!Sees
  <1>3. ASSUME NEW e \in Emails, accountHolder[e] = x
        PROVE  e = request[x].email /\ accountDraft[e] # None
    BY <1>1, <1>3, NoneAssumption DEF Own, AccountLocks, IInv, TypeOK, A!TableOK
  <1>4. ASSUME NEW l \in Links
        PROVE  /\ link'[l] = IF linkHolder[l] = x THEN linkDraft[l] ELSE link[l]
               /\ linkDraft'[l] = IF linkHolder[l] = x THEN None ELSE linkDraft[l]
               /\ linkHolder'[l] = IF linkHolder[l] = x THEN None ELSE linkHolder[l]
    BY DEF Commit, L!Publish, L!Release, L!Sees
  <1>5. ASSUME NEW l \in Links, linkHolder[l] = x
        PROVE  linkDraft[l] \in LinkRow /\ linkDraft[l] # None
    BY <1>5, NoneAssumption DEF IInv, TypeOK, L!TableOK
  <1>6. A!TableOK(AccountRow)'
    BY DEF Commit, A!Publish, A!Release, A!Sees, IInv, TypeOK, A!TableOK
  <1>7. L!TableOK(LinkRow)'
    BY DEF Commit, L!Publish, L!Release, L!Sees, IInv, TypeOK, L!TableOK
  <1>8. QED
    BY <1>1, <1>2, <1>3, <1>4, <1>5, <1>6, <1>7

\* The link of a request held by it keeps its account.
LEMMA PublishedLinks ==
  ASSUME IInv, NEW x \in Requests, Commit(x), NEW l \in Links
  PROVE  /\ link[l] # None => link'[l] # None /\ link'[l].user = link[l].user
         /\ linkHolder[l] # x => link'[l] = link[l]
         /\ link'[l] # None => account'[link'[l].user] # None
  <1>1. PICK r : r = request[x]
    OBVIOUS
  <1>2. /\ r \in Request /\ Own(x) /\ r.at = "commit"
        /\ \A e \in Emails :
             /\ account'[e] = IF accountHolder[e] = x THEN accountDraft[e] ELSE account[e]
             /\ accountHolder[e] = x => accountDraft[e] # None
        /\ link'[l] = IF linkHolder[l] = x THEN linkDraft[l] ELSE link[l]
        /\ linkHolder[l] = x => linkDraft[l] # None
    BY <1>1, Committed
  <1>3. ASSUME linkHolder[l] = x
        PROVE  /\ linkDraft[l].user = r.email /\ r.email \in Emails /\ account[r.email] # None
               /\ link[l] # None => link[l].user = r.email
    <2>1. Dying(r, l) \/ (link[l] = None /\ linkDraft[l].user = r.email)
      BY <1>1, <1>2, <1>3 DEF Own, LinkLocks
    <2>2. r.op \in {"link", "confirm"} /\ r.email \in Emails /\ account[r.email] # None
      BY <1>1, <1>2, <1>3 DEF Own, LinkLocks, Shape, Verified, Found
    <2>3. link[l] \in LinkRow \cup {None}
      BY DEF IInv, TypeOK, L!TableOK
    <2>4. QED
      BY <2>1, <2>2, <2>3 DEF Dying, LinkRow
  <1>4. link[l] # None => link[l].user \in Emails /\ account[link[l].user] # None
    BY DEF IInv, TypeOK, L!TableOK, LinkRow
  <1>5. \A e \in Emails : account[e] # None => account'[e] # None
    BY <1>2
  <1>6. QED
    BY <1>2, <1>3, <1>4, <1>5

LEMMA CommitIInv ==
  ASSUME IInv, NEW x \in Requests, Commit(x)
  PROVE  IInv'
  <1>1. PICK r : r = request[x]
    OBVIOUS
  <1>2. /\ r \in Request /\ Own(x) /\ r.at = "commit"
        /\ A!TableOK(AccountRow)' /\ L!TableOK(LinkRow)'
    BY <1>1, Committed
  <1>3. request'[x] = Idle /\ mailed' = mailed /\ mix' = mix /\ now' = now
    BY DEF Commit
  <1>4. ASSUME NEW y \in Requests \ {x}
        PROVE  request'[y] = [request[y] EXCEPT !.stale =
                  @ \/ (request[y].email = r.email /\ account'[r.email] # account[r.email])]
    BY <1>1 DEF Commit
  <1>5. ASSUME NEW y \in Requests \ {x}
        PROVE  /\ request[y] \in Request /\ request'[y] \in Request
               /\ request'[y].op = request[y].op /\ request'[y].at = request[y].at
               /\ request'[y].email = request[y].email /\ request'[y].ip = request[y].ip
               /\ request'[y].started = request[y].started
               /\ request'[y].link = request[y].link /\ request'[y].old = request[y].old
               /\ request'[y].new = request[y].new /\ request'[y].left = request[y].left
               /\ request'[y].stale = (request[y].stale
                    \/ (request[y].email = r.email /\ account'[r.email] # account[r.email]))
    <2>1. request[y] \in Request
      BY DEF IInv, TypeOK
    <2>2. PICK b \in BOOLEAN :
            b = (request[y].stale
                   \/ (request[y].email = r.email /\ account'[r.email] # account[r.email]))
      BY <2>1 DEF Request
    <2>3. request'[y] = [request[y] EXCEPT !.stale = b]
      BY <1>4, <2>2
    <2>4. QED
      BY <2>1, <2>2, <2>3 DEF Request
  <1>6. request' \in [Requests -> Request]
    <2>1. \A y \in Requests : request'[y] \in Request
      BY <1>3, <1>5, IdleTyped
    <2>2. request' = [y \in Requests |-> request'[y]]
      BY DEF Commit
    <2>3. QED
      BY <2>1, <2>2
  <1>7. Own(x)'
    <2>1. /\ \A e \in Emails : accountHolder'[e] # x
          /\ \A l \in Links : linkHolder'[l] # x
      BY Committed, NoneAssumption
    <2>2. Shape(Idle) /\ Verified(Idle)'
      BY IdleTyped DEF Verified, Idle
    <2>3. AccountLocks(x)' /\ LinkLocks(x)'
      BY <1>3, <2>1 DEF AccountLocks, LinkLocks, Idle
    <2>4. QED
      BY <1>3, <2>2, <2>3 DEF Own, Shape, Verified, Found
  <1>8. ASSUME NEW y \in Requests \ {x} PROVE Own(y)'
    <2>1. PICK q, s : q = request[y] /\ s = request'[y]
      OBVIOUS
    <2>2. /\ s.op = q.op /\ s.at = q.at /\ s.email = q.email /\ s.ip = q.ip
          /\ s.started = q.started /\ s.link = q.link /\ s.old = q.old /\ s.new = q.new
          /\ s.left = q.left
          /\ s.stale = (q.stale \/ (q.email = r.email /\ account'[r.email] # account[r.email]))
      BY <1>5, <2>1
    <2>3. Shape(q) /\ Verified(q) /\ AccountLocks(y) /\ LinkLocks(y) /\ q \in Request
      BY <1>5, <2>1 DEF IInv, Own
    <2>4. Shape(s)
      BY <2>2, <2>3 DEF Shape
    <2>5. Found(s) <=> Found(q)
      BY <2>2 DEF Found
    <2>6. Found(q) => q.email \in Emails
      BY <2>3 DEF Shape, Found
    <2>7. \A e \in Emails : /\ account[e] # None => account'[e] # None
                            /\ account'[e] = account[e] \/ e = r.email
      BY <1>1, Committed
    <2>8. Verified(s)'
      <3>1. Found(s) => account'[s.email] # None
        BY <2>2, <2>3, <2>5, <2>6, <2>7 DEF Verified
      <3>2. Found(q) => s.stale \/ (~q.stale /\ account'[s.email] = account[q.email])
        <4>1. q.stale => s.stale
          BY <2>2
        <4>2. ASSUME Found(q), ~s.stale PROVE account'[s.email] = account[q.email]
          <5>1. ~(q.email = r.email /\ account'[r.email] # account[r.email])
            BY <2>2, <4>2
          <5>2. q.email \in Emails /\ s.email = q.email
            BY <2>2, <2>6, <4>2
          <5>3. QED
            BY <2>7, <5>1, <5>2
        <4>3. QED
          BY <4>1, <4>2
      <3>3. s.op = "login" /\ Found(s) =>
              s.stale \/ (account'[s.email].password = s.old /\ account'[s.email].active)
        BY <2>2, <2>3, <2>5, <3>2 DEF Verified
      <3>4. s.op = "change_password" => s.stale \/ account'[s.email].password = s.old
        BY <2>2, <2>3, <3>2 DEF Verified, Found
      <3>5. s.op = "confirm" /\ s.at \in {"password", "commit"} =>
              s.stale \/ account'[s.email].active
        BY <2>2, <2>3, <3>2 DEF Verified, Found
      <3>6. QED
        BY <3>1, <3>3, <3>4, <3>5 DEF Verified, Found
    <2>9. AccountLocks(y)'
      <3>1. \A e \in Emails : /\ accountHolder'[e] = y <=> accountHolder[e] = y
                              /\ accountHolder[e] = y => accountDraft'[e] = accountDraft[e]
        BY Committed, NoneAssumption
      <3>2. q.op = "confirm" /\ q.at = "commit" => q.email \in Emails
        BY <2>3 DEF Shape
      <3>3. QED
        BY <2>1, <2>2, <2>3, <3>1, <3>2 DEF AccountLocks
    <2>10. LinkLocks(y)'
      <3>1. \A l \in Links : /\ linkHolder'[l] = y <=> linkHolder[l] = y
                             /\ linkHolder[l] = y => linkDraft'[l] = linkDraft[l]
                                                     /\ link'[l] = link[l]
        BY Committed, NoneAssumption
      <3>2. \A l \in Links : link[l] # None => link'[l] # None /\ link'[l].user = link[l].user
        BY PublishedLinks
      <3>3. \A l \in Links : linkHolder[l] = y => (Dying(s, l)' <=> Dying(q, l))
        BY <2>2, <3>1 DEF Dying
      <3>4. q.left \subseteq Links /\ (q.op = "confirm" => q.link \in Links)
        BY <2>3 DEF Request, Shape
      <3>5. \A l \in Links : linkHolder'[l] = y =>
              \/ s.op = "link" /\ s.at \in {"sweep", "commit"} /\ Dying(s, l)'
              \/ /\ s.op = "link" /\ s.at = "commit" /\ l = s.link
                 /\ link'[l] = None /\ linkDraft'[l].user = s.email
              \/ s.op = "confirm" /\ s.at # "claim" /\ l = s.link /\ Dying(s, l)'
        BY <2>1, <2>2, <2>3, <3>1, <3>3 DEF LinkLocks
      <3>6. s.op = "link" /\ s.at = "sweep" =>
              \A l \in s.left : link'[l] # None /\ link'[l].user = s.email
        BY <2>1, <2>2, <2>3, <3>2, <3>4 DEF LinkLocks
      <3>7. /\ s.op = "link" /\ s.at = "commit" => s.link \in Links /\ linkHolder'[s.link] = y
            /\ s.op = "confirm" /\ s.at # "claim" =>
                 linkHolder'[s.link] = y /\ link'[s.link].expires > s.started
        BY <2>1, <2>2, <2>3, <3>1, <3>4 DEF LinkLocks
      <3>8. QED
        BY <2>1, <3>5, <3>6, <3>7 DEF LinkLocks, Dying
    <2>11. QED
      BY <2>1, <2>4, <2>8, <2>9, <2>10 DEF Own, Shape, Verified, Found
  <1>9. \A y \in Requests : Own(y)'
    BY <1>7, <1>8
  <1>10. ASSUME NEW y \in Requests, request'[y] = Idle
         PROVE  /\ \A e \in Emails : accountHolder'[e] # y
                /\ \A l \in Links : linkHolder'[l] # y
    BY <1>9, <1>10 DEF Own, AccountLocks, LinkLocks, Idle
  <1>11. log' \in [{"login", "link"} -> Seq(Attempt)] /\ outbox' \subseteq Links
    <2>1. CASE r.op = "link"
      <3>1. r.link \in Links /\ Shape(r) /\ "granted" \in Outcomes
        BY <1>1, <1>2, <2>1 DEF Own, LinkLocks, Outcomes
      <3>2. log' = Logged(r, "granted") /\ outbox' = outbox \cup {r.link}
        BY <1>1, <2>1 DEF Commit
      <3>3. QED
        BY <1>2, <2>1, <3>1, <3>2, LogTyped DEF IInv, TypeOK
    <2>2. CASE r.op # "link"
      BY <1>1, <2>2 DEF Commit, IInv, TypeOK
    <2>3. QED
      BY <2>1, <2>2
  <1>12. MailFollowsCommit'
    <2>1. ASSUME NEW l \in outbox \cup mailed PROVE link'[l] # None
      <3>1. l \in Links /\ link[l] # None
        BY DEF IInv, MailFollowsCommit, TypeOK
      <3>2. QED
        BY <3>1, PublishedLinks
    <2>2. r.op = "link" => link'[r.link] # None
      <3>1. r.op = "link" => r.link \in Links /\ linkHolder[r.link] = x
        BY <1>1, <1>2 DEF Own, LinkLocks
      <3>2. QED
        BY <3>1, Committed
    <2>3. outbox' \cup mailed' \subseteq outbox \cup mailed \cup (IF r.op = "link" THEN {r.link} ELSE {})
      BY <1>1, <1>3 DEF Commit
    <2>4. QED
      BY <2>1, <2>2, <2>3 DEF MailFollowsCommit
  <1>13. TypeOK'
    BY <1>2, <1>3, <1>6, <1>10, <1>11 DEF IInv, TypeOK
  <1>14. QED
    BY <1>9, <1>12, <1>13, PublishedLinks DEF IInv

LEMMA SendMailIInv ==
  ASSUME IInv, NEW l \in Links, SendMail(l)
  PROVE  IInv'
  <1>1. UNCHANGED <<tables, log, request, mix, now>> /\ outbox' \subseteq outbox
        /\ outbox' \cup mailed' \subseteq outbox \cup mailed
    BY DEF SendMail
  <1>2. outbox \cup mailed \subseteq Links /\ mailed' \subseteq Links
    BY <1>1 DEF IInv, TypeOK
  <1>3. TypeOK'
    BY <1>1, <1>2 DEF IInv, TypeOK, A!TableOK, L!TableOK, tables
  <1>4. ASSUME NEW x \in Requests PROVE Own(x)'
    BY <1>1 DEF IInv, Own, Shape, Verified, Found, AccountLocks, LinkLocks, Dying, tables
  <1>5. QED
    BY <1>1, <1>3, <1>4 DEF IInv, MailFollowsCommit, tables

LEMMA TickIInv ==
  ASSUME IInv, Tick \/ UNCHANGED vars
  PROVE  IInv'
  <1>1. UNCHANGED <<tables, log, request, mix, outbox, mailed>> /\ now' \in Nat
    BY BoundsAssumption DEF Tick, vars, tables, IInv, TypeOK
  <1>2. TypeOK'
    BY <1>1 DEF IInv, TypeOK, A!TableOK, L!TableOK, tables
  <1>3. ASSUME NEW x \in Requests PROVE Own(x)'
    BY <1>1 DEF IInv, Own, Shape, Verified, Found, AccountLocks, LinkLocks, Dying, tables
  <1>4. QED
    BY <1>1, <1>2, <1>3 DEF IInv, MailFollowsCommit, tables

LEMMA NextIInv == IInv /\ [Next]_vars => IInv'
  <1> SUFFICES ASSUME IInv, [Next]_vars PROVE IInv'
    OBVIOUS
  <1>1. CASE Tick \/ UNCHANGED vars
    BY <1>1, TickIInv
  <1>2. CASE \E l \in Links : SendMail(l)
    BY <1>2, SendMailIInv
  <1>3. ASSUME NEW x \in Requests, Ask(x) PROVE IInv'
    BY <1>3, AskIInv
  <1>4. ASSUME NEW x \in Requests, Step(x) PROVE IInv'
    <2>1. CASE Verify(x) \/ FindAccount(x) \/ RecordRefusal(x)
      BY <2>1, VerifyIInv, FindAccountIInv, RecordRefusalIInv
    <2>2. CASE RehashPassword(x) \/ TouchLastLogin(x) \/ UpdatePassword(x) \/ UpdateActive(x)
      BY <2>2, AccountStepIInv
    <2>3. CASE InsertAccount(x) \/ Commit(x)
      BY <2>3, InsertAccountIInv, CommitIInv
    <2>4. CASE BeginInvalidation(x) \/ InvalidateLink(x) \/ IssueLink(x)
      BY <2>4, BeginInvalidationIInv, InvalidateLinkIInv, IssueLinkIInv
    <2>5. CASE Consume(x) \/ RereadAccount(x)
      BY <2>5, ConsumeIInv, RereadAccountIInv
    <2>6. QED
      BY <1>4, <2>1, <2>2, <2>3, <2>4, <2>5 DEF Step
  <1>5. ASSUME NEW x \in Requests, Rollback(x) PROVE IInv'
    BY <1>5, AbandonIInv DEF Rollback
  <1>6. QED
    BY <1>1, <1>2, <1>3, <1>4, <1>5 DEF Next

LEMMA Invariance == Spec => []IInv
  BY InitIInv, NextIInv, PTL DEF Spec

-----------------------------------------------------------------------------
(* Theorems *)

\* The tables are well-formed, and an idle request holds no row of them.
THEOREM TypeCorrect == Spec => []TypeOK
  BY Invariance, PTL DEF IInv

\* No mail names a link whose row was rolled back.
THEOREM MailsAreOfCommittedLinks == Spec => []MailFollowsCommit
  BY Invariance, PTL DEF IInv

\* Two submissions of one link never both succeed, and none after its deadline.
THEOREM LinksServeOnce == Spec => LinkServesOnce
  <1>1. ASSUME IInv, NEW x \in Requests, Commit(x), request[x].op = "confirm"
        PROVE  LET row == link[request[x].link]
               IN ~row.consumed /\ row.expires > request[x].started
    <2>1. Own(x) /\ request[x].at = "commit"
      BY <1>1, Committed
    <2>2. request[x].link \in Links
      BY <1>1, <2>1 DEF Own, Shape
    <2>3. QED
      BY <1>1, <2>1, <2>2 DEF Own, LinkLocks, Dying
  <1>2. IInv /\ [Next]_vars =>
          [\A x \in Requests : Commit(x) /\ request[x].op = "confirm" =>
             LET row == link[request[x].link]
             IN ~row.consumed /\ row.expires > request[x].started]_vars
    BY <1>1
  <1>3. QED
    BY <1>2, Invariance, PTL DEF Spec, LinkServesOnce

\* Only a COMMIT changes a link the others can see.
LEMMA PublishedByCommit ==
  ASSUME [Next]_vars
  PROVE  link' = link \/ \E x \in Requests : Commit(x)
  <1> USE DEF Begin, Think, tables
  <1>1. CASE UNCHANGED vars \/ Tick
    BY <1>1 DEF vars, Tick
  <1>2. ASSUME NEW l \in Links, SendMail(l) PROVE link' = link
    BY <1>2 DEF SendMail
  <1>3. ASSUME NEW x \in Requests, Ask(x) PROVE link' = link
    <2>1. \A r : Begin(x, r) => link' = link
      OBVIOUS
    <2> HIDE DEF Begin
    <2>2. ASSUME NEW e \in Emails, NEW i \in Ips, NEW p \in Passwords, Authenticate(x, e, i, p)
          PROVE  link' = link
      BY <2>1, <2>2 DEF Authenticate
    <2>3. ASSUME NEW e \in Emails, NEW i \in Ips, RequestPasswordReset(x, e, i)
          PROVE  link' = link
      BY <2>1, <2>3 DEF RequestPasswordReset
    <2>4. ASSUME NEW l \in Links, NEW p \in Passwords, ConfirmPasswordReset(x, l, p)
          PROVE  link' = link
      BY <2>1, <2>4 DEF ConfirmPasswordReset
    <2>5. ASSUME NEW e \in Emails, NEW p \in Passwords, NEW q \in Passwords,
                 \/ ChangePassword(x, e, p, q) \/ ResetPassword(x, e, p) \/ Create(x, e, p)
          PROVE  link' = link
      BY <2>1, <2>5 DEF ChangePassword, ResetPassword, Create
    <2>6. ASSUME NEW e \in Emails, NEW b \in BOOLEAN, SetActive(x, e, b)
          PROVE  link' = link
      BY <2>1, <2>6 DEF SetActive
    <2>7. QED
      BY <1>3, <2>2, <2>3, <2>4, <2>5, <2>6 DEF Ask
  <1>4. ASSUME NEW x \in Requests, Step(x), ~Commit(x) PROVE link' = link
    <2>1. Abandon(x) => link' = link
      BY DEF Abandon, L!Discard
    <2>2. CASE Verify(x) \/ FindAccount(x) \/ RecordRefusal(x)
      BY <2>2 DEF Verify, FindAccount, RecordRefusal
    <2>3. CASE \/ RehashPassword(x) \/ TouchLastLogin(x) \/ UpdatePassword(x) \/ UpdateActive(x)
               \/ InsertAccount(x)
      BY <2>1, <2>3 DEF RehashPassword, TouchLastLogin, UpdatePassword, UpdateActive,
                        InsertAccount, UpdateAccount
    <2>4. CASE BeginInvalidation(x) \/ InvalidateLink(x) \/ IssueLink(x)
      BY <2>4 DEF BeginInvalidation, InvalidateLink, IssueLink, WriteLinks, L!Write
    <2>5. CASE Consume(x) \/ RereadAccount(x)
      BY <2>1, <2>5 DEF Consume, RereadAccount, WriteLinks, L!Write
    <2>6. QED
      BY <1>4, <2>2, <2>3, <2>4, <2>5 DEF Step
  <1>5. ASSUME NEW x \in Requests, Rollback(x) PROVE link' = link
    BY <1>5 DEF Rollback, Abandon, L!Discard
  <1>6. QED
    BY <1>1, <1>2, <1>3, <1>4, <1>5 DEF Next

\* A link dies with the password it changes or by the link that replaces it, and for good.
THEOREM LinksDieForAReason == Spec => LinkDiesForAReason
  <1>1. ASSUME IInv, NEW x \in Requests, Commit(x), NEW l \in Links, link[l] # None,
               link'[l] # link[l]
        PROVE  /\ ~link[l].consumed
               /\ \/ /\ request[x].op = "confirm"
                     /\ request[x].link = l
                     /\ account'[link[l].user].password = request[x].new
                  \/ request[x].op = "link" /\ request[x].email = link[l].user
    <2>1. PICK r : r = request[x]
      OBVIOUS
    <2>2. Own(x) /\ r.at = "commit"
      BY <1>1, <2>1, Committed
    <2>3. linkHolder[l] = x
      BY <1>1, PublishedLinks
    <2>4. Dying(r, l) /\ r.op \in {"link", "confirm"} /\ (r.op = "confirm" => r.link = l)
      BY <1>1, <2>1, <2>2, <2>3 DEF Own, LinkLocks
    <2>5. r.op = "confirm" => /\ r.email \in Emails /\ accountHolder[r.email] = x
                              /\ accountDraft[r.email].password = r.new
      BY <2>1, <2>2 DEF Own, Shape, AccountLocks
    <2>6. r.op = "confirm" => account'[r.email].password = r.new
      BY <1>1, <2>5, Committed
    <2>7. QED
      BY <2>1, <2>4, <2>6 DEF Dying
  <1>2. ASSUME IInv, [Next]_vars, NEW l \in Links, link[l] # None, link'[l] # link[l]
        PROVE  /\ ~link[l].consumed
               /\ \E x \in Requests :
                    /\ Commit(x)
                    /\ \/ /\ request[x].op = "confirm"
                          /\ request[x].link = l
                          /\ account'[link[l].user].password = request[x].new
                       \/ request[x].op = "link" /\ request[x].email = link[l].user
    <2>1. PICK x \in Requests : Commit(x)
      BY <1>2, PublishedByCommit
    <2>2. QED
      BY <1>1, <1>2, <2>1
  <1>3. IInv /\ [Next]_vars =>
          [\A l \in Links : link[l] # None /\ link'[l] # link[l] =>
             /\ ~link[l].consumed
             /\ \E x \in Requests :
                  /\ Commit(x)
                  /\ \/ /\ request[x].op = "confirm"
                        /\ request[x].link = l
                        /\ account'[link[l].user].password = request[x].new
                     \/ request[x].op = "link" /\ request[x].email = link[l].user]_vars
    BY <1>2
  <1>4. QED
    BY <1>3, Invariance, PTL DEF Spec, LinkDiesForAReason

\* Who overwrites a password has verified the one that is there, unless it changed meanwhile.
THEOREM OverwritesAreVerified == Spec => OnlyRacesOverwrite
  <1>1. ASSUME IInv, NEW x \in Requests, Commit(x),
               request[x].op \in {"login", "change_password"}
        PROVE  account[request[x].email].password = request[x].old \/ request[x].stale
    <2>1. Own(x) /\ request[x].at = "commit"
      BY <1>1, Committed
    <2>2. QED
      BY <1>1, <2>1 DEF Own, Verified, Found
  <1>2. IInv /\ [Next]_vars =>
          [\A x \in Requests : Commit(x) /\ request[x].op \in {"login", "change_password"} =>
             LET e == request[x].email
             IN \/ account'[e].password = account[e].password
                \/ account[e].password = request[x].old
                \/ request[x].stale]_vars
    BY <1>1
  <1>3. QED
    BY <1>2, Invariance, PTL DEF Spec, OnlyRacesOverwrite

\* A login or a link never serves a deactivated account, unless it was deactivated meanwhile.
THEOREM ActiveAccountsAreServed == Spec => OnlyRacesServeInactive
  <1>1. ASSUME IInv, NEW x \in Requests, Commit(x), request[x].op \in {"login", "confirm"}
        PROVE  account[request[x].email].active \/ request[x].stale
    <2>1. Own(x) /\ request[x].at = "commit"
      BY <1>1, Committed
    <2>2. QED
      BY <1>1, <2>1 DEF Own, Verified, Found
  <1>2. IInv /\ [Next]_vars =>
          [\A x \in Requests : Commit(x) /\ request[x].op \in {"login", "confirm"} =>
             account[request[x].email].active \/ request[x].stale]_vars
    BY <1>1
  <1>3. QED
    BY <1>2, Invariance, PTL DEF Spec, OnlyRacesServeInactive
=============================================================================
