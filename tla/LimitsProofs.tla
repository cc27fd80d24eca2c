------------------------------ MODULE LimitsProofs ------------------------------
(***************************************************************************)
(* The sliding limits of Credentials hold up to the requests in flight,    *)
(* for any thresholds, windows, identifiers and addresses.  The counters   *)
(* of the code see only what is recorded, so the invariant adds to it what *)
(* has passed them and is not recorded yet: whoever passes has read a      *)
(* count below the threshold, and the others in flight are all that may be *)
(* missing from it.  The last section bounds the living links of an        *)
(* account, by giving each a request slot of its own.                      *)
(***************************************************************************)
EXTENDS CredentialsProofs, FiniteSetTheorems

\* An attempt that has passed the counters, of one of the identifiers E and addresses I, made
\* in the window that begins at s.
Falls(q, made, E, I, s, w) ==
  /\ q.outcome # "throttled" /\ q.email \in E /\ q.ip \in I
  /\ s <= made /\ made < s + w

Recorded(kind, E, I, s, w) ==
  {n \in DOMAIN log[kind] : Falls(log[kind][n], log[kind][n].at, E, I, s, w)}

Flying(kind, E, I, s, w) ==
  {x \in Requests : /\ request[x].op = kind
                    /\ Falls(request[x], request[x].started, E, I, s, w)}

Within(kind, E, I, w, M) ==
  \A s \in Nat : Cardinality(Recorded(kind, E, I, s, w)) + Cardinality(Flying(kind, E, I, s, w))
                   <= M - 1 + Cardinality(Requests)

\* The counters of the code: each has its identifiers, addresses, window and threshold.
LoginScope(E, I, M) ==
  \/ M = MaxPerPair /\ \E e \in Emails, i \in Ips : E = {e} /\ I = {i}
  \/ M = MaxPerIp /\ E = Emails /\ \E i \in Ips : I = {i}
  \/ M = MaxPerEmail /\ I = Ips /\ \E e \in Emails : E = {e}

LinkScope(E, I, M) ==
  \/ M = MaxLinksPerEmail /\ I = Ips /\ \E e \in Emails : E = {e}
  \/ M = MaxLinksPerIp /\ E = Emails /\ \E i \in Ips : I = {i}

Limited(kind, E, I, w, M) ==
  \/ kind = "login" /\ w = LoginWindow /\ LoginScope(E, I, M)
  \/ kind = "link" /\ w = ResetWindow /\ LinkScope(E, I, M)

\* Only a request that is about to be refused was stopped by a counter.
Unblocked ==
  \A x \in Requests : request[x].op \in {"login", "link"} /\ request[x].at # "fail"
                        => request[x].outcome = "refused"

LimitsInv ==
  /\ IInv
  /\ Unblocked
  /\ \A kind \in {"login", "link"}, E \in SUBSET Emails, I \in SUBSET Ips, w \in Nat, M \in Nat :
       Limited(kind, E, I, w, M) => Within(kind, E, I, w, M)

-----------------------------------------------------------------------------
(* Counting *)

LEMMA OneMoreOrLess ==
  ASSUME NEW S, NEW x, IsFiniteSet(S)
  PROVE  /\ Cardinality(S \cup {x}) \in Nat
         /\ Cardinality(S \cup {x}) <= Cardinality(S) + 1
         /\ IsFiniteSet(S \ {x})
         /\ x \in S => Cardinality(S \ {x}) = Cardinality(S) - 1
         /\ x \notin S => Cardinality(S \ {x}) = Cardinality(S)
  <1>1. Cardinality(S) \in Nat
    BY FS_CardinalityType
  <1>2. /\ x \in S => Cardinality(S \cup {x}) = Cardinality(S)
        /\ x \notin S => Cardinality(S \cup {x}) = Cardinality(S) + 1
    BY FS_AddElement
  <1>3. /\ IsFiniteSet(S \ {x})
        /\ x \in S => Cardinality(S \ {x}) = Cardinality(S) - 1
        /\ x \notin S => Cardinality(S \ {x}) = Cardinality(S)
    BY FS_RemoveElement
  <1>4. QED
    BY <1>1, <1>2, <1>3

LEMMA LogFinite ==
  ASSUME TypeOK, NEW kind \in {"login", "link"}
  PROVE  /\ IsFiniteSet(DOMAIN log[kind])
         /\ \A n \in DOMAIN log[kind] : log[kind][n].at \in Nat
  <1>1. PICK rows \in Seq(Attempt) : rows = log[kind]
    BY DEF TypeOK
  <1>2. DOMAIN rows = 1..Len(rows) /\ Len(rows) \in Nat
    BY <1>1
  <1>3. IsFiniteSet(1..Len(rows))
    BY <1>2, FS_Interval
  <1>4. \A n \in DOMAIN rows : rows[n] \in Attempt
    BY <1>1
  <1>5. \A n \in DOMAIN rows : rows[n].at \in Nat
    BY <1>4 DEF Attempt
  <1>6. QED
    BY <1>1, <1>2, <1>3, <1>5

LEMMA CountsFinite ==
  ASSUME TypeOK, NEW kind \in {"login", "link"}, NEW E, NEW I, NEW s, NEW w
  PROVE  /\ IsFiniteSet(Recorded(kind, E, I, s, w))
         /\ Cardinality(Recorded(kind, E, I, s, w)) \in Nat
         /\ IsFiniteSet(Flying(kind, E, I, s, w))
         /\ Cardinality(Flying(kind, E, I, s, w)) \in Nat
         /\ Cardinality(Flying(kind, E, I, s, w)) <= Cardinality(Requests)
         /\ Cardinality(Requests) \in Nat
         /\ IsFiniteSet(Requests)
  <1>3. IsFiniteSet(DOMAIN log[kind])
    BY LogFinite
  <1>4. Recorded(kind, E, I, s, w) \in SUBSET DOMAIN log[kind]
    BY DEF Recorded
  <1>5. IsFiniteSet(Recorded(kind, E, I, s, w))
    BY <1>3, <1>4, FS_Subset
  <1>6. Flying(kind, E, I, s, w) \in SUBSET Requests
    BY DEF Flying
  <1>7. /\ IsFiniteSet(Flying(kind, E, I, s, w))
        /\ Cardinality(Flying(kind, E, I, s, w)) <= Cardinality(Requests)
    BY <1>6, BoundsAssumption, FS_Subset
  <1>8. QED
    BY <1>5, <1>7, BoundsAssumption, FS_CardinalityType

\* Nothing is recorded and nobody passes a counter.
LEMMA NobodyPasses ==
  ASSUME TypeOK, TypeOK', NEW kind \in {"login", "link"}, NEW E, NEW I, NEW w \in Nat, NEW M \in Nat,
         Within(kind, E, I, w, M), log' = log,
         \A s \in Nat : Flying(kind, E, I, s, w)' \subseteq Flying(kind, E, I, s, w)
  PROVE  Within(kind, E, I, w, M)'
  <1>1. ASSUME NEW s \in Nat
        PROVE  Cardinality(Recorded(kind, E, I, s, w)') + Cardinality(Flying(kind, E, I, s, w)')
                 <= M - 1 + Cardinality(Requests)
    <2>1. Recorded(kind, E, I, s, w)' = Recorded(kind, E, I, s, w)
      BY DEF Recorded
    <2>2. PICK f, g : /\ f = Flying(kind, E, I, s, w) /\ g = Flying(kind, E, I, s, w)'
                      /\ g \in SUBSET f /\ IsFiniteSet(f)
      BY CountsFinite
    <2>3. Cardinality(g) <= Cardinality(f) /\ Cardinality(g) \in Nat /\ Cardinality(f) \in Nat
      BY <2>2, FS_Subset, FS_CardinalityType
    <2>4. Cardinality(Recorded(kind, E, I, s, w)) + Cardinality(f) <= M - 1 + Cardinality(Requests)
      BY <2>2 DEF Within
    <2>5. QED
      BY <2>1, <2>2, <2>3, <2>4, CountsFinite
  <1>2. QED
    BY <1>1 DEF Within

\* A request passes the counter of the scope now: it has read less than the threshold.
LEMMA SomebodyPasses ==
  ASSUME TypeOK, TypeOK', NEW kind \in {"login", "link"}, NEW E, NEW I, NEW w \in Nat, NEW M \in Nat,
         Within(kind, E, I, w, M), log' = log, NEW x \in Requests,
         \A s \in Nat : Flying(kind, E, I, s, w)' \subseteq Flying(kind, E, I, s, w) \cup {x},
         request'[x].started = now, now \in Nat,
         (request'[x].email \in E /\ request'[x].ip \in I /\ request'[x].outcome # "throttled") =>
           Cardinality({n \in Recent(kind, w) : log[kind][n].email \in E /\ log[kind][n].ip \in I}) < M
  PROVE  Within(kind, E, I, w, M)'
  <1>1. ASSUME NEW s \in Nat
        PROVE  Cardinality(Recorded(kind, E, I, s, w)') + Cardinality(Flying(kind, E, I, s, w)')
                 <= M - 1 + Cardinality(Requests)
    <2>1. Recorded(kind, E, I, s, w)' = Recorded(kind, E, I, s, w)
      BY DEF Recorded
    <2>2. CASE x \in Flying(kind, E, I, s, w)'
      <3>1. /\ request'[x].email \in E /\ request'[x].ip \in I
            /\ request'[x].outcome # "throttled" /\ s <= now /\ now < s + w
        BY <2>2 DEF Flying, Falls
      <3>2. PICK R : /\ R = {n \in Recent(kind, w) : log[kind][n].email \in E /\ log[kind][n].ip \in I}
                     /\ Cardinality(R) < M
        BY <3>1
      <3>3. R \subseteq DOMAIN log[kind]
        BY <3>2 DEF Recent
      <3>4. IsFiniteSet(R)
        BY <3>3, LogFinite, FS_Subset
      <3>5. \A n \in DOMAIN log[kind] : log[kind][n].at \in Nat
        BY LogFinite
      <3>6. Recorded(kind, E, I, s, w) \in SUBSET R
        BY <3>1, <3>2, <3>5 DEF Recorded, Falls, Recent
      <3>7. Cardinality(Recorded(kind, E, I, s, w)) <= Cardinality(R) /\ Cardinality(R) \in Nat
        BY <3>4, <3>6, FS_Subset, FS_CardinalityType
      <3>8. /\ Cardinality(Flying(kind, E, I, s, w)') <= Cardinality(Requests)
            /\ Cardinality(Flying(kind, E, I, s, w)') \in Nat
            /\ Cardinality(Requests) \in Nat /\ Cardinality(Recorded(kind, E, I, s, w)) \in Nat
        <4>1. Flying(kind, E, I, s, w)' \in SUBSET Requests
          BY DEF Flying
        <4>2. QED
          BY <4>1, CountsFinite, FS_Subset, FS_CardinalityType
      <3>9. QED
        BY <2>1, <3>2, <3>7, <3>8
    <2>3. CASE x \notin Flying(kind, E, I, s, w)'
      <3>1. PICK f, g : /\ f = Flying(kind, E, I, s, w) /\ g = Flying(kind, E, I, s, w)'
                        /\ g \in SUBSET f /\ IsFiniteSet(f)
        BY <2>3, CountsFinite
      <3>2. Cardinality(g) <= Cardinality(f) /\ Cardinality(g) \in Nat /\ Cardinality(f) \in Nat
        BY <3>1, FS_Subset, FS_CardinalityType
      <3>3. Cardinality(Recorded(kind, E, I, s, w)) + Cardinality(f) <= M - 1 + Cardinality(Requests)
        BY <3>1 DEF Within
      <3>4. QED
        BY <2>1, <3>1, <3>2, <3>3, CountsFinite
    <2>4. QED
      BY <2>2, <2>3
  <1>2. QED
    BY <1>1 DEF Within

\* An attempt is recorded as its request ends: what the log gains, the flight loses.
LEMMA AttemptLands ==
  ASSUME TypeOK, TypeOK', NEW kind \in {"login", "link"}, NEW E, NEW I, NEW w \in Nat, NEW M \in Nat,
         Within(kind, E, I, w, M), NEW x \in Requests, NEW outcome \in Outcomes,
         request[x].op \in {"login", "link"},
         outcome # "throttled" => request[x].outcome # "throttled",
         log' = Logged(request[x], outcome),
         \A s \in Nat : Flying(kind, E, I, s, w)' \subseteq Flying(kind, E, I, s, w) \ {x}
  PROVE  Within(kind, E, I, w, M)'
  <1>1. CASE request[x].op # kind
    <2>1. log'[kind] = log[kind]
      BY <1>1 DEF Logged, TypeOK
    <2>2. \A s \in Nat : Recorded(kind, E, I, s, w)' = Recorded(kind, E, I, s, w)
      BY <2>1 DEF Recorded
    <2>3. ASSUME NEW s \in Nat
          PROVE  Cardinality(Recorded(kind, E, I, s, w)') + Cardinality(Flying(kind, E, I, s, w)')
                   <= M - 1 + Cardinality(Requests)
      <3>1. PICK f, g : /\ f = Flying(kind, E, I, s, w) /\ g = Flying(kind, E, I, s, w)'
                        /\ g \in SUBSET f /\ IsFiniteSet(f)
        BY CountsFinite
      <3>2. Cardinality(g) <= Cardinality(f) /\ Cardinality(g) \in Nat /\ Cardinality(f) \in Nat
        BY <3>1, FS_Subset, FS_CardinalityType
      <3>3. Cardinality(Recorded(kind, E, I, s, w)) + Cardinality(f) <= M - 1 + Cardinality(Requests)
        BY <3>1 DEF Within
      <3>4. QED
        BY <2>2, <3>1, <3>2, <3>3, CountsFinite
    <2>4. QED
      BY <2>3 DEF Within
  <1>2. CASE request[x].op = kind
    <2>1. PICK row : row = [email |-> request[x].email, ip |-> request[x].ip,
                            at |-> request[x].started, outcome |-> outcome]
      OBVIOUS
    <2>2. PICK old, new : /\ old = log[kind] /\ new = log'[kind]
                          /\ new = Append(old, row)
                          /\ old \in Seq(Attempt) /\ new \in Seq(Attempt)
      BY <1>2, <2>1 DEF Logged, TypeOK
    <2>3. row \in Attempt
      <3>1. new[Len(old) + 1] = row /\ Len(old) + 1 \in DOMAIN new
        <4>1. PICK any : old \in Seq(any) /\ row \in any
          <5>1. old \in Seq(Attempt \cup {row}) /\ row \in Attempt \cup {row}
            BY <2>2
          <5>2. QED
            BY <5>1
        <4>2. QED
          BY <2>2, <4>1
      <3>2. QED
        BY <2>2, <3>1
    <2>4. /\ DOMAIN new = DOMAIN old \cup {Len(old) + 1}
          /\ new[Len(old) + 1] = row
          /\ \A n \in DOMAIN old : new[n] = old[n]
          /\ Len(old) \in Nat
      BY <2>2, <2>3
    <2>5. ASSUME NEW s \in Nat
          PROVE  Cardinality(Recorded(kind, E, I, s, w)') + Cardinality(Flying(kind, E, I, s, w)')
                   <= M - 1 + Cardinality(Requests)
      <3>1. PICK f, g, c, d : /\ f = Flying(kind, E, I, s, w) /\ g = Flying(kind, E, I, s, w)'
                              /\ c = Recorded(kind, E, I, s, w) /\ d = Recorded(kind, E, I, s, w)'
                              /\ g \in SUBSET (f \ {x}) /\ IsFiniteSet(f) /\ IsFiniteSet(c)
        BY CountsFinite
      <3>2. /\ Cardinality(c) + Cardinality(f) <= M - 1 + Cardinality(Requests)
            /\ Cardinality(Requests) \in Nat /\ Cardinality(c) \in Nat /\ Cardinality(f) \in Nat
        BY <3>1, CountsFinite DEF Within
      <3>3. /\ c = {n \in DOMAIN old : Falls(old[n], old[n].at, E, I, s, w)}
            /\ d = {n \in DOMAIN new : Falls(new[n], new[n].at, E, I, s, w)}
        BY <2>2, <3>1 DEF Recorded
      <3>4. /\ IsFiniteSet(f \ {x})
            /\ x \in f => Cardinality(f \ {x}) = Cardinality(f) - 1
            /\ x \notin f => Cardinality(f \ {x}) = Cardinality(f)
        BY <3>1, OneMoreOrLess
      <3>5. Cardinality(g) <= Cardinality(f \ {x}) /\ Cardinality(g) \in Nat
        BY <3>1, <3>4, FS_Subset, FS_CardinalityType
      <3>6. CASE Falls(row, row.at, E, I, s, w)
        <4>1. d = c \cup {Len(old) + 1}
          BY <2>4, <3>3, <3>6
        <4>2. Cardinality(d) <= Cardinality(c) + 1 /\ Cardinality(d) \in Nat
          BY <3>1, <3>2, <4>1, OneMoreOrLess
        <4>3. Falls(request[x], request[x].started, E, I, s, w)
          BY <2>1, <3>6 DEF Falls
        <4>4. x \in f
          BY <1>2, <3>1, <4>3 DEF Flying
        <4>5. QED
          BY <3>1, <3>2, <3>4, <3>5, <4>2, <4>4
      <3>7. CASE ~Falls(row, row.at, E, I, s, w)
        <4>1. d = c
          BY <2>4, <3>3, <3>7
        <4>2. QED
          BY <3>1, <3>2, <3>4, <3>5, <4>1
      <3>8. QED
        BY <3>6, <3>7
    <2>6. QED
      BY <2>5 DEF Within
  <1>3. QED
    BY <1>1, <1>2

-----------------------------------------------------------------------------
(* The steps that count nothing *)

SameAttempt(p, q) ==
  /\ p.op = q.op /\ p.email = q.email /\ p.ip = q.ip
  /\ p.started = q.started /\ p.outcome = q.outcome

\* Nobody passes a counter and nothing is recorded.
Calm ==
  /\ log' = log
  /\ \A y \in Requests : SameAttempt(request'[y], request[y])
                           \/ request'[y].op \notin {"login", "link"}

LEMMA CalmKeepsLimits ==
  ASSUME TypeOK, TypeOK', Calm, NEW kind \in {"login", "link"}, NEW E, NEW I, NEW w \in Nat,
         NEW M \in Nat, Within(kind, E, I, w, M)
  PROVE  Within(kind, E, I, w, M)'
  <1>1. \A s \in Nat : Flying(kind, E, I, s, w)' \subseteq Flying(kind, E, I, s, w)
    BY DEF Flying, Falls, Calm, SameAttempt
  <1>2. QED
    BY <1>1, NobodyPasses DEF Calm

\* A request goes on with the attempt it has, or is no attempt.
LEMMA GoesCalmly ==
  ASSUME IInv, Unblocked, NEW x \in Requests, NEW q,
         request' = [request EXCEPT ![x] = q], log' = log,
         \/ SameAttempt(q, request[x]) /\ request[x].at # "fail"
         \/ q.op \notin {"login", "link"}
  PROVE  Calm /\ Unblocked'
  <1>1. \A y \in Requests : request'[y] = IF y = x THEN q ELSE request[y]
    BY DEF IInv, TypeOK
  <1>2. Calm
    BY <1>1 DEF Calm, SameAttempt
  <1>3. Unblocked'
    BY <1>1 DEF Unblocked, SameAttempt
  <1>4. QED
    BY <1>2, <1>3

LEMMA AbandonsCalmly ==
  ASSUME IInv, Unblocked, NEW x \in Requests, Abandon(x)
  PROVE  Calm /\ Unblocked'
  <1>1. request' = [request EXCEPT ![x] = Idle] /\ log' = log /\ Idle.op = "none"
    BY DEF Abandon, Idle
  <1>2. QED
    BY <1>1, GoesCalmly

\* What a step may change of a request without touching its attempt.
LEMMA SameAttempts ==
  ASSUME NEW r \in Request, NEW a, NEW b, NEW k, NEW l
  PROVE  /\ SameAttempt([r EXCEPT !.at = a], r)
         /\ SameAttempt([r EXCEPT !.at = a, !.stale = b], r)
         /\ SameAttempt([r EXCEPT !.at = a, !.left = k], r)
         /\ SameAttempt([r EXCEPT !.left = k], r)
         /\ SameAttempt([r EXCEPT !.link = l, !.at = a], r)
  BY DEF Request, SameAttempt

LEMMA StepsCalmly ==
  ASSUME IInv, Unblocked, NEW x \in Requests,
         \/ Verify(x) \/ FindAccount(x) \/ RehashPassword(x) \/ TouchLastLogin(x)
         \/ UpdatePassword(x) \/ UpdateActive(x) \/ InsertAccount(x) \/ BeginInvalidation(x)
         \/ InvalidateLink(x) \/ IssueLink(x) \/ Consume(x) \/ RereadAccount(x) \/ Rollback(x)
  PROVE  Calm /\ Unblocked'
  <1>1. PICK r \in Request : r = request[x] /\ request \in [Requests -> Request] /\ Shape(r)
    BY DEF IInv, TypeOK, Own
  <1>2. CASE Abandon(x)
    BY <1>2, AbandonsCalmly
  <1>3. ASSUME NEW q, request' = [request EXCEPT ![x] = q], log' = log, SameAttempt(q, r),
               r.at # "fail"
        PROVE  Calm /\ Unblocked'
    BY <1>1, <1>3, GoesCalmly
  <1>4. CASE \/ FindAccount(x) \/ RehashPassword(x) \/ TouchLastLogin(x) \/ UpdatePassword(x)
             \/ UpdateActive(x) \/ (InsertAccount(x) /\ ~Abandon(x))
    <2>1. PICK a : request' = [request EXCEPT ![x] = [r EXCEPT !.at = a]]
      BY <1>1, <1>4 DEF FindAccount, Think, RehashPassword, TouchLastLogin, UpdatePassword,
                        UpdateActive, InsertAccount, UpdateAccount
    <2>2. log' = log
      BY <1>4 DEF FindAccount, Think, RehashPassword, TouchLastLogin, UpdatePassword,
                  UpdateActive, InsertAccount, UpdateAccount
    <2>3. r.at # "fail"
      BY <1>1, <1>4 DEF FindAccount, RehashPassword, TouchLastLogin, UpdatePassword, UpdateActive,
                        InsertAccount
    <2>4. QED
      BY <1>3, <2>1, <2>2, <2>3, SameAttempts
  <1>5. CASE Verify(x) \/ (RereadAccount(x) /\ ~Abandon(x))
    <2>1. PICK a : \/ request' = [request EXCEPT ![x] = [r EXCEPT !.at = a]]
                   \/ request' = [request EXCEPT ![x] = [r EXCEPT !.at = a, !.stale = FALSE]]
      BY <1>1, <1>5 DEF Verify, RereadAccount, Think
    <2>2. log' = log /\ r.at # "fail"
      BY <1>1, <1>5 DEF Verify, RereadAccount, Think
    <2>3. QED
      BY <1>3, <2>1, <2>2, SameAttempts
  <1>6. CASE BeginInvalidation(x) \/ InvalidateLink(x)
    <2>1. PICK a, k : \/ request' = [request EXCEPT ![x] = [r EXCEPT !.at = a, !.left = k]]
                      \/ request' = [request EXCEPT ![x] = [r EXCEPT !.left = k]]
      BY <1>1, <1>6 DEF BeginInvalidation, InvalidateLink, Think, WriteLinks
    <2>2. log' = log /\ r.at # "fail"
      BY <1>1, <1>6 DEF BeginInvalidation, InvalidateLink, Think, WriteLinks
    <2>3. QED
      BY <1>3, <2>1, <2>2, SameAttempts
  <1>7. CASE IssueLink(x)
    <2>1. PICK l : request' = [request EXCEPT ![x] = [r EXCEPT !.link = l, !.at = "commit"]]
      BY <1>1, <1>7 DEF IssueLink, WriteLinks
    <2>2. log' = log /\ r.at # "fail"
      BY <1>1, <1>7 DEF IssueLink, WriteLinks
    <2>3. QED
      BY <1>3, <2>1, <2>2, SameAttempts
  <1>8. CASE Consume(x) /\ ~Abandon(x)
    <2>1. r.op = "confirm"
      BY <1>1, <1>8 DEF Consume, Shape, Request, Ops
    <2>2. PICK u, n : /\ log' = log
                      /\ request' = [request EXCEPT ![x] = [r EXCEPT !.email = u, !.started = n,
                                                                     !.at = "reread"]]
      BY <1>1, <1>8 DEF Consume, WriteLinks
    <2>3. PICK q : q = [r EXCEPT !.email = u, !.started = n, !.at = "reread"]
      OBVIOUS
    <2>4. q.op = "confirm"
      BY <2>1, <2>3 DEF Request
    <2>5. QED
      BY <2>2, <2>3, <2>4, GoesCalmly
  <1>9. QED
    BY <1>2, <1>4, <1>5, <1>6, <1>7, <1>8 DEF Rollback

LEMMA OtherAsksCalmly ==
  ASSUME IInv, Unblocked, NEW x \in Requests, NEW q, q.op \notin {"login", "link"}, Begin(x, q)
  PROVE  Calm /\ Unblocked'
  BY GoesCalmly DEF Begin

LEMMA AsksCalmly ==
  ASSUME IInv, Unblocked, NEW x \in Requests, Ask(x),
         ~ \E e \in Emails, i \in Ips, p \in Passwords : Authenticate(x, e, i, p),
         ~ \E e \in Emails, i \in Ips : RequestPasswordReset(x, e, i)
  PROVE  Calm /\ Unblocked'
  <1>1. ASSUME NEW l \in Links, NEW p \in Passwords, ConfirmPasswordReset(x, l, p)
        PROVE  Calm /\ Unblocked'
    BY <1>1, OtherAsksCalmly DEF ConfirmPasswordReset, Idle
  <1>2. ASSUME NEW e \in Emails, NEW p \in Passwords, NEW q \in Passwords, ChangePassword(x, e, p, q)
        PROVE  Calm /\ Unblocked'
    BY <1>2, OtherAsksCalmly DEF ChangePassword, Idle
  <1>3. ASSUME NEW e \in Emails, NEW p \in Passwords, ResetPassword(x, e, p)
        PROVE  Calm /\ Unblocked'
    BY <1>3, OtherAsksCalmly DEF ResetPassword, Idle
  <1>4. ASSUME NEW e \in Emails, NEW b \in BOOLEAN, SetActive(x, e, b)
        PROVE  Calm /\ Unblocked'
    BY <1>4, OtherAsksCalmly DEF SetActive, Idle
  <1>5. ASSUME NEW e \in Emails, NEW p \in Passwords, Create(x, e, p)
        PROVE  Calm /\ Unblocked'
    BY <1>5, OtherAsksCalmly DEF Create, Idle
  <1>6. QED
    BY <1>1, <1>2, <1>3, <1>4, <1>5 DEF Ask

-----------------------------------------------------------------------------
(* The counters *)

\* The counts of the code are the counts of the scopes.
LEMMA LoginGate ==
  ASSUME TypeOK, NEW E, NEW I, NEW M, LoginScope(E, I, M), NEW e \in E, NEW i \in I,
         MayTry(e, i)
  PROVE  Cardinality({n \in Recent("login", LoginWindow) :
                        log["login"][n].email \in E /\ log["login"][n].ip \in I}) < M
  <1> DEFINE recent == Recent("login", LoginWindow)
             R == {n \in recent : log["login"][n].email \in E /\ log["login"][n].ip \in I}
  <1>1. PICK rows \in Seq(Attempt) : rows = log["login"]
    BY DEF TypeOK
  <1>2. \A n \in recent : rows[n] \in Attempt
    BY <1>1 DEF Recent
  <1>3. \A n \in recent : log["login"][n].email \in Emails /\ log["login"][n].ip \in Ips
    BY <1>1, <1>2 DEF Attempt
  <1>4. CASE M = MaxPerPair /\ \E f \in Emails, j \in Ips : E = {f} /\ I = {j}
    <2>1. E = {e} /\ I = {i}
      BY <1>4
    <2>2. R = From("login", Of("login", recent, e), i)
      BY <2>1 DEF From, Of
    <2>3. QED
      BY <1>4, <2>2 DEF MayTry
  <1>5. CASE M = MaxPerIp /\ E = Emails /\ \E j \in Ips : I = {j}
    <2>1. I = {i}
      BY <1>5
    <2>2. R = From("login", recent, i)
      BY <1>3, <1>5, <2>1 DEF From
    <2>3. QED
      BY <1>5, <2>2 DEF MayTry
  <1>6. CASE M = MaxPerEmail /\ I = Ips /\ \E f \in Emails : E = {f}
    <2>1. E = {e}
      BY <1>6
    <2>2. R = Of("login", recent, e)
      BY <1>3, <1>6, <2>1 DEF Of
    <2>3. QED
      BY <1>6, <2>2 DEF MayTry
  <1>7. QED
    BY <1>4, <1>5, <1>6 DEF LoginScope

LEMMA LinkGate ==
  ASSUME TypeOK, NEW E, NEW I, NEW M, LinkScope(E, I, M), NEW e \in E, NEW i \in I,
         MayAsk(e, i)
  PROVE  Cardinality({n \in Recent("link", ResetWindow) :
                        log["link"][n].email \in E /\ log["link"][n].ip \in I}) < M
  <1> DEFINE recent == Recent("link", ResetWindow)
             R == {n \in recent : log["link"][n].email \in E /\ log["link"][n].ip \in I}
  <1>1. PICK rows \in Seq(Attempt) : rows = log["link"]
    BY DEF TypeOK
  <1>2. \A n \in recent : rows[n] \in Attempt
    BY <1>1 DEF Recent
  <1>3. \A n \in recent : log["link"][n].email \in Emails /\ log["link"][n].ip \in Ips
    BY <1>1, <1>2 DEF Attempt
  <1>4. CASE M = MaxLinksPerEmail /\ I = Ips /\ \E f \in Emails : E = {f}
    <2>1. E = {e}
      BY <1>4
    <2>2. R = Of("link", recent, e)
      BY <1>3, <1>4, <2>1 DEF Of
    <2>3. QED
      BY <1>4, <2>2 DEF MayAsk
  <1>5. CASE M = MaxLinksPerIp /\ E = Emails /\ \E j \in Ips : I = {j}
    <2>1. I = {i}
      BY <1>5
    <2>2. R = From("link", recent, i)
      BY <1>3, <1>5, <2>1 DEF From
    <2>3. QED
      BY <1>5, <2>2 DEF MayAsk
  <1>6. QED
    BY <1>4, <1>5 DEF LinkScope

\* A request that arrives: what its counters have said is in its record.
LEMMA Arrives ==
  ASSUME IInv, IInv', Unblocked, NEW x \in Requests, NEW op \in {"login", "link"}, NEW q,
         Begin(x, q), q.op = op, q.started = now, q.at # "fail" => q.outcome = "refused",
         NEW kind \in {"login", "link"}, NEW E, NEW I, NEW w \in Nat, NEW M \in Nat,
         op = kind /\ q.email \in E /\ q.ip \in I /\ q.outcome # "throttled" =>
           Cardinality({n \in Recent(kind, w) : log[kind][n].email \in E /\ log[kind][n].ip \in I}) < M
  PROVE  Within(kind, E, I, w, M) => Within(kind, E, I, w, M)'
  <1> HAVE Within(kind, E, I, w, M)
  <1>1. /\ \A y \in Requests : request'[y] = IF y = x THEN q ELSE request[y]
        /\ log' = log
    BY DEF Begin, IInv, TypeOK
  <1>3. CASE op = kind
    <2>1. \A s \in Nat : Flying(kind, E, I, s, w)' \subseteq Flying(kind, E, I, s, w) \cup {x}
      BY <1>1 DEF Flying, Falls
    <2>2. request'[x].started = now /\ now \in Nat
      BY <1>1 DEF IInv, TypeOK
    <2>3. TypeOK /\ TypeOK'
      BY DEF IInv
    <2>4. QED
      BY <1>1, <1>3, <2>1, <2>2, <2>3, SomebodyPasses
  <1>4. CASE op # kind
    <2>1. \A s \in Nat : Flying(kind, E, I, s, w)' \subseteq Flying(kind, E, I, s, w)
      BY <1>1, <1>4 DEF Flying, Falls
    <2>2. TypeOK /\ TypeOK'
      BY DEF IInv
    <2>3. QED
      BY <1>1, <2>1, <2>2, NobodyPasses
  <1>5. QED
    BY <1>3, <1>4

LEMMA ArrivesUnblocked ==
  ASSUME IInv, Unblocked, NEW x \in Requests, NEW q, Begin(x, q),
         q.at # "fail" => q.outcome = "refused"
  PROVE  Unblocked'
  <1>1. \A y \in Requests : request'[y] = IF y = x THEN q ELSE request[y]
    BY DEF Begin, IInv, TypeOK
  <1>2. QED
    BY <1>1 DEF Unblocked

\* An attempt that ends with its row in the log.
LEMMA Lands ==
  ASSUME IInv, IInv', Unblocked, NEW x \in Requests, NEW outcome \in Outcomes,
         request[x].op \in {"login", "link"},
         outcome # "throttled" => request[x].outcome # "throttled",
         log' = Logged(request[x], outcome), request'[x] = Idle,
         \A y \in Requests \ {x} : SameAttempt(request'[y], request[y]) /\ request'[y].at = request[y].at,
         NEW kind \in {"login", "link"}, NEW E, NEW I, NEW w \in Nat, NEW M \in Nat
  PROVE  /\ Unblocked'
         /\ Within(kind, E, I, w, M) => Within(kind, E, I, w, M)'
  <1>1. Idle.op = "none"
    BY DEF Idle
  <1>2. Unblocked'
    BY <1>1 DEF Unblocked, SameAttempt
  <1>3. \A s \in Nat : Flying(kind, E, I, s, w)' \subseteq Flying(kind, E, I, s, w) \ {x}
    BY <1>1 DEF Flying, Falls, SameAttempt
  <1>4. TypeOK /\ TypeOK'
    BY DEF IInv
  <1>5. QED
    BY <1>2, <1>3, <1>4, AttemptLands

-----------------------------------------------------------------------------
(* The invariant *)

LEMMA WithinNext ==
  ASSUME IInv, IInv', Unblocked, [Next]_vars,
         NEW kind \in {"login", "link"}, NEW E, NEW I, NEW w \in Nat, NEW M \in Nat
  PROVE  /\ Unblocked'
         /\ Limited(kind, E, I, w, M) /\ Within(kind, E, I, w, M) => Within(kind, E, I, w, M)'
  <1> DEFINE Kept == /\ Unblocked'
                     /\ Limited(kind, E, I, w, M) /\ Within(kind, E, I, w, M)
                          => Within(kind, E, I, w, M)'
  <1>1. ASSUME Calm, Unblocked'
        PROVE  Kept
    <2>1. TypeOK /\ TypeOK'
      BY DEF IInv
    <2>2. QED
      BY <1>1, <2>1, CalmKeepsLimits
  <1>2. CASE UNCHANGED <<log, request>>
    <2>1. Calm /\ Unblocked'
      BY <1>2 DEF Calm, SameAttempt, Unblocked
    <2>2. QED
      BY <1>1, <2>1
  <1>3. ASSUME NEW x \in Requests, Ask(x)
        PROVE  Kept
    <2>1. ASSUME NEW e \in Emails, NEW i \in Ips, NEW p \in Passwords, Authenticate(x, e, i, p)
          PROVE  Kept
      <3>1. PICK q : /\ q = [Idle EXCEPT !.op = "login", !.email = e, !.ip = i, !.started = now,
                                         !.old = p, !.new = p,
                                         !.at = IF MayTry(e, i) THEN "read" ELSE "fail",
                                         !.outcome = IF MayTry(e, i) THEN "refused" ELSE "throttled"]
                     /\ Begin(x, q)
        BY <2>1 DEF Authenticate
      <3>2. /\ q.op = "login" /\ q.email = e /\ q.ip = i /\ q.started = now
            /\ q.at # "fail" => q.outcome = "refused"
            /\ q.outcome # "throttled" => MayTry(e, i)
        BY <3>1 DEF Idle
      <3>3. Limited(kind, E, I, w, M) /\ kind = "login" /\ e \in E /\ i \in I /\ MayTry(e, i) =>
              Cardinality({n \in Recent(kind, w) : log[kind][n].email \in E /\ log[kind][n].ip \in I}) < M
        BY LoginGate DEF Limited, IInv
      <3>4. Unblocked'
        BY <3>1, <3>2, ArrivesUnblocked
      <3>5. ASSUME Limited(kind, E, I, w, M), Within(kind, E, I, w, M)
            PROVE  Within(kind, E, I, w, M)'
        <4>1. "login" = kind /\ q.email \in E /\ q.ip \in I /\ q.outcome # "throttled" =>
                Cardinality({n \in Recent(kind, w) : log[kind][n].email \in E /\ log[kind][n].ip \in I}) < M
          BY <3>2, <3>3, <3>5
        <4>2. "login" \in {"login", "link"}
          OBVIOUS
        <4>3. Begin(x, q) /\ q.op = "login" /\ q.started = now /\ (q.at # "fail" => q.outcome = "refused")
          BY <3>1, <3>2
        <4>4. Within(kind, E, I, w, M) => Within(kind, E, I, w, M)'
          BY <4>1, <4>2, <4>3, Arrives
        <4>5. QED
          BY <3>5, <4>4
      <3>6. QED
        BY <3>4, <3>5
    <2>2. ASSUME NEW e \in Emails, NEW i \in Ips, RequestPasswordReset(x, e, i)
          PROVE  Kept
      <3>1. PICK q : /\ q = [Idle EXCEPT !.op = "link", !.email = e, !.ip = i, !.started = now,
                                         !.at = IF MayAsk(e, i) THEN "read" ELSE "fail",
                                         !.outcome = IF MayAsk(e, i) THEN "refused" ELSE "throttled"]
                     /\ Begin(x, q)
        BY <2>2 DEF RequestPasswordReset
      <3>2. /\ q.op = "link" /\ q.email = e /\ q.ip = i /\ q.started = now
            /\ q.at # "fail" => q.outcome = "refused"
            /\ q.outcome # "throttled" => MayAsk(e, i)
        BY <3>1 DEF Idle
      <3>3. Limited(kind, E, I, w, M) /\ kind = "link" /\ e \in E /\ i \in I /\ MayAsk(e, i) =>
              Cardinality({n \in Recent(kind, w) : log[kind][n].email \in E /\ log[kind][n].ip \in I}) < M
        BY LinkGate DEF Limited, IInv
      <3>4. Unblocked'
        BY <3>1, <3>2, ArrivesUnblocked
      <3>5. ASSUME Limited(kind, E, I, w, M), Within(kind, E, I, w, M)
            PROVE  Within(kind, E, I, w, M)'
        <4>1. "link" = kind /\ q.email \in E /\ q.ip \in I /\ q.outcome # "throttled" =>
                Cardinality({n \in Recent(kind, w) : log[kind][n].email \in E /\ log[kind][n].ip \in I}) < M
          BY <3>2, <3>3, <3>5
        <4>2. "link" \in {"login", "link"}
          OBVIOUS
        <4>3. Begin(x, q) /\ q.op = "link" /\ q.started = now /\ (q.at # "fail" => q.outcome = "refused")
          BY <3>1, <3>2
        <4>4. Within(kind, E, I, w, M) => Within(kind, E, I, w, M)'
          BY <4>1, <4>2, <4>3, Arrives
        <4>5. QED
          BY <3>5, <4>4
      <3>6. QED
        BY <3>4, <3>5
    <2>3. QED
      BY <1>1, <1>3, <2>1, <2>2, AsksCalmly
  <1>4. ASSUME NEW x \in Requests, RecordRefusal(x)
        PROVE  Kept
    <2>1. PICK r \in Request : r = request[x] /\ Shape(r) /\ r.at = "fail"
      BY <1>4 DEF RecordRefusal, IInv, TypeOK, Own
    <2>2. r.op \in {"login", "link"} /\ r.outcome \in Outcomes
      BY <2>1 DEF Shape, Request, Ops
    <2>3. /\ log' = Logged(request[x], r.outcome)
          /\ \A y \in Requests : request'[y] = IF y = x THEN Idle ELSE request[y]
      BY <1>4, <2>1 DEF RecordRefusal, IInv, TypeOK
    <2>4. \A y \in Requests \ {x} : SameAttempt(request'[y], request[y]) /\ request'[y].at = request[y].at
      BY <2>3 DEF SameAttempt
    <2>5. QED
      BY <2>1, <2>2, <2>3, <2>4, Lands
  <1>5. ASSUME NEW x \in Requests, Commit(x)
        PROVE  Kept
    <2>1. PICK r \in Request : r = request[x] /\ r.at = "commit"
      BY <1>5 DEF Commit, IInv, TypeOK
    <2>2. request'[x] = Idle
      BY <1>5 DEF Commit
    <2>3. ASSUME NEW y \in Requests \ {x}
          PROVE  SameAttempt(request'[y], request[y]) /\ request'[y].at = request[y].at
      <3>1. PICK p \in Request : p = request[y]
        BY DEF IInv, TypeOK
      <3>2. PICK b : request'[y] = [p EXCEPT !.stale = b]
        BY <1>5, <3>1 DEF Commit
      <3>3. QED
        BY <3>1, <3>2 DEF Request, SameAttempt
    <2>4. CASE r.op = "link"
      <3>1. log' = Logged(request[x], "granted") /\ request[x].outcome # "throttled"
        BY <1>5, <2>1, <2>4 DEF Commit, Unblocked
      <3>2. "granted" \in Outcomes
        BY DEF Outcomes
      <3>3. QED
        BY <2>1, <2>2, <2>3, <2>4, <3>1, <3>2, Lands
    <2>5. CASE r.op # "link"
      <3>1. log' = log
        BY <1>5, <2>1, <2>5 DEF Commit
      <3>2. Idle.op = "none"
        BY DEF Idle
      <3>3. Calm /\ Unblocked'
        BY <2>2, <2>3, <3>1, <3>2 DEF Calm, Unblocked, SameAttempt
      <3>4. QED
        BY <1>1, <3>3
    <2>6. QED
      BY <2>4, <2>5
  <1>6. ASSUME NEW x \in Requests, Step(x) \/ Rollback(x)
        PROVE  Kept
    BY <1>1, <1>4, <1>5, <1>6, StepsCalmly DEF Step
  <1>7. CASE Tick \/ (\E l \in Links : SendMail(l)) \/ UNCHANGED vars
    BY <1>2, <1>7 DEF Tick, SendMail, vars
  <1>8. QED
    BY <1>3, <1>6, <1>7 DEF Next

LEMMA LimitsInit == Init => LimitsInv
  <1> SUFFICES ASSUME Init
               PROVE  LimitsInv
    OBVIOUS
  <1>1. IInv
    BY InitIInv
  <1>2. \A x \in Requests : request[x].op = "none"
    BY DEF Init, Idle
  <1>3. ASSUME NEW kind \in {"login", "link"}, NEW E \in SUBSET Emails, NEW I \in SUBSET Ips,
               NEW w \in Nat, NEW M \in Nat, Limited(kind, E, I, w, M)
        PROVE  Within(kind, E, I, w, M)
    <2>1. M >= 1
      BY <1>3, LimitsAssumption DEF Limited, LoginScope, LinkScope
    <2>2. ASSUME NEW s \in Nat
          PROVE  Recorded(kind, E, I, s, w) = {} /\ Flying(kind, E, I, s, w) = {}
      <3>1. log[kind] = <<>>
        BY DEF Init
      <3>2. QED
        BY <1>2, <3>1 DEF Recorded, Flying
    <2>3. Cardinality({}) = 0 /\ Cardinality(Requests) \in Nat
      BY FS_EmptySet, BoundsAssumption, FS_CardinalityType
    <2>4. ASSUME NEW s \in Nat
          PROVE  Cardinality(Recorded(kind, E, I, s, w)) + Cardinality(Flying(kind, E, I, s, w))
                   <= M - 1 + Cardinality(Requests)
      <3>1. /\ Cardinality(Recorded(kind, E, I, s, w)) = 0
            /\ Cardinality(Flying(kind, E, I, s, w)) = 0
        BY <2>2, <2>3
      <3>2. QED
        BY <2>1, <2>3, <3>1
    <2>5. QED
      BY <2>4 DEF Within
  <1>4. QED
    BY <1>1, <1>2, <1>3 DEF LimitsInv, Unblocked

LEMMA LimitsInvariance == Spec => []LimitsInv
  <1>1. LimitsInv /\ [Next]_vars => LimitsInv'
    <2> SUFFICES ASSUME LimitsInv, [Next]_vars
                 PROVE  LimitsInv'
      OBVIOUS
    <2>1. IInv'
      BY NextIInv DEF LimitsInv
    <2>2. Unblocked'
      <3>1. "login" \in {"login", "link"} /\ 0 \in Nat
        OBVIOUS
      <3>2. QED
        BY <2>1, <3>1, WithinNext DEF LimitsInv
    <2>3. ASSUME NEW kind \in {"login", "link"}, NEW E \in SUBSET Emails, NEW I \in SUBSET Ips,
                 NEW w \in Nat, NEW M \in Nat, Limited(kind, E, I, w, M)
          PROVE  Within(kind, E, I, w, M)'
      BY <2>1, <2>3, WithinNext DEF LimitsInv
    <2>4. QED
      BY <2>1, <2>2, <2>3 DEF LimitsInv
  <1>2. QED
    BY <1>1, LimitsInit, PTL DEF Spec

\* What every counter counts stays under its threshold, up to the other requests in flight.
LEMMA PassedBounded ==
  ASSUME LimitsInv, NEW kind \in {"login", "link"}, NEW E \in SUBSET Emails, NEW I \in SUBSET Ips,
         NEW w \in Nat, NEW M \in Nat, Limited(kind, E, I, w, M), NEW s \in Nat
  PROVE  Cardinality(Recorded(kind, E, I, s, w)) <= M + Overshoot
  <1>1. /\ Cardinality(Recorded(kind, E, I, s, w)) \in Nat
        /\ Cardinality(Flying(kind, E, I, s, w)) \in Nat
        /\ Cardinality(Requests) \in Nat
    BY CountsFinite DEF LimitsInv, IInv
  <1>2. Cardinality(Recorded(kind, E, I, s, w)) + Cardinality(Flying(kind, E, I, s, w))
          <= M - 1 + Cardinality(Requests)
    BY DEF LimitsInv, Within
  <1>3. QED
    BY <1>1, <1>2 DEF Overshoot

\* The rows of the properties are those of the scopes.
LEMMA PassedRows ==
  ASSUME TypeOK, NEW kind \in {"login", "link"}, NEW s \in Nat, NEW w \in Nat
  PROVE  /\ \A i \in Ips : From(kind, Passed(kind, s, w), i) = Recorded(kind, Emails, {i}, s, w)
         /\ \A e \in Emails : Of(kind, Passed(kind, s, w), e) = Recorded(kind, {e}, Ips, s, w)
         /\ \A e \in Emails, i \in Ips :
              From(kind, Of(kind, Passed(kind, s, w), e), i) = Recorded(kind, {e}, {i}, s, w)
  <1>1. PICK rows \in Seq(Attempt) : rows = log[kind]
    BY DEF TypeOK
  <1>2. \A n \in DOMAIN rows : rows[n] \in Attempt
    BY <1>1
  <1>3. \A n \in DOMAIN log[kind] : log[kind][n].email \in Emails /\ log[kind][n].ip \in Ips
    BY <1>1, <1>2 DEF Attempt
  <1>4. QED
    BY <1>3 DEF From, Of, Passed, Recorded, Falls

\* The limit on logins holds up to the requests in flight (services/auth.py:404-464,
\* repositories/login_attempt.py:43-67).
THEOREM GuessesStayBounded == Spec => []GuessesBounded
  <1>1. ASSUME LimitsInv
        PROVE  GuessesBounded
    <2>1. now \in Nat /\ TypeOK
      BY <1>1 DEF LimitsInv, IInv, TypeOK
    <2>2. ASSUME NEW s \in 0..now
          PROVE  /\ \A i \in Ips : Cardinality(From("login", Passed("login", s, LoginWindow), i))
                                     <= MaxPerIp + Overshoot
                 /\ \A e \in Emails :
                      /\ Cardinality(Of("login", Passed("login", s, LoginWindow), e))
                           <= MaxPerEmail + Overshoot
                      /\ \A i \in Ips :
                           Cardinality(From("login", Of("login", Passed("login", s, LoginWindow), e), i))
                             <= MaxPerPair + Overshoot
      <3>1. s \in Nat /\ {LoginWindow, MaxPerIp, MaxPerEmail, MaxPerPair} \subseteq Nat
        BY <2>1, LimitsAssumption
      <3>2. ASSUME NEW i \in Ips
            PROVE  Cardinality(Recorded("login", Emails, {i}, s, LoginWindow)) <= MaxPerIp + Overshoot
        <4>1. Limited("login", Emails, {i}, LoginWindow, MaxPerIp)
          BY DEF Limited, LoginScope
        <4>2. QED
          BY <1>1, <3>1, <4>1, PassedBounded
      <3>3. ASSUME NEW e \in Emails
            PROVE  Cardinality(Recorded("login", {e}, Ips, s, LoginWindow)) <= MaxPerEmail + Overshoot
        <4>1. Limited("login", {e}, Ips, LoginWindow, MaxPerEmail)
          BY DEF Limited, LoginScope
        <4>2. QED
          BY <1>1, <3>1, <4>1, PassedBounded
      <3>4. ASSUME NEW e \in Emails, NEW i \in Ips
            PROVE  Cardinality(Recorded("login", {e}, {i}, s, LoginWindow)) <= MaxPerPair + Overshoot
        <4>1. Limited("login", {e}, {i}, LoginWindow, MaxPerPair)
          BY DEF Limited, LoginScope
        <4>2. QED
          BY <1>1, <3>1, <4>1, PassedBounded
      <3>5. /\ \A i \in Ips : From("login", Passed("login", s, LoginWindow), i)
                               = Recorded("login", Emails, {i}, s, LoginWindow)
            /\ \A e \in Emails : Of("login", Passed("login", s, LoginWindow), e)
                               = Recorded("login", {e}, Ips, s, LoginWindow)
            /\ \A e \in Emails, i \in Ips :
                 From("login", Of("login", Passed("login", s, LoginWindow), e), i)
                   = Recorded("login", {e}, {i}, s, LoginWindow)
        <4>1. "login" \in {"login", "link"} /\ LoginWindow \in Nat
          BY <3>1
        <4>2. QED
          BY <2>1, <3>1, <4>1, PassedRows
      <3>6. QED
        BY <3>2, <3>3, <3>4, <3>5
    <2>3. QED
      BY <2>2 DEF GuessesBounded
  <1>2. QED
    BY <1>1, LimitsInvariance, PTL

\* The same of the requests for a link (services/auth.py:435-450,
\* repositories/password_reset_attempt.py:25-42).
THEOREM GrantsStayBounded == Spec => []GrantsBounded
  <1>1. ASSUME LimitsInv
        PROVE  GrantsBounded
    <2>1. now \in Nat /\ TypeOK
      BY <1>1 DEF LimitsInv, IInv, TypeOK
    <2>2. ASSUME NEW s \in 0..now
          PROVE  /\ \A i \in Ips : Cardinality(From("link", Passed("link", s, ResetWindow), i))
                                     <= MaxLinksPerIp + Overshoot
                 /\ \A e \in Emails : Cardinality(Of("link", Passed("link", s, ResetWindow), e))
                                        <= MaxLinksPerEmail + Overshoot
      <3>1. s \in Nat /\ {ResetWindow, MaxLinksPerIp, MaxLinksPerEmail} \subseteq Nat
        BY <2>1, LimitsAssumption
      <3>2. ASSUME NEW i \in Ips
            PROVE  Cardinality(Recorded("link", Emails, {i}, s, ResetWindow)) <= MaxLinksPerIp + Overshoot
        <4>1. Limited("link", Emails, {i}, ResetWindow, MaxLinksPerIp)
          BY DEF Limited, LinkScope
        <4>2. QED
          BY <1>1, <3>1, <4>1, PassedBounded
      <3>3. ASSUME NEW e \in Emails
            PROVE  Cardinality(Recorded("link", {e}, Ips, s, ResetWindow)) <= MaxLinksPerEmail + Overshoot
        <4>1. Limited("link", {e}, Ips, ResetWindow, MaxLinksPerEmail)
          BY DEF Limited, LinkScope
        <4>2. QED
          BY <1>1, <3>1, <4>1, PassedBounded
      <3>4. QED
        BY <2>1, <3>1, <3>2, <3>3, PassedRows
    <2>3. QED
      BY <2>2 DEF GrantsBounded
  <1>2. QED
    BY <1>1, LimitsInvariance, PTL

-----------------------------------------------------------------------------
(* Living links *)

Living(e) == {l \in Links : link[l] # None /\ link[l].user = e /\ ~link[l].consumed}

\* A request that is issuing a link to e, and whose snapshot does not hold the living link l.
Spares(x, e, l) ==
  LET r == request[x]
  IN /\ r.op = "link" /\ r.email = e /\ r.at \in {"sweep", "commit"}
     /\ linkHolder[l] # x
     /\ ~(r.at = "sweep" /\ l \in r.left)

\* Every living link has a slot of its own in Requests, the one that issued it: whoever
\* issues the next link from that slot will kill it.
OneEach(e, f) ==
  /\ f \in [Living(e) -> Requests]
  /\ \A l, k \in Living(e) : f[l] = f[k] => l = k
  /\ \A l \in Living(e) : ~Spares(f[l], e, l)

LivingInv == IInv /\ \A e \in Emails : \E f : OneEach(e, f)

\* The slots are kept by a step that brings no link to life, if it spares none it did not.
LEMMA SlotsKept ==
  ASSUME NEW e, NEW f, OneEach(e, f), Living(e)' \subseteq Living(e),
         \A x \in Requests, l \in Living(e)' : Spares(x, e, l)' => Spares(x, e, l)
  PROVE  \E g : OneEach(e, g)'
  <1>1. PICK g : g \in [Living(e)' -> Requests] /\ \A l \in Living(e)' : g[l] = f[l]
    <2>1. PICK g : g = [l \in Living(e)' |-> f[l]]
      OBVIOUS
    <2>2. QED
      BY <2>1 DEF OneEach
  <1>2. OneEach(e, g)'
    BY <1>1 DEF OneEach
  <1>3. QED
    BY <1>2

\* A request that publishes nothing.
LEMMA SlotsKeptWithin ==
  ASSUME IInv, NEW x \in Requests, NEW r, request' = [request EXCEPT ![x] = r], link' = link,
         \A y \in Requests \ {x}, l \in Links : linkHolder[l] = y => linkHolder'[l] = y,
         NEW e \in Emails, NEW f, OneEach(e, f),
         \A l \in Living(e) : Spares(x, e, l)' => Spares(x, e, l)
  PROVE  \E g : OneEach(e, g)'
  <1>1. Living(e)' = Living(e)
    BY DEF Living
  <1>2. \A y \in Requests \ {x} : request'[y] = request[y]
    BY DEF IInv, TypeOK
  <1>3. ASSUME NEW y \in Requests, NEW l \in Living(e), Spares(y, e, l)'
        PROVE  Spares(y, e, l)
    BY <1>2, <1>3 DEF Spares, Living
  <1>4. QED
    BY <1>1, <1>3, SlotsKept

\* A request that is no more, or not yet, issuing a link.
LEMMA SlotsKeptApart ==
  ASSUME IInv, NEW x \in Requests, NEW r, request' = [request EXCEPT ![x] = r], link' = link,
         \A y \in Requests \ {x}, l \in Links : linkHolder[l] = y => linkHolder'[l] = y,
         r.op # "link" \/ r.at \notin {"sweep", "commit"},
         NEW e \in Emails, NEW f, OneEach(e, f)
  PROVE  \E g : OneEach(e, g)'
  <1>1. request'[x] = r
    BY DEF IInv, TypeOK
  <1>2. \A l \in Living(e) : ~Spares(x, e, l)'
    BY <1>1 DEF Spares
  <1>3. QED
    BY <1>2, SlotsKeptWithin

LEMMA BeginKeepsSlots ==
  ASSUME IInv, NEW x \in Requests, NEW q, Begin(x, q), q.at \notin {"sweep", "commit"},
         NEW e \in Emails, NEW f, OneEach(e, f)
  PROVE  \E g : OneEach(e, g)'
  BY SlotsKeptApart DEF Begin, tables

LEMMA AskKeepsSlots ==
  ASSUME IInv, NEW x \in Requests, Ask(x), NEW e \in Emails, NEW f, OneEach(e, f)
  PROVE  \E g : OneEach(e, g)'
  <1>1. ASSUME NEW u \in Emails, NEW i \in Ips, NEW p \in Passwords, Authenticate(x, u, i, p)
        PROVE  \E g : OneEach(e, g)'
    BY <1>1, BeginKeepsSlots DEF Authenticate, Idle
  <1>2. ASSUME NEW u \in Emails, NEW i \in Ips, RequestPasswordReset(x, u, i)
        PROVE  \E g : OneEach(e, g)'
    BY <1>2, BeginKeepsSlots DEF RequestPasswordReset, Idle
  <1>3. ASSUME NEW l \in Links, NEW p \in Passwords, ConfirmPasswordReset(x, l, p)
        PROVE  \E g : OneEach(e, g)'
    BY <1>3, BeginKeepsSlots DEF ConfirmPasswordReset, Idle
  <1>4. ASSUME NEW u \in Emails, NEW p \in Passwords, NEW q \in Passwords,
               ChangePassword(x, u, p, q)
        PROVE  \E g : OneEach(e, g)'
    BY <1>4, BeginKeepsSlots DEF ChangePassword, Idle
  <1>5. ASSUME NEW u \in Emails, NEW p \in Passwords, ResetPassword(x, u, p)
        PROVE  \E g : OneEach(e, g)'
    BY <1>5, BeginKeepsSlots DEF ResetPassword, Idle
  <1>6. ASSUME NEW u \in Emails, NEW b \in BOOLEAN, SetActive(x, u, b)
        PROVE  \E g : OneEach(e, g)'
    BY <1>6, BeginKeepsSlots DEF SetActive, Idle
  <1>7. ASSUME NEW u \in Emails, NEW p \in Passwords, Create(x, u, p)
        PROVE  \E g : OneEach(e, g)'
    BY <1>7, BeginKeepsSlots DEF Create, Idle
  <1>8. QED
    BY <1>1, <1>2, <1>3, <1>4, <1>5, <1>6, <1>7 DEF Ask

LEMMA AbandonKeepsSlots ==
  ASSUME IInv, NEW x \in Requests, Abandon(x), NEW e \in Emails, NEW f, OneEach(e, f)
  PROVE  \E g : OneEach(e, g)'
  <1>1. request' = [request EXCEPT ![x] = Idle] /\ link' = link /\ Idle.op = "none"
    BY DEF Abandon, L!Discard, Idle
  <1>2. \A l \in Links : linkHolder'[l] = IF linkHolder[l] = x THEN None ELSE linkHolder[l]
    BY DEF Abandon, L!Discard, L!Release
  <1>3. QED
    BY <1>1, <1>2, SlotsKeptApart

\* Steps of requests that are not issuing a link, or not yet.
LEMMA OtherStepsKeepSlots ==
  ASSUME IInv, NEW x \in Requests, NEW e \in Emails, NEW f, OneEach(e, f),
         \/ Verify(x) \/ FindAccount(x) \/ RecordRefusal(x) \/ RehashPassword(x)
         \/ TouchLastLogin(x) \/ UpdatePassword(x) \/ UpdateActive(x) \/ InsertAccount(x)
         \/ Consume(x) \/ RereadAccount(x) \/ Rollback(x)
  PROVE  \E g : OneEach(e, g)'
  <1>1. PICK r \in Request : r = request[x] /\ Shape(r)
    BY DEF IInv, TypeOK, Own
  <1>2. CASE Abandon(x)
    BY <1>2, AbandonKeepsSlots
  <1>3. ASSUME NEW s, Think(x, s), s.op # "link" \/ s.at \notin {"sweep", "commit"}
        PROVE  \E g : OneEach(e, g)'
    BY <1>3, SlotsKeptApart DEF Think, tables
  <1>4. CASE Verify(x) \/ FindAccount(x) \/ (RereadAccount(x) /\ ~Abandon(x))
    <2>1. PICK a \in {"rehash", "touch", "fail", "invalidate", "password"} :
            \/ Think(x, [r EXCEPT !.at = a])
            \/ Think(x, [r EXCEPT !.at = a, !.stale = FALSE])
      BY <1>1, <1>4 DEF Verify, FindAccount, RereadAccount
    <2>2. /\ [r EXCEPT !.at = a].at = a
          /\ [r EXCEPT !.at = a, !.stale = FALSE].at = a
      BY DEF Request
    <2>3. QED
      BY <1>3, <2>1, <2>2
  <1>5. CASE RecordRefusal(x)
    <2>1. request' = [request EXCEPT ![x] = Idle] /\ UNCHANGED tables /\ Idle.op = "none"
      BY <1>5 DEF RecordRefusal, Idle
    <2>2. QED
      BY <2>1, SlotsKeptApart DEF tables
  <1>6. CASE \/ RehashPassword(x) \/ TouchLastLogin(x) \/ UpdatePassword(x) \/ UpdateActive(x)
             \/ (InsertAccount(x) /\ ~Abandon(x))
    <2>1. r.at \in {"rehash", "touch", "password", "activate", "create"}
      BY <1>1, <1>6 DEF RehashPassword, TouchLastLogin, UpdatePassword, UpdateActive,
                        InsertAccount
    <2>2. r.op # "link"
      BY <1>1, <2>1 DEF Shape
    <2>3. PICK a : request' = [request EXCEPT ![x] = [r EXCEPT !.at = a]]
      BY <1>1, <1>6 DEF RehashPassword, TouchLastLogin, UpdatePassword, UpdateActive,
                        InsertAccount, UpdateAccount
    <2>4. UNCHANGED <<link, linkHolder>>
      BY <1>6 DEF RehashPassword, TouchLastLogin, UpdatePassword, UpdateActive,
                  InsertAccount, UpdateAccount
    <2>5. [r EXCEPT !.at = a].op = r.op
      BY DEF Request
    <2>6. QED
      BY <2>2, <2>3, <2>4, <2>5, SlotsKeptApart
  <1>7. CASE Consume(x) /\ ~Abandon(x)
    <2>1. r.op = "confirm"
      BY <1>1, <1>7 DEF Consume, Shape, Request, Ops
    <2>2. PICK u, n : request' = [request EXCEPT ![x] = [r EXCEPT !.email = u, !.started = n,
                                                                  !.at = "reread"]]
      BY <1>1, <1>7 DEF Consume, WriteLinks
    <2>3. /\ link' = link
          /\ \A y \in Requests \ {x}, l \in Links : linkHolder[l] = y => linkHolder'[l] = y
      BY <1>1, <1>7, NoneAssumption DEF Consume, WriteLinks, L!Write, L!Free
    <2>4. [r EXCEPT !.email = u, !.started = n, !.at = "reread"].at = "reread"
      BY DEF Request
    <2>5. QED
      BY <2>2, <2>3, <2>4, SlotsKeptApart
  <1>8. QED
    BY <1>2, <1>4, <1>5, <1>6, <1>7 DEF Rollback

\* The snapshot holds every living link of the account.
LEMMA BeginInvalidationKeepsSlots ==
  ASSUME IInv, NEW x \in Requests, NEW e \in Emails, NEW f, OneEach(e, f), BeginInvalidation(x)
  PROVE  \E g : OneEach(e, g)'
  <1>1. PICK r \in Request : r = request[x]
    BY DEF IInv, TypeOK
  <1>2. PICK ls : ls = {l \in Links : /\ L!Sees(x, l) # None
                                      /\ L!Sees(x, l).user = r.email
                                      /\ ~L!Sees(x, l).consumed}
    OBVIOUS
  <1>3. PICK s : s = [r EXCEPT !.at = "sweep", !.left = ls]
    OBVIOUS
  <1>4. s.email = r.email /\ s.at = "sweep" /\ s.left = ls
    BY <1>3 DEF Request
  <1>5. request' = [request EXCEPT ![x] = s] /\ UNCHANGED <<link, linkHolder>>
    BY <1>1, <1>2, <1>3 DEF BeginInvalidation, Think, tables
  <1>6. request'[x] = s
    BY <1>5 DEF IInv, TypeOK
  <1>7. ASSUME NEW l \in Living(e) PROVE ~Spares(x, e, l)'
    <2>1. CASE s.email = e /\ linkHolder[l] # x
      <3>1. l \in ls
        BY <1>2, <1>4, <2>1 DEF Living, L!Sees
      <3>2. QED
        BY <1>4, <1>6, <3>1 DEF Spares
    <2>2. QED
      BY <1>5, <1>6, <2>1 DEF Spares
  <1>8. QED
    BY <1>5, <1>7, SlotsKeptWithin

\* A link leaves the snapshot dead, or held by the request that kills it.
LEMMA InvalidateLinkKeepsSlots ==
  ASSUME IInv, NEW x \in Requests, NEW e \in Emails, NEW f, OneEach(e, f), InvalidateLink(x)
  PROVE  \E g : OneEach(e, g)'
  <1>1. PICK r \in Request : r = request[x] /\ r.at = "sweep"
    BY DEF IInv, TypeOK, InvalidateLink
  <1>2. PICK k \in r.left :
          LET row == L!Sees(x, k)
              rest == [r EXCEPT !.left = r.left \ {k}]
          IN /\ L!Free(x, k)
             /\ IF row.consumed
                THEN Think(x, rest)
                ELSE WriteLinks(x, [j \in {k} |-> [row EXCEPT !.consumed = TRUE]], rest)
    BY <1>1 DEF InvalidateLink
  <1>3. PICK s : s = [r EXCEPT !.left = r.left \ {k}]
    OBVIOUS
  <1>4. s.op = r.op /\ s.email = r.email /\ s.at = "sweep" /\ s.left = r.left \ {k}
    BY <1>1, <1>3 DEF Request
  <1>5. request' = [request EXCEPT ![x] = s] /\ link' = link
    BY <1>2, <1>3 DEF Think, WriteLinks, tables, L!Write
  <1>6. request'[x] = s /\ k \in Links
    BY <1>1, <1>5 DEF IInv, TypeOK, Request
  <1>7. \/ linkHolder' = linkHolder /\ L!Sees(x, k).consumed
        \/ linkHolder' = [j \in Links |-> IF j = k THEN x ELSE linkHolder[j]]
    BY <1>2 DEF Think, WriteLinks, tables, L!Write
  <1>8. \A y \in Requests \ {x}, l \in Links : linkHolder[l] = y => linkHolder'[l] = y
    BY <1>2, <1>7, NoneAssumption DEF L!Free
  <1>9. ASSUME NEW l \in Living(e), Spares(x, e, l)' PROVE Spares(x, e, l)
    <2>1. s.op = "link" /\ s.email = e /\ linkHolder'[l] # x /\ l \notin s.left /\ l \in Links
      BY <1>4, <1>6, <1>9 DEF Spares, Living
    <2>2. linkHolder[l] # x
      BY <1>7, <2>1
    <2>3. l # k
      BY <1>6, <1>7, <2>1, <2>2 DEF Living, L!Sees
    <2>4. QED
      BY <1>1, <1>4, <2>1, <2>2, <2>3 DEF Spares
  <1>10. QED
    BY <1>5, <1>8, <1>9, SlotsKeptWithin

LEMMA IssueLinkKeepsSlots ==
  ASSUME IInv, NEW x \in Requests, NEW e \in Emails, NEW f, OneEach(e, f), IssueLink(x)
  PROVE  \E g : OneEach(e, g)'
  <1>1. PICK r \in Request : r = request[x] /\ r.at = "sweep" /\ r.left = {}
    BY DEF IInv, TypeOK, IssueLink
  <1>2. PICK k \in L!Unused :
          WriteLinks(x, [j \in {k} |-> [user |-> r.email, expires |-> now + LinkTtl,
                                        consumed |-> FALSE]],
                     [r EXCEPT !.link = k, !.at = "commit"])
    BY <1>1 DEF IssueLink
  <1>3. PICK s : s = [r EXCEPT !.link = k, !.at = "commit"]
    OBVIOUS
  <1>4. s.op = r.op /\ s.email = r.email
    BY <1>3 DEF Request
  <1>5. /\ request' = [request EXCEPT ![x] = s] /\ link' = link
        /\ linkHolder' = [j \in Links |-> IF j = k THEN x ELSE linkHolder[j]]
    BY <1>2, <1>3 DEF WriteLinks, L!Write
  <1>6. request'[x] = s /\ linkHolder[k] = None
    BY <1>2, <1>5 DEF IInv, TypeOK, L!Unused
  <1>7. \A y \in Requests \ {x}, l \in Links : linkHolder[l] = y => linkHolder'[l] = y
    BY <1>5, <1>6, NoneAssumption
  <1>8. ASSUME NEW l \in Living(e), Spares(x, e, l)' PROVE Spares(x, e, l)
    <2>1. s.op = "link" /\ s.email = e /\ linkHolder'[l] # x /\ l \in Links
      BY <1>6, <1>8 DEF Spares, Living
    <2>2. QED
      BY <1>1, <1>4, <1>5, <2>1 DEF Spares
  <1>9. QED
    BY <1>5, <1>7, <1>8, SlotsKeptWithin

\* The link a commit brings to life takes the slot of its request, whose former links die
\* with it; any other commit only kills.
LEMMA CommitKeepsSlots ==
  ASSUME IInv, NEW x \in Requests, NEW e \in Emails, NEW f, OneEach(e, f), Commit(x)
  PROVE  \E g : OneEach(e, g)'
  <1>1. PICK r \in Request : r = request[x] /\ r.at = "commit" /\ LinkLocks(x)
    BY DEF IInv, TypeOK, Commit, Own
  <1>2. \A l \in Links :
          /\ link'[l] = IF linkHolder[l] = x THEN linkDraft[l] ELSE link[l]
          /\ linkHolder'[l] = IF linkHolder[l] = x THEN None ELSE linkHolder[l]
    BY Committed
  <1>3. \A l \in Links : linkHolder[l] = x =>
          \/ Dying(r, l)
          \/ /\ r.op = "link" /\ l = r.link /\ link[l] = None
             /\ linkDraft[l].user = r.email
    BY <1>1 DEF LinkLocks
  <1>4. \A l \in Links : linkHolder[l] = x /\ Dying(r, l) => linkDraft[l].consumed
    BY DEF Dying, IInv, TypeOK, L!TableOK, LinkRow
  <1>5. \A y \in Requests \ {x} : /\ request'[y].op = request[y].op
                                  /\ request'[y].email = request[y].email
                                  /\ request'[y].at = request[y].at
                                  /\ request'[y].left = request[y].left
    <2>1. TAKE y \in Requests \ {x}
    <2>2. PICK q \in Request : q = request[y] /\ \E b : request'[y] = [q EXCEPT !.stale = b]
      BY DEF Commit, IInv, TypeOK
    <2>3. PICK b : request'[y] = [q EXCEPT !.stale = b]
      BY <2>2
    <2>4. QED
      BY <2>2, <2>3 DEF Request
  <1>6. request'[x].op = "none"
    BY DEF Commit, Idle
  <1>7. \A y \in Requests, l \in Living(e) : Spares(y, e, l)' => Spares(y, e, l)
    BY <1>2, <1>5, <1>6, NoneAssumption DEF Spares, Living
  <1>8. \A l \in Living(e)' : l \in Living(e) \/ (r.op = "link" /\ r.email = e /\ l = r.link)
    BY <1>2, <1>3, <1>4 DEF Living
  <1>9. CASE Living(e)' \subseteq Living(e)
    BY <1>7, <1>9, SlotsKept
  <1>10. CASE r.op = "link" /\ r.email = e /\ r.link \in Living(e)' \ Living(e)
    <2>1. ASSUME NEW l \in Living(e), l \in Living(e)' PROVE f[l] # x
      <3>1. linkHolder[l] # x
        BY <1>2, <1>3, <1>4, <2>1 DEF Living
      <3>2. Spares(x, e, l)
        BY <1>1, <1>10, <3>1 DEF Spares
      <3>3. QED
        BY <3>2 DEF OneEach
    <2>2. \A l \in Living(e)' : l # r.link => l \in Living(e)
      BY <1>8
    <2>3. PICK g : /\ g \in [Living(e)' -> Requests]
                   /\ \A l \in Living(e)' : g[l] = IF l = r.link THEN x ELSE f[l]
      <3>1. PICK g : g = [l \in Living(e)' |-> IF l = r.link THEN x ELSE f[l]]
        OBVIOUS
      <3>2. QED
        BY <2>2, <3>1 DEF OneEach
    <2>4. \A l, k \in Living(e)' : g[l] = g[k] => l = k
      BY <2>1, <2>2, <2>3 DEF OneEach
    <2>5. ~Spares(x, e, r.link)'
      BY <1>6 DEF Spares
    <2>6. \A l \in Living(e)' : ~Spares(g[l], e, l)'
      <3>1. TAKE l \in Living(e)'
      <3>2. CASE l = r.link
        BY <2>3, <2>5, <3>2
      <3>3. CASE l # r.link
        <4>1. l \in Living(e) /\ g[l] = f[l] /\ f[l] \in Requests /\ ~Spares(f[l], e, l)
          BY <2>2, <2>3, <3>3 DEF OneEach
        <4>2. ~Spares(f[l], e, l)'
          BY <1>7, <4>1
        <4>3. QED
          BY <4>1, <4>2
      <3>4. QED
        BY <3>2, <3>3
    <2>7. OneEach(e, g)'
      BY <2>3, <2>4, <2>6 DEF OneEach
    <2>8. QED
      BY <2>7
  <1>11. QED
    BY <1>8, <1>9, <1>10

LEMMA LivingInvariance == Spec => []LivingInv
  <1>1. Init => LivingInv
    <2> SUFFICES ASSUME Init PROVE LivingInv
      OBVIOUS
    <2>1. ASSUME NEW e \in Emails PROVE \E f : OneEach(e, f)
      <3>1. Living(e) = {}
        BY DEF Init, Living
      <3>2. OneEach(e, [l \in Living(e) |-> None])
        BY <3>1 DEF OneEach
      <3>3. QED
        BY <3>2
    <2>2. QED
      BY <2>1, InitIInv DEF LivingInv
  <1>2. LivingInv /\ [Next]_vars => LivingInv'
    <2> SUFFICES ASSUME LivingInv, [Next]_vars PROVE LivingInv'
      OBVIOUS
    <2>1. IInv /\ IInv'
      BY NextIInv DEF LivingInv
    <2>2. ASSUME NEW e \in Emails PROVE \E g : OneEach(e, g)'
      <3>1. PICK f : OneEach(e, f)
        BY DEF LivingInv
      <3>2. CASE Tick \/ (\E l \in Links : SendMail(l)) \/ UNCHANGED vars
        <4>1. UNCHANGED <<link, linkHolder, request>>
          BY <3>2 DEF Tick, SendMail, vars, tables
        <4>2. QED
          BY <3>1, <4>1 DEF OneEach, Living, Spares
      <3>3. ASSUME NEW x \in Requests, Ask(x) PROVE \E g : OneEach(e, g)'
        BY <2>1, <3>1, <3>3, AskKeepsSlots
      <3>4. ASSUME NEW x \in Requests, Step(x) \/ Rollback(x) PROVE \E g : OneEach(e, g)'
        BY <2>1, <3>1, <3>4, OtherStepsKeepSlots, BeginInvalidationKeepsSlots,
           InvalidateLinkKeepsSlots, IssueLinkKeepsSlots, CommitKeepsSlots DEF Step
      <3>5. QED
        BY <3>2, <3>3, <3>4 DEF Next
    <2>3. QED
      BY <2>1, <2>2 DEF LivingInv
  <1>3. QED
    BY <1>1, <1>2, PTL DEF Spec

\* Each request kills the links its snapshot saw: the links of an account that can still be
\* used are at most as many as the requests that may overlap.
THEOREM LiveLinksStayBounded == Spec => []LiveLinksBounded
  <1>1. LivingInv => LiveLinksBounded
    <2> SUFFICES ASSUME LivingInv, NEW e \in Emails
                 PROVE  Cardinality(Living(e)) <= Cardinality(Requests)
      BY DEF LiveLinksBounded, Living
    <2>1. PICK f : OneEach(e, f)
      BY DEF LivingInv
    <2>2. f \in Injection(Living(e), Requests)
      BY <2>1 DEF OneEach, Injection, IsInjective
    <2>3. QED
      BY <2>2, FS_Injection, BoundsAssumption
  <1>2. QED
    BY <1>1, LivingInvariance, PTL

=============================================================================
