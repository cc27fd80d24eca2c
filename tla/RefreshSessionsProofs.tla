------------------------- MODULE RefreshSessionsProofs -------------------------
(***************************************************************************)
(* Proofs about RefreshSessions, for any set of secrets, accounts,         *)
(* passwords and requests: its invariants, and that it implements          *)
(* SessionLife.                                                            *)
(***************************************************************************)
EXTENDS RefreshSessions, TLAPS

\* What a request carries from one statement to the next.
StageOK(x) ==
  LET r == request[x]
  IN /\ r.at \in {"rehash", "touch", "open", "password", "role", "activate", "revoke",
                  "sweep", "reread", "issue"} => r.user \in Users
     /\ r.at \in {"rehash", "password"} => r.password \in Passwords
     /\ r.at \in {"claim", "inspect"} => r.card \in Tokens /\ token[r.card] # None
     /\ r.at \in {"password", "role", "activate", "revoke", "sweep"} => r.reason \in Reasons
     /\ r.at \in {"reread", "issue"} =>
          /\ r.card \in Tokens
          /\ tokenHolder[r.card] = x
          /\ token[r.card] # None
          /\ tokenDraft[r.card] = [token[r.card] EXCEPT !.status = "rotation"]
     /\ r.at \in {"idle", "claim", "inspect"} =>
          /\ \A t \in Tokens : tokenHolder[t] # x
          /\ \A u \in Users : accountHolder[u] # x

\* The inductive invariant.
IInv ==
  /\ TypeOK
  /\ \A x \in Requests : StageOK(x)
  /\ DraftsOK
  /\ ChainsIntact
  /\ LiveFamilyHistory

-----------------------------------------------------------------------------

LEMMA InitIInv == Init => IInv
  <1> SUFFICES ASSUME Init PROVE IInv
    OBVIOUS
  <1> USE DEF Init
  <1>1. /\ token \in [Tokens -> TokenRow \cup {None}] /\ tokenDraft = token
        /\ tokenHolder \in [Tokens -> Requests \cup {None}]
    OBVIOUS
  <1>2. /\ account \in [Users -> AccountRow]
        /\ accountDraft \in [Users -> AccountRow \cup {None}]
        /\ accountHolder \in [Users -> Requests \cup {None}]
    BY DEF AccountRow
  <1>3. Idle \in Request
    BY DEF Idle, Request, Stages, Ops
  <1>4. TypeOK
    BY <1>1, <1>2, <1>3, NoneAssumption DEF TypeOK, T!TableOK, A!TableOK
  <1>5. ASSUME NEW x \in Requests PROVE StageOK(x)
    BY <1>1, <1>2, NoneAssumption DEF StageOK, Idle
  <1>6. DraftsOK /\ ChainsIntact /\ LiveFamilyHistory
    BY <1>1 DEF DraftsOK, ChainsIntact, LiveFamilyHistory, IsLive
  <1>7. QED
    BY <1>4, <1>5, <1>6 DEF IInv

\* A request that has not reached its COMMIT has inserted nothing yet, and the
\* rows it holds are dead for it.
LEMMA HeldRows ==
  ASSUME TypeOK, DraftsOK, NEW x \in Requests, NEW t \in Tokens,
         request[x].at # "commit", tokenHolder[t] = x
  PROVE  /\ token[t] # None /\ IsLive(token[t])
         /\ ~IsLive(tokenDraft[t]) /\ tokenDraft[t] \in TokenRow
         /\ SameSession(tokenDraft[t], token[t])
         /\ tokenDraft[t].next = None
  <1>1. tokenHolder[t] # None /\ tokenDraft[t] # None
    BY NoneAssumption DEF TypeOK, T!TableOK
  <1>2. token[t] # None
    BY <1>1 DEF DraftsOK, HeldRowOK
  <1>3. tokenDraft[t].next = None
    <2> SUFFICES ASSUME tokenDraft[t].next # None PROVE FALSE
      OBVIOUS
    <2> DEFINE n == request[x].card
    <2>1. tokenDraft[t].next = n /\ tokenHolder[n] = x /\ token[n] = None
      BY <1>1, <1>2 DEF DraftsOK, HeldRowOK
    <2>2. n \in Tokens
      BY <1>1, <2>1 DEF TypeOK, T!TableOK, TokenRow
    <2>3. HeldRowOK(n)
      BY <2>1, <2>2, <1>1 DEF DraftsOK
    <2>4. request[x].at = "commit"
      BY <2>1, <2>3 DEF HeldRowOK
    <2>5. QED
      BY <2>4
  <1>4. tokenDraft[t] \in TokenRow
    BY <1>1 DEF TypeOK, T!TableOK
  <1>5. IsLive(token[t]) /\ ~IsLive(tokenDraft[t]) /\ SameSession(tokenDraft[t], token[t])
    BY <1>1, <1>2 DEF DraftsOK, HeldRowOK
  <1>6. QED
    BY <1>2, <1>3, <1>4, <1>5

\* A step that only moves the request of x on, before its COMMIT.
LEMMA Thinking ==
  ASSUME IInv, NEW x \in Requests, NEW r \in Request, Think(x, r),
         request[x].at # "commit", StageOK(x)'
  PROVE  IInv'
  <1> USE DEF Think
  <1>1. request' \in [Requests -> Request] /\ request'[x] = r
    BY DEF IInv, TypeOK
  <1>2. \A y \in Requests \ {x} : request'[y] = request[y]
    BY DEF IInv, TypeOK
  <1>3. \A y \in Requests : StageOK(y)'
    <2> TAKE y \in Requests
    <2>1. CASE y = x
      BY <2>1
    <2>2. CASE y # x
      BY <1>2, <2>2 DEF IInv, StageOK
    <2>3. QED
      BY <2>1, <2>2
  <1>4. TypeOK'
    BY <1>1, <1>3 DEF IInv, TypeOK, T!TableOK, A!TableOK, StageOK
  <1>5. DraftsOK'
    <2> SUFFICES ASSUME NEW t \in Tokens, tokenHolder[t] # None
                 PROVE  HeldRowOK(t)'
      BY DEF DraftsOK
    <2>1. CASE tokenHolder[t] = x
      BY <1>1, <2>1, HeldRows DEF DraftsOK, HeldRowOK, IInv
    <2>2. CASE tokenHolder[t] # x
      BY <1>2, <2>2 DEF DraftsOK, HeldRowOK, IInv, TypeOK, T!TableOK
    <2>3. QED
      BY <2>1, <2>2
  <1>6. ChainsIntact' /\ LiveFamilyHistory'
    BY DEF IInv, ChainsIntact, LiveFamilyHistory
  <1>7. QED
    BY <1>3, <1>4, <1>5, <1>6 DEF IInv

\* An UPDATE of the account of x, before its COMMIT.
LEMMA Updating ==
  ASSUME IInv, NEW x \in Requests, NEW row \in AccountRow,
         NEW next \in {"touch", "open", "revoke", "commit"},
         UpdateAccount(x, row, next), request[x].at # "commit",
         request[x].user \in Users, next = "revoke" => request[x].reason \in Reasons
  PROVE  IInv'
  <1> DEFINE u == request[x].user
             r == [request[x] EXCEPT !.at = next]
  <1> USE DEF UpdateAccount, A!WriteRow, A!Write
  <1>1. /\ request' \in [Requests -> Request] /\ request'[x] = r
        /\ \A y \in Requests \ {x} : request'[y] = request[y]
    BY DEF IInv, TypeOK, Request, Stages
  <1>2. /\ account' = account
        /\ accountDraft' = [k \in Users |-> IF k = u THEN row ELSE accountDraft[k]]
        /\ accountHolder' = [k \in Users |-> IF k = u THEN x ELSE accountHolder[k]]
    OBVIOUS
  <1>3. A!TableOK(AccountRow)'
    BY <1>2, NoneAssumption DEF IInv, TypeOK, A!TableOK
  <1>4. ASSUME NEW y \in Requests PROVE StageOK(y)'
    <2>1. CASE y = x
      BY <1>1, <2>1 DEF IInv, StageOK
    <2>2. CASE y # x
      BY <1>1, <1>2, <2>2 DEF IInv, StageOK
    <2>3. QED
      BY <2>1, <2>2
  <1>5. TypeOK'
    BY <1>1, <1>2, <1>3, <1>4 DEF IInv, TypeOK, T!TableOK, StageOK
  <1>6. DraftsOK'
    <2> SUFFICES ASSUME NEW t \in Tokens, tokenHolder[t] # None
                 PROVE  HeldRowOK(t)'
      BY DEF DraftsOK
    <2>1. CASE tokenHolder[t] = x
      BY <1>1, <2>1, HeldRows DEF DraftsOK, HeldRowOK, IInv
    <2>2. CASE tokenHolder[t] # x
      BY <1>1, <2>2 DEF DraftsOK, HeldRowOK, IInv, TypeOK, T!TableOK
    <2>3. QED
      BY <2>1, <2>2
  <1>7. ChainsIntact' /\ LiveFamilyHistory'
    BY DEF IInv, ChainsIntact, LiveFamilyHistory
  <1>8. QED
    BY <1>4, <1>5, <1>6, <1>7 DEF IInv

\* The rows the other requests hold are as they were, if x touches none of them.
LEMMA OthersDrafts ==
  ASSUME IInv, NEW x \in Requests,
         \A y \in Requests \ {x} : request'[y] = request[y],
         \A k \in Tokens : tokenHolder[k] \notin {x, None} =>
            /\ token'[k] = token[k]
            /\ tokenDraft'[k] = tokenDraft[k]
            /\ tokenHolder'[k] = tokenHolder[k],
         NEW k \in Tokens, tokenHolder[k] \notin {x, None}
  PROVE  HeldRowOK(k)'
  <1> DEFINE y == tokenHolder[k]
  <1>1. /\ y \in Requests /\ y # x /\ tokenHolder'[k] = y
        /\ token'[k] = token[k] /\ tokenDraft'[k] = tokenDraft[k]
    BY DEF IInv, TypeOK, T!TableOK
  <1>2. request'[y] = request[y] /\ HeldRowOK(k)
    BY <1>1 DEF IInv, DraftsOK
  <1>3. \A j \in Tokens : tokenHolder[j] = y =>
          /\ token'[j] = token[j]
          /\ tokenDraft'[j] = tokenDraft[j]
          /\ tokenHolder'[j] = y
    BY <1>1
  <1>4. tokenDraft[k].next # None => tokenDraft[k].next \in Tokens
    BY <1>1, NoneAssumption DEF IInv, TypeOK, T!TableOK, TokenRow
  <1>5. QED
    BY <1>1, <1>2, <1>3, <1>4 DEF HeldRowOK

\* A step of x that locks one committed living row and kills it.
LEMMA Killing ==
  ASSUME IInv, NEW x \in Requests, NEW r \in Request, NEW t \in Tokens, NEW s \in Reasons,
         WriteTokens(x, [k \in {t} |-> [T!Sees(x, t) EXCEPT !.status = s]], r),
         IsLive(T!Sees(x, t)), token[t] # None,
         request[x].at # "commit", StageOK(x)'
  PROVE  IInv'
  <1> DEFINE row == [token[t] EXCEPT !.status = s]
  <1> USE DEF WriteTokens, T!Write
  <1>1. tokenHolder[t] = None /\ T!Sees(x, t) = token[t]
    <2>1. tokenHolder[t] # x
      BY HeldRows DEF IInv, T!Sees
    <2>2. T!Free(x, t)
      OBVIOUS
    <2>3. QED
      BY <2>1, <2>2 DEF T!Sees, T!Free
  <1>2. token[t] \in TokenRow /\ IsLive(token[t]) /\ token[t].next = None
    BY <1>1 DEF IInv, TypeOK, T!TableOK, ChainsIntact, IsLive
  <1>3. row \in TokenRow /\ ~IsLive(row) /\ row.next = None /\ SameSession(row, token[t])
    BY <1>2 DEF TokenRow, IsLive, Reasons, SameSession
  <1>4. /\ token' = token
        /\ tokenDraft' = [k \in Tokens |-> IF k = t THEN row ELSE tokenDraft[k]]
        /\ tokenHolder' = [k \in Tokens |-> IF k = t THEN x ELSE tokenHolder[k]]
    BY <1>1
  <1>5. /\ request' \in [Requests -> Request] /\ request'[x] = r
        /\ \A y \in Requests \ {x} : request'[y] = request[y]
    BY DEF IInv, TypeOK
  <1>6. T!TableOK(TokenRow)'
    BY <1>3, <1>4, NoneAssumption DEF IInv, TypeOK, T!TableOK
  <1>7. ASSUME NEW y \in Requests PROVE StageOK(y)'
    <2>1. CASE y = x
      BY <2>1
    <2>2. CASE y # x
      BY <1>1, <1>4, <1>5, <2>2, NoneAssumption DEF IInv, StageOK
    <2>3. QED
      BY <2>1, <2>2
  <1>8. TypeOK'
    BY <1>5, <1>6, <1>7 DEF IInv, TypeOK, A!TableOK, StageOK
  <1>9. DraftsOK'
    <2> SUFFICES ASSUME NEW k \in Tokens, tokenHolder'[k] # None
                 PROVE  HeldRowOK(k)'
      BY DEF DraftsOK
    <2>1. CASE k = t
      BY <1>2, <1>3, <1>4, <2>1 DEF HeldRowOK
    <2>2. CASE k # t /\ tokenHolder[k] = x
      <3>1. /\ token[k] # None /\ IsLive(token[k]) /\ ~IsLive(tokenDraft[k])
            /\ SameSession(tokenDraft[k], token[k]) /\ tokenDraft[k].next = None
        BY <2>2, HeldRows DEF IInv
      <3>2. QED
        BY <1>4, <2>2, <3>1 DEF HeldRowOK
    <2>3. CASE k # t /\ tokenHolder[k] # x
      BY <1>1, <1>4, <1>5, <2>3, OthersDrafts
    <2>4. QED
      BY <2>1, <2>2, <2>3
  <1>10. ChainsIntact' /\ LiveFamilyHistory'
    BY <1>4 DEF IInv, ChainsIntact, LiveFamilyHistory
  <1>11. QED
    BY <1>7, <1>8, <1>9, <1>10 DEF IInv

\* What the insertion of one new row by x, on its way to COMMIT, preserves.
LEMMA Inserting ==
  ASSUME IInv, NEW x \in Requests, NEW r \in Request, NEW t \in T!Unused,
         NEW rows, DOMAIN rows \subseteq Tokens, t \in DOMAIN rows,
         \A k \in DOMAIN rows : rows[k] \in TokenRow /\ (k # t => tokenHolder[k] = x),
         WriteTokens(x, rows, r), request[x].at # "commit",
         r.at = "commit", r.card = t,
         IsLive(rows[t]) /\ rows[t].next = None,
         HeldRowOK(t)',
         \A k \in DOMAIN rows \ {t} : HeldRowOK(k)'
  PROVE  IInv'
  <1> USE DEF WriteTokens, T!Write
  <1>1. t \in Tokens /\ tokenHolder[t] = None /\ token[t] = None
    BY DEF T!Unused
  <1>2. /\ token' = token
        /\ tokenDraft' = [k \in Tokens |-> IF k \in DOMAIN rows THEN rows[k] ELSE tokenDraft[k]]
        /\ tokenHolder' = [k \in Tokens |-> IF k \in DOMAIN rows THEN x ELSE tokenHolder[k]]
    OBVIOUS
  <1>3. /\ request' \in [Requests -> Request] /\ request'[x] = r
        /\ \A y \in Requests \ {x} : request'[y] = request[y]
    BY DEF IInv, TypeOK
  <1>4. T!TableOK(TokenRow)'
    BY <1>2, NoneAssumption DEF IInv, TypeOK, T!TableOK
  <1>5. ASSUME NEW y \in Requests PROVE StageOK(y)'
    <2>1. CASE y = x
      BY <1>3, <2>1 DEF StageOK
    <2>2. CASE y # x
      BY <1>1, <1>2, <1>3, <2>2, NoneAssumption DEF IInv, StageOK
    <2>3. QED
      BY <2>1, <2>2
  <1>6. TypeOK'
    BY <1>3, <1>4, <1>5 DEF IInv, TypeOK, A!TableOK, StageOK
  <1>7. DraftsOK'
    <2> SUFFICES ASSUME NEW k \in Tokens, tokenHolder'[k] # None
                 PROVE  HeldRowOK(k)'
      BY DEF DraftsOK
    <2>1. CASE k \in DOMAIN rows
      BY <2>1
    <2>2. CASE k \notin DOMAIN rows /\ tokenHolder[k] = x
      <3>1. /\ token[k] # None /\ IsLive(token[k]) /\ ~IsLive(tokenDraft[k])
            /\ SameSession(tokenDraft[k], token[k]) /\ tokenDraft[k].next = None
        BY <2>2, HeldRows DEF IInv
      <3>2. QED
        BY SMTT(30), <1>2, <2>2, <3>1 DEF HeldRowOK
    <2>3. CASE k \notin DOMAIN rows /\ tokenHolder[k] # x
      <3>1. tokenHolder[k] \notin {x, None}
        BY <1>2, <2>3
      <3>2. \A j \in Tokens : tokenHolder[j] \notin {x, None} => j \notin DOMAIN rows
        BY <1>1
      <3>3. QED
        BY <1>2, <1>3, <3>1, <3>2, OthersDrafts
    <2>4. QED
      BY <2>1, <2>2, <2>3
  <1>8. ChainsIntact' /\ LiveFamilyHistory'
    BY <1>2 DEF IInv, ChainsIntact, LiveFamilyHistory
  <1>9. QED
    BY <1>5, <1>6, <1>7, <1>8 DEF IInv

LEMMA OpenFamilyIInv ==
  ASSUME IInv, NEW x \in Requests, OpenFamily(x)
  PROVE  IInv'
  <1>1. PICK t \in T!Unused :
          WriteTokens(x, [k \in {t} |-> [status |-> "live", user |-> request[x].user,
                                         family |-> t, expires |-> now + RefreshTtl,
                                         next |-> None]],
                      [request[x] EXCEPT !.card = t, !.at = "commit"])
    BY DEF OpenFamily
  <1> DEFINE r == [request[x] EXCEPT !.card = t, !.at = "commit"]
             row == [status |-> "live", user |-> request[x].user, family |-> t,
                     expires |-> now + RefreshTtl, next |-> None]
             rows == [k \in {t} |-> row]
  <1>2. t \in Tokens /\ request[x].at = "open" /\ request[x].user \in Users
    BY DEF T!Unused, OpenFamily, IInv, StageOK
  <1>3. row \in TokenRow /\ r \in Request
    <2>1. now + RefreshTtl \in Nat
      BY TtlAssumption DEF IInv, TypeOK
    <2>2. request[x] \in Request
      BY DEF IInv, TypeOK
    <2>3. QED
      BY <1>2, <2>1, <2>2 DEF TokenRow, Request, Stages
  <1>4. IsLive(row) /\ row.next = None
    BY <1>3, NoneAssumption DEF IsLive
  <1>5. HeldRowOK(t)'
    <2>1. /\ tokenHolder'[t] = x /\ tokenDraft'[t] = row /\ token'[t] = None
          /\ request'[x] = r
      BY <1>1, <1>2 DEF WriteTokens, T!Write, T!Unused, IInv, TypeOK
    <2>2. QED
      BY <1>2, <1>4, <2>1 DEF HeldRowOK, IInv, TypeOK
  <1>6. DOMAIN rows = {t} /\ rows[t] = row
    OBVIOUS
  <1> HIDE DEF row, rows
  <1>7. WriteTokens(x, rows, r)
    BY <1>1 DEF row, rows
  <1>8. r.at = "commit" /\ r.card = t
    BY DEF IInv, TypeOK, Request
  <1> HIDE DEF r
  <1>9. QED
    BY <1>2, <1>3, <1>4, <1>5, <1>6, <1>7, <1>8, Inserting

LEMMA IssueSuccessorIInv ==
  ASSUME IInv, NEW x \in Requests, IssueSuccessor(x)
  PROVE  IInv'
  <1>0. PICK c \in Tokens : c = request[x].card
    BY DEF IssueSuccessor, IInv, StageOK
  <1> DEFINE old == T!Sees(x, c)
             Rows(t) == [k \in {t, c} |-> IF k = t
                                          THEN [old EXCEPT !.status = "live", !.next = None]
                                          ELSE [old EXCEPT !.next = t]]
  <1>1. PICK t \in T!Unused :
          WriteTokens(x, Rows(t), [request[x] EXCEPT !.card = t, !.at = "commit"])
    BY <1>0 DEF IssueSuccessor
  <1> DEFINE r == [request[x] EXCEPT !.card = t, !.at = "commit"]
             rows == Rows(t)
  <1>2. t \in Tokens /\ tokenHolder[t] = None /\ token[t] = None
    BY DEF T!Unused
  <1>3. /\ request[x].at = "issue" /\ tokenHolder[c] = x /\ token[c] # None
        /\ tokenDraft[c] = [token[c] EXCEPT !.status = "rotation"]
    BY <1>0 DEF IssueSuccessor, IInv, StageOK
  <1>4. /\ token[c] \in TokenRow /\ IsLive(token[c])
        /\ token[c].status = "live" /\ token[c].next = None
    <2>1. IsLive(token[c]) /\ token[c] \in TokenRow
      BY <1>3, HeldRows DEF IInv, TypeOK, T!TableOK
    <2>2. QED
      BY <1>3, <2>1 DEF IsLive, IInv, ChainsIntact
  <1>5. /\ c # t
        /\ DOMAIN rows = {t, c}
        /\ rows[t] = [token[c] EXCEPT !.next = None]
        /\ rows[c] = [token[c] EXCEPT !.status = "rotation", !.next = t]
    <2>1. c # t /\ old = [token[c] EXCEPT !.status = "rotation"]
      BY <1>2, <1>3 DEF T!Sees
    <2>2. [old EXCEPT !.status = "live", !.next = None] = [token[c] EXCEPT !.next = None]
      BY <1>4, <2>1 DEF TokenRow
    <2>3. [old EXCEPT !.next = t] = [token[c] EXCEPT !.status = "rotation", !.next = t]
      BY <1>4, <2>1 DEF TokenRow
    <2>4. QED
      BY <2>1, <2>2, <2>3
  <1>6. rows[t] \in TokenRow /\ rows[c] \in TokenRow
    BY <1>2, <1>4, <1>5 DEF TokenRow, Reasons
  <1>7. r \in Request /\ r.at = "commit" /\ r.card = t
    <2>1. request[x] \in Request
      BY DEF IInv, TypeOK
    <2>2. QED
      BY <1>2, <2>1 DEF Request, Stages
  <1>8. IsLive(rows[t]) /\ rows[t].next = None /\ ~IsLive(rows[c])
        /\ SameSession(rows[c], token[c])
        /\ rows[c].status = "rotation" /\ rows[c].next = t
    BY <1>4, <1>5, <1>6, NoneAssumption DEF IsLive, SameSession, TokenRow
  <1>9. /\ token' = token /\ request'[x] = r
        /\ tokenHolder'[t] = x /\ tokenHolder'[c] = x
        /\ tokenDraft'[t] = rows[t] /\ tokenDraft'[c] = rows[c]
    BY <1>1, <1>2, <1>3, <1>5 DEF WriteTokens, T!Write, IInv, TypeOK
  <1> HIDE DEF r, rows
  <1>10. HeldRowOK(t)' /\ HeldRowOK(c)'
    <2>1. HeldRowOK(t)'
      BY <1>2, <1>3, <1>7, <1>8, <1>9 DEF HeldRowOK
    <2>2. HeldRowOK(c)'
      <3>1. /\ token'[c] # None /\ tokenHolder'[c] = x /\ IsLive(token'[c])
            /\ ~IsLive(tokenDraft'[c]) /\ SameSession(tokenDraft'[c], token'[c])
        BY <1>3, <1>4, <1>8, <1>9
      <3>2. tokenDraft'[c].status = "rotation" /\ tokenDraft'[c].next = request'[x].card
        BY <1>7, <1>8, <1>9
      <3>3. LET n == request'[x].card
            IN tokenHolder'[n] = x /\ token'[n] = None
               /\ tokenDraft'[n] = [token'[c] EXCEPT !.next = None]
        BY <1>2, <1>5, <1>7, <1>9
      <3>4. QED
        BY <3>1, <3>2, <3>3 DEF HeldRowOK
    <2>3. QED
      BY <2>1, <2>2
  <1>11. WriteTokens(x, rows, r)
    BY <1>1 DEF r, rows
  <1>12. \A k \in DOMAIN rows :
           /\ rows[k] \in TokenRow /\ (k # t => tokenHolder[k] = x)
           /\ HeldRowOK(k)'
    <2> TAKE k \in DOMAIN rows
    <2>1. CASE k = t
      BY <1>6, <1>10, <2>1
    <2>2. CASE k = c
      BY <1>3, <1>6, <1>10, <2>2
    <2>3. QED
      BY <1>5, <2>1, <2>2
  <1>13. DOMAIN rows \subseteq Tokens /\ t \in DOMAIN rows
    BY <1>2, <1>3, <1>5
  <1>14. request[x].at # "commit"
    BY <1>3
  <1>15. QED
    BY <1>7, <1>8, <1>11, <1>12, <1>13, <1>14, Inserting

\* What COMMIT does to each row: a row x holds is either killed in place or new.
LEMMA Committed ==
  ASSUME IInv, NEW x \in Requests, Commit(x), NEW n, n = request[x].card
  PROVE  /\ \A k \in Tokens : tokenHolder[k] # x => token'[k] = token[k]
         /\ \A k \in Tokens : tokenHolder[k] = x /\ token[k] # None =>
              /\ token'[k] # None /\ IsLive(token[k]) /\ ~IsLive(token'[k])
              /\ SameSession(token'[k], token[k])
              /\ token'[k].next # None =>
                   /\ token'[k].status = "rotation" /\ token'[k].next = n
                   /\ n \in Tokens /\ tokenHolder[n] = x /\ token[n] = None
                   /\ token'[n] # None /\ SameSession(token'[n], token[k])
         /\ \A k \in Tokens : tokenHolder[k] = x /\ token[k] = None =>
              /\ k = n /\ token'[k] # None /\ token'[k].next = None
              /\ token'[k].family # k =>
                   \E p \in Tokens : /\ tokenHolder[p] = x /\ token[p] # None
                                    /\ token'[p].next = k
  <1>1. \A k \in Tokens : token'[k] = IF tokenHolder[k] = x THEN tokenDraft[k] ELSE token[k]
    BY DEF Commit, T!Publish, T!Sees
  <1>2. \A k \in Tokens : tokenHolder[k] = x => HeldRowOK(k) /\ tokenDraft[k] \in TokenRow
    BY NoneAssumption DEF IInv, TypeOK, T!TableOK, DraftsOK
  <1>3. ASSUME NEW k \in Tokens, tokenHolder[k] = x, token[k] # None
        PROVE  /\ token'[k] # None /\ IsLive(token[k]) /\ ~IsLive(token'[k])
               /\ SameSession(token'[k], token[k])
               /\ token'[k].next # None =>
                   /\ token'[k].status = "rotation" /\ token'[k].next = n
                   /\ n \in Tokens /\ tokenHolder[n] = x /\ token[n] = None
                   /\ token'[n] # None /\ SameSession(token'[n], token[k])
    <2>1. token'[k] = tokenDraft[k] /\ tokenDraft[k] \in TokenRow /\ tokenDraft[k] # None
      BY <1>1, <1>2, <1>3, NoneAssumption
    <2>2. IsLive(token[k]) /\ ~IsLive(tokenDraft[k]) /\ SameSession(tokenDraft[k], token[k])
      BY <1>2, <1>3 DEF HeldRowOK
    <2>3. ASSUME tokenDraft[k].next # None
          PROVE  /\ tokenDraft[k].status = "rotation" /\ tokenDraft[k].next = n
                 /\ n \in Tokens /\ tokenHolder[n] = x /\ token[n] = None
                 /\ token'[n] # None /\ SameSession(token'[n], token[k])
      <3>1. /\ tokenDraft[k].status = "rotation" /\ tokenDraft[k].next = n
            /\ tokenHolder[n] = x /\ token[n] = None
            /\ tokenDraft[n] = [token[k] EXCEPT !.next = None]
        BY <1>2, <1>3, <2>3 DEF HeldRowOK
      <3>2. n \in Tokens
        BY <2>1, <2>3, <3>1 DEF TokenRow
      <3>3. token'[n] = tokenDraft[n] /\ tokenDraft[n] # None
        BY <1>1, <1>2, <3>1, <3>2, NoneAssumption
      <3>4. token[k] \in TokenRow
        BY <1>3 DEF IInv, TypeOK, T!TableOK
      <3>5. SameSession(tokenDraft[n], token[k])
        BY <3>1, <3>4 DEF SameSession, TokenRow
      <3>6. QED
        BY <3>1, <3>2, <3>3, <3>5
    <2>4. QED
      BY <2>1, <2>2, <2>3
  <1>4. ASSUME NEW k \in Tokens, tokenHolder[k] = x, token[k] = None
        PROVE  /\ k = n /\ token'[k] # None /\ token'[k].next = None
               /\ token'[k].family # k =>
                    \E p \in Tokens : /\ tokenHolder[p] = x /\ token[p] # None
                                     /\ token'[p].next = k
    <2>1. token'[k] = tokenDraft[k] /\ tokenDraft[k] # None
      BY <1>1, <1>2, <1>4, NoneAssumption
    <2>2. /\ k = n /\ tokenDraft[k].next = None
          /\ tokenDraft[k].family # k =>
               \E p \in Tokens : /\ tokenHolder[p] = x /\ token[p] # None
                                /\ tokenDraft[p].next = k
      BY <1>2, <1>4 DEF HeldRowOK
    <2>3. QED
      BY <1>1, <2>1, <2>2
  <1>5. QED
    BY <1>1, <1>3, <1>4

LEMMA CommitHistory ==
  ASSUME IInv, NEW x \in Requests, Commit(x)
  PROVE  LiveFamilyHistory'
  <1>0. PICK n : n = request[x].card
    OBVIOUS
  <1> DEFINE Old(k) == tokenHolder[k] # x
             Killed(k) == tokenHolder[k] = x /\ token[k] # None
             New(k) == tokenHolder[k] = x /\ token[k] = None
  <1>1. \A k \in Tokens : Old(k) => token'[k] = token[k]
    BY <1>0, Committed
  <1>2. \A k \in Tokens : Killed(k) =>
          /\ IsLive(token[k]) /\ ~IsLive(token'[k]) /\ token'[k].family = token[k].family
          /\ token'[k].next # None =>
               /\ token'[k].status = "rotation" /\ token'[k].next = n
               /\ token'[n].family = token[k].family
    BY <1>0, Committed DEF SameSession
  <1>3. \A k \in Tokens : New(k) =>
          /\ k = n
          /\ token'[k].family # k => \E p \in Tokens : Killed(p) /\ token'[p].next = k
    BY <1>0, Committed
  <1>4. \A k \in Tokens : token[k] # None =>
          token[k].family \in Tokens /\ token[token[k].family] # None
    BY DEF IInv, TypeOK, T!TableOK, TokenRow, ChainsIntact
  <1>5. \A j, k \in Tokens : token[j] # None /\ IsLive(token[k]) /\ j # k
                              /\ token[j].family = token[k].family =>
          token[j].status = "rotation" /\ token[j].next # None /\ ~IsLive(token[j])
    BY DEF IInv, LiveFamilyHistory, IsLive
  <1> SUFFICES ASSUME NEW s \in Tokens, NEW t \in Tokens, s # t, token'[s] # None,
                      IsLive(token'[t]), token'[s].family = token'[t].family
               PROVE  token'[s].status = "rotation" /\ token'[s].next # None
    BY DEF LiveFamilyHistory, IsLive
  <1> HIDE DEF Old, Killed, New
  <1>6. (Old(s) \/ Killed(s) \/ New(s)) /\ (Old(t) \/ Killed(t) \/ New(t))
    BY DEF Old, Killed, New
  <1>7. \A k \in Tokens : (Killed(k) => token[k] # None) /\ (New(k) => token[k] = None)
                         /\ (Old(k) => ~Killed(k))
    BY DEF Old, Killed, New
  <1>8. CASE Old(t)
    <2>1. token'[t] = token[t] /\ IsLive(token[t]) /\ token[t] # None
      BY <1>1, <1>8 DEF IsLive
    <2>2. CASE Old(s)
      BY <1>1, <1>5, <2>1, <2>2
    <2>3. CASE Killed(s)
      BY <1>2, <1>5, <1>7, <2>1, <2>3
    <2>4. CASE New(s)
      <3>1. token'[s].family # s
        BY <1>4, <1>7, <2>1, <2>4
      <3>2. PICK p \in Tokens : Killed(p) /\ token'[p].next = s
        BY <1>3, <2>4, <3>1
      <3>3. token'[p].next # None
        BY <3>2, NoneAssumption
      <3>4. IsLive(token[p]) /\ token[p] # None /\ token[p].family = token[t].family /\ p # t
        BY <1>2, <1>3, <1>7, <1>8, <2>1, <2>4, <3>2, <3>3
      <3>5. QED
        BY <1>5, <2>1, <3>4
    <2>5. QED
      BY <1>6, <2>2, <2>3, <2>4
  <1>9. CASE Killed(t)
    BY <1>2, <1>9
  <1>10. CASE New(t)
    <2>1. t = n /\ token[t] = None
      BY <1>3, <1>7, <1>10
    <2>2. ~New(s)
      BY <1>3, <2>1
    <2>3. CASE token'[t].family = t
      <3>1. token[s] # None /\ token[s].family = t
        BY <1>1, <1>2, <1>6, <1>7, <2>2, <2>3
      <3>2. QED
        BY <1>4, <2>1, <3>1
    <2>4. CASE token'[t].family # t
      <3>1. PICK p \in Tokens : Killed(p) /\ token'[p].next = t
        BY <1>3, <1>10, <2>4
      <3>2. token'[p].next # None
        BY <3>1, NoneAssumption
      <3>3. /\ IsLive(token[p]) /\ token[p] # None /\ token[p].family = token'[t].family
            /\ token'[p].status = "rotation"
        BY <1>2, <1>7, <2>1, <3>1, <3>2
      <3>4. CASE s = p
        BY <3>2, <3>3, <3>4
      <3>5. CASE s # p /\ Old(s)
        BY <1>1, <1>5, <3>3, <3>5
      <3>6. CASE s # p /\ Killed(s)
        BY <1>2, <1>5, <1>7, <3>3, <3>6
      <3>7. QED
        BY <1>6, <2>2, <3>4, <3>5, <3>6
    <2>5. QED
      BY <2>3, <2>4
  <1>11. QED
    BY <1>6, <1>8, <1>9, <1>10

LEMMA CommitChains ==
  ASSUME IInv, NEW x \in Requests, Commit(x)
  PROVE  ChainsIntact'
  <1>0. PICK n : n = request[x].card
    OBVIOUS
  <1> DEFINE Old(k) == tokenHolder[k] # x
             Killed(k) == tokenHolder[k] = x /\ token[k] # None
             New(k) == tokenHolder[k] = x /\ token[k] = None
             Root(k) == LET f == token[k].family
                        IN /\ f \in Tokens /\ token[f] # None
                           /\ token[f].user = token[k].user
                           /\ token[f].expires = token[k].expires
  <1>1. \A k \in Tokens : Old(k) => token'[k] = token[k]
    BY <1>0, Committed
  <1>2. \A k \in Tokens : Killed(k) =>
          /\ token'[k] # None /\ IsLive(token[k]) /\ SameSession(token'[k], token[k])
          /\ token'[k].next # None =>
               /\ token'[k].status = "rotation" /\ token'[k].next = n
               /\ n \in Tokens /\ token[n] = None /\ New(n)
               /\ token'[n] # None /\ SameSession(token'[n], token[k])
    BY <1>0, Committed
  <1>3. \A k \in Tokens : New(k) =>
          /\ k = n /\ token'[k] # None /\ token'[k].next = None
          /\ token'[k].family # k => \E p \in Tokens : Killed(p) /\ token'[p].next = k
    BY <1>0, Committed
  <1>4. \A k \in Tokens : token[k] # None => Root(k)
    BY DEF IInv, TypeOK, T!TableOK, TokenRow, ChainsIntact
  <1>5. \A j, k \in Tokens : IsLive(token[j]) /\ IsLive(token[k])
                              /\ token[j].family = token[k].family => j = k
    BY DEF IInv, LiveFamilyHistory, IsLive
  <1>6. \A k \in Tokens : token[k] # None =>
          token'[k] # None /\ SameSession(token'[k], token[k])
    BY <1>1, <1>2 DEF SameSession
  <1>7. \A k \in Tokens : token[k] # None /\ token[k].next # None => Old(k)
    BY <1>2 DEF IInv, ChainsIntact, IsLive
  <1> DEFINE ChainOK(t) ==
               LET row == token'[t]
               IN /\ token'[row.family] # None
                  /\ token'[row.family].user = row.user
                  /\ token'[row.family].expires = row.expires
                  /\ t # row.family => \E s \in Tokens : token'[s] # None /\ token'[s].next = t
                  /\ row.next # None =>
                       /\ row.status = "rotation"
                       /\ row.next # row.family
                       /\ token'[row.next] # None
                       /\ token'[row.next].family = row.family
                       /\ \A s \in Tokens \ {t} : token'[s] # None => token'[s].next # row.next
  <1> SUFFICES ASSUME NEW t \in Tokens, token'[t] # None
               PROVE  ChainOK(t)
    BY DEF ChainsIntact
  <1>8. CASE token[t] # None
    <2>1. Root(t) /\ SameSession(token'[t], token[t])
      BY <1>4, <1>6, <1>8
    <2>2. /\ token'[t].family = token[t].family
          /\ token'[token'[t].family] # None
          /\ token'[token'[t].family].user = token'[t].user
          /\ token'[token'[t].family].expires = token'[t].expires
      BY <1>6, <2>1 DEF SameSession
    <2>3. ASSUME t # token'[t].family
          PROVE  \E s \in Tokens : token'[s] # None /\ token'[s].next = t
      <3>1. PICK s \in Tokens : token[s] # None /\ token[s].next = t
        BY <1>8, <2>2, <2>3 DEF IInv, ChainsIntact
      <3>2. Old(s)
        BY <1>7, <3>1, NoneAssumption
      <3>3. QED
        BY <1>1, <3>1, <3>2
    <2>4. ASSUME token'[t].next # None
          PROVE  /\ token'[t].status = "rotation"
                 /\ token'[t].next # token'[t].family
                 /\ token'[token'[t].next] # None
                 /\ token'[token'[t].next].family = token'[t].family
                 /\ \A s \in Tokens \ {t} : token'[s] # None => token'[s].next # token'[t].next
      <3>1. CASE Old(t)
        <4> DEFINE m == token[t].next
        <4>1. token'[t] = token[t]
          BY <1>1, <3>1
        <4>2. /\ token[t].status = "rotation" /\ m # token[t].family
              /\ token[m] # None /\ token[m].family = token[t].family
              /\ \A s \in Tokens \ {t} : token[s] # None => token[s].next # m
          BY <1>8, <2>4, <4>1 DEF IInv, ChainsIntact
        <4>3. m \in Tokens
          BY <1>8, <2>4, <4>1 DEF IInv, TypeOK, T!TableOK, TokenRow
        <4>4. token'[m] # None /\ token'[m].family = token[m].family
          BY <1>6, <4>2, <4>3 DEF SameSession
        <4>5. ASSUME NEW s \in Tokens \ {t}, token'[s] # None PROVE token'[s].next # m
          <5>1. CASE Old(s)
            BY <1>1, <4>2, <4>5, <5>1
          <5>2. CASE Killed(s)
            BY <1>2, <2>4, <4>1, <4>2, <5>2
          <5>3. CASE New(s)
            BY <1>3, <2>4, <4>1, <5>3
          <5>4. QED
            BY <5>1, <5>2, <5>3
        <4>6. QED
          BY <4>1, <4>2, <4>4, <4>5
      <3>2. CASE ~Old(t)
        <4>1. Killed(t)
          BY <1>8, <3>2
        <4>2. /\ token'[t].status = "rotation" /\ token'[t].next = n
              /\ n \in Tokens /\ token[n] = None
              /\ token'[n] # None /\ SameSession(token'[n], token[t]) /\ IsLive(token[t])
          BY <1>2, <2>4, <4>1
        <4>3. n # token'[t].family
          BY <2>1, <2>2, <4>2
        <4>4. token'[n].family = token'[t].family
          BY <2>1, <4>2 DEF SameSession
        <4>5. ASSUME NEW s \in Tokens \ {t}, token'[s] # None PROVE token'[s].next # n
          <5>1. CASE Old(s)
            <6>1. token'[s] = token[s] /\ token[s] # None
              BY <1>1, <4>5, <5>1
            <6>2. token[s].next # None => token[token[s].next] # None
              BY <6>1 DEF IInv, ChainsIntact
            <6>3. QED
              BY <2>4, <4>2, <6>1, <6>2
          <5>2. CASE Killed(s)
            <6>1. SUFFICES ASSUME token'[s].next = n PROVE FALSE
              OBVIOUS
            <6>2. IsLive(token[s]) /\ SameSession(token'[n], token[s])
              BY <1>2, <2>4, <4>2, <5>2, <6>1
            <6>3. QED
              BY <1>5, <4>2, <4>5, <6>2 DEF SameSession
          <5>3. CASE New(s)
            BY <1>3, <2>4, <4>2, <5>3
          <5>4. QED
            BY <5>1, <5>2, <5>3
        <4>6. QED
          BY <4>2, <4>3, <4>4, <4>5
      <3>3. QED
        BY <3>1, <3>2
    <2>5. QED
      BY <2>2, <2>3, <2>4
  <1>9. CASE token[t] = None
    <2>1. New(t) /\ t = n /\ token'[t].next = None
      BY <1>1, <1>3, <1>9
    <2>2. CASE token'[t].family = t
      BY <2>1, <2>2
    <2>3. CASE token'[t].family # t
      <3>1. PICK p \in Tokens : Killed(p) /\ token'[p].next = t
        BY <1>3, <2>1, <2>3
      <3>2. SameSession(token'[t], token[p]) /\ token[p] # None /\ token'[p] # None
        BY <1>2, <2>1, <3>1, NoneAssumption
      <3>3. Root(p)
        BY <1>4, <3>2
      <3>4. /\ token'[token'[t].family] # None
            /\ token'[token'[t].family].user = token'[t].user
            /\ token'[token'[t].family].expires = token'[t].expires
        BY <1>6, <3>2, <3>3 DEF SameSession
      <3>5. QED
        BY <2>1, <3>1, <3>2, <3>4
    <2>4. QED
      BY <2>2, <2>3
  <1>10. QED
    BY <1>8, <1>9

\* The end of a transaction, by COMMIT or not, leaves well-formed tables and the
\* other requests as they were.
LEMMA Ending ==
  ASSUME IInv, NEW x \in Requests, T!Release(x), A!Release(x),
         request' = [request EXCEPT ![x] = Idle], now' = now,
         token' \in {token, [k \in Tokens |-> T!Sees(x, k)]},
         account' \in {account, [u \in Users |-> A!Sees(x, u)]}
  PROVE  TypeOK' /\ (\A y \in Requests : StageOK(y)') /\ DraftsOK'
  <1> USE DEF T!Release, A!Release
  <1>a. DOMAIN token' = Tokens /\ token' = [k \in DOMAIN token' |-> token'[k]]
    BY DEF IInv, TypeOK, T!TableOK
  <1>b. ASSUME NEW k \in Tokens
        PROVE  token'[k] = token[k] \/ (tokenHolder[k] = x /\ token'[k] = tokenDraft[k])
    <2>1. token'[k] \in {token[k], T!Sees(x, k)}
      OBVIOUS
    <2>2. QED
      BY <2>1 DEF T!Sees
  <1>c. DOMAIN account' = Users /\ account' = [u \in DOMAIN account' |-> account'[u]]
    BY DEF IInv, TypeOK
  <1>d. ASSUME NEW u \in Users
        PROVE  account'[u] = account[u] \/ (accountHolder[u] = x /\ account'[u] = accountDraft[u])
    <2>1. account'[u] \in {account[u], A!Sees(x, u)}
      OBVIOUS
    <2>2. QED
      BY <2>1 DEF A!Sees
  <1>1. Idle \in Request
    BY DEF Idle, Request, Stages, Ops
  <1>2. /\ request' \in [Requests -> Request] /\ request'[x] = Idle
        /\ \A y \in Requests \ {x} : request'[y] = request[y]
    BY <1>1 DEF IInv, TypeOK
  <1>3. /\ tokenDraft' = [k \in Tokens |-> IF tokenHolder[k] = x THEN None ELSE tokenDraft[k]]
        /\ tokenHolder' = [k \in Tokens |-> IF tokenHolder[k] = x THEN None ELSE tokenHolder[k]]
        /\ accountDraft' = [u \in Users |-> IF accountHolder[u] = x THEN None ELSE accountDraft[u]]
        /\ accountHolder' = [u \in Users |-> IF accountHolder[u] = x THEN None
                                             ELSE accountHolder[u]]
    OBVIOUS
  <1>4. T!TableOK(TokenRow)'
    <2>1. \A k \in Tokens : token'[k] \in TokenRow \cup {None}
      BY <1>b DEF IInv, TypeOK, T!TableOK
    <2>2. token' \in [Tokens -> TokenRow \cup {None}]
      BY <1>a, <2>1
    <2>3. QED
      BY <1>3, <2>2 DEF IInv, TypeOK, T!TableOK
  <1>5. A!TableOK(AccountRow)' /\ account' \in [Users -> AccountRow]
    <2>1. \A u \in Users : account'[u] \in AccountRow
      BY <1>d, NoneAssumption DEF IInv, TypeOK, A!TableOK
    <2>2. account' \in [Users -> AccountRow]
      BY <1>c, <2>1
    <2>3. QED
      BY <1>3, <2>2 DEF IInv, TypeOK, A!TableOK
  <1>6. \A k \in Tokens : token[k] # None => token'[k] # None
    BY <1>b, NoneAssumption DEF IInv, TypeOK, T!TableOK
  <1>7. ASSUME NEW y \in Requests PROVE StageOK(y)'
    <2>1. CASE y = x
      BY <1>2, <1>3, <2>1, NoneAssumption DEF StageOK, Idle
    <2>2. CASE y # x
      <3>1. \A k \in Tokens : tokenHolder[k] = y =>
              tokenHolder'[k] = y /\ token'[k] = token[k] /\ tokenDraft'[k] = tokenDraft[k]
        BY <1>b, <1>3, <2>2
      <3>2. (\A k \in Tokens : tokenHolder[k] # y) => (\A k \in Tokens : tokenHolder'[k] # y)
        BY <1>3, NoneAssumption
      <3>3. (\A u \in Users : accountHolder[u] # y) => (\A u \in Users : accountHolder'[u] # y)
        BY <1>3, NoneAssumption
      <3> PICK r : r = request[y]
        OBVIOUS
      <3>4. r = request[y] /\ r = request'[y]
        BY <1>2, <2>2
      <3>5. StageOK(y)
        BY DEF IInv
      <3>6. \A k \in Tokens : token[k] # None => token'[k] # None
        BY <1>6
      <3>7. r.at \in {"idle", "claim", "inspect"} =>
              /\ \A k \in Tokens : tokenHolder'[k] # y
              /\ \A u \in Users : accountHolder'[u] # y
        BY <3>2, <3>3, <3>4, <3>5 DEF StageOK
      <3>8. r.at \in {"reread", "issue"} =>
              /\ r.card \in Tokens
              /\ tokenHolder'[r.card] = y
              /\ token'[r.card] # None
              /\ tokenDraft'[r.card] = [token'[r.card] EXCEPT !.status = "rotation"]
        BY <3>1, <3>4, <3>5 DEF StageOK
      <3>9. r.at \in {"claim", "inspect"} => r.card \in Tokens /\ token'[r.card] # None
        BY <3>4, <3>5, <3>6 DEF StageOK
      <3>10. /\ r.at \in {"rehash", "touch", "open", "password", "role", "activate", "revoke",
                          "sweep", "reread", "issue"} => r.user \in Users
             /\ r.at \in {"rehash", "password"} => r.password \in Passwords
             /\ r.at \in {"password", "role", "activate", "revoke", "sweep"} => r.reason \in Reasons
        BY <3>4, <3>5 DEF StageOK
      <3>11. QED
        BY <3>4, <3>7, <3>8, <3>9, <3>10 DEF StageOK
    <2>3. QED
      BY <2>1, <2>2
  <1>8. TypeOK'
    BY <1>2, <1>4, <1>5, <1>7 DEF IInv, TypeOK, StageOK
  <1>9. DraftsOK'
    <2> SUFFICES ASSUME NEW k \in Tokens, tokenHolder'[k] # None
                 PROVE  HeldRowOK(k)'
      BY DEF DraftsOK
    <2>1. tokenHolder[k] \notin {x, None}
      BY <1>3
    <2>2. \A j \in Tokens : tokenHolder[j] \notin {x, None} =>
            token'[j] = token[j] /\ tokenDraft'[j] = tokenDraft[j] /\ tokenHolder'[j] = tokenHolder[j]
      BY <1>b, <1>3
    <2>3. QED
      BY <1>2, <2>1, <2>2, OthersDrafts
  <1>10. QED
    BY <1>7, <1>8, <1>9

LEMMA CommitIInv ==
  ASSUME IInv, NEW x \in Requests, Commit(x)
  PROVE  IInv'
  <1>1. /\ T!Release(x) /\ A!Release(x)
        /\ request' = [request EXCEPT ![x] = Idle] /\ now' = now
        /\ token' = [k \in Tokens |-> T!Sees(x, k)]
        /\ account' = [u \in Users |-> A!Sees(x, u)]
    BY DEF Commit, T!Publish, A!Publish
  <1>2. TypeOK' /\ (\A y \in Requests : StageOK(y)') /\ DraftsOK'
    BY <1>1, Ending
  <1>3. ChainsIntact' /\ LiveFamilyHistory'
    BY CommitChains, CommitHistory
  <1>4. QED
    BY <1>2, <1>3 DEF IInv

LEMMA AbandonIInv ==
  ASSUME IInv, NEW x \in Requests, Abandon(x)
  PROVE  IInv'
  <1>1. /\ T!Release(x) /\ A!Release(x)
        /\ request' = [request EXCEPT ![x] = Idle] /\ now' = now
        /\ token' = token /\ account' = account
    BY DEF Abandon, T!Discard, A!Discard
  <1>2. TypeOK' /\ (\A y \in Requests : StageOK(y)') /\ DraftsOK'
    BY <1>1, Ending
  <1>3. ChainsIntact' /\ LiveFamilyHistory'
    BY <1>1 DEF IInv, ChainsIntact, LiveFamilyHistory
  <1>4. QED
    BY <1>2, <1>3 DEF IInv

LEMMA TickIInv ==
  ASSUME IInv, Tick
  PROVE  IInv'
  <1> USE DEF Tick
  <1>1. TypeOK'
    BY DEF IInv, TypeOK, T!TableOK, A!TableOK
  <1>2. ASSUME NEW y \in Requests PROVE StageOK(y)'
    BY DEF IInv, StageOK
  <1>3. DraftsOK'
    <2> SUFFICES ASSUME NEW k \in Tokens, tokenHolder[k] # None
                 PROVE  HeldRowOK(k)'
      BY DEF DraftsOK
    <2>1. HeldRowOK(k)
      BY DEF IInv, DraftsOK
    <2>2. QED
      BY <2>1 DEF HeldRowOK
  <1>4. ChainsIntact' /\ LiveFamilyHistory'
    BY DEF IInv, ChainsIntact, LiveFamilyHistory
  <1>5. QED
    BY <1>1, <1>2, <1>3, <1>4 DEF IInv

-----------------------------------------------------------------------------
(* Every step of a request *)

\* A request starts without a lock, with what its first statement needs.
LEMMA BeginIInv ==
  ASSUME IInv, NEW x \in Requests, NEW r \in Request, Begin(x, r),
         r.at \in {"claim", "rehash", "touch", "password", "role", "activate", "revoke"},
         IF r.at = "claim" THEN r.card \in Tokens /\ token[r.card] # None
                           ELSE r.user \in Users,
         r.at \in {"rehash", "password"} => r.password \in Passwords,
         r.at \in {"password", "role", "activate", "revoke"} => r.reason \in Reasons
  PROVE  IInv'
  <1>1. Think(x, r) /\ request[x] = Idle /\ request[x].at = "idle"
    BY DEF Begin, Think, Idle
  <1>2. request'[x] = r
    BY <1>1 DEF Think, IInv, TypeOK
  <1>3. /\ \A t \in Tokens : tokenHolder[t] # x
        /\ \A u \in Users : accountHolder[u] # x
    BY <1>1 DEF IInv, StageOK
  <1>4. StageOK(x)'
    BY <1>1, <1>2, <1>3 DEF StageOK, Think
  <1>5. QED
    BY <1>1, <1>4, Thinking

LEMMA AskIInv ==
  ASSUME IInv, NEW x \in Requests, Ask(x)
  PROVE  IInv'
  <1> USE DEF Idle, Request, Ops, Stages, Reasons
  <1>1. ASSUME NEW u \in Users, NEW p \in Passwords, NEW b \in BOOLEAN, Authenticate(x, u, p, b)
        PROVE  IInv'
    <2> DEFINE r == [Idle EXCEPT !.op = "login", !.user = u, !.password = p,
                                 !.at = IF b THEN "rehash" ELSE "touch"]
    <2>1. r \in Request /\ r.at \in {"rehash", "touch"} /\ r.user = u /\ r.password = p
      OBVIOUS
    <2>2. Begin(x, r)
      BY <1>1 DEF Authenticate
    <2> HIDE DEF r
    <2>3. QED
      BY <2>1, <2>2, BeginIInv
  <1>2. ASSUME NEW t \in Tokens, Refresh(x, t)
        PROVE  IInv'
    <2> DEFINE r == [Idle EXCEPT !.op = "refresh", !.card = t, !.at = "claim"]
    <2>1. r \in Request /\ r.at = "claim" /\ r.card = t /\ token[t] # None
      BY <1>2 DEF Refresh
    <2>2. Begin(x, r)
      BY <1>2 DEF Refresh
    <2> HIDE DEF r
    <2>3. QED
      BY <2>1, <2>2, BeginIInv
  <1>3. ASSUME NEW t \in Tokens, Logout(x, t)
        PROVE  IInv'
    <2> DEFINE r == [Idle EXCEPT !.op = "logout", !.user = token[t].user,
                                 !.family = token[t].family, !.reason = "logout",
                                 !.at = "revoke"]
    <2>1. token[t].user \in Users /\ token[t].family \in Tokens
      BY <1>3 DEF Logout, IInv, TypeOK, T!TableOK, TokenRow
    <2>2. r \in Request /\ r.at = "revoke" /\ r.user \in Users /\ r.reason = "logout"
      BY <2>1
    <2>3. Begin(x, r)
      BY <1>3 DEF Logout
    <2> HIDE DEF r
    <2>4. QED
      BY <2>2, <2>3, BeginIInv
  <1>4. ASSUME NEW u \in Users, LogoutAll(x, u)
        PROVE  IInv'
    <2> DEFINE r == [Idle EXCEPT !.op = "logout_all", !.user = u, !.reason = "logout",
                                 !.at = "revoke"]
    <2>1. r \in Request /\ r.at = "revoke" /\ r.user = u /\ r.reason = "logout"
      OBVIOUS
    <2>2. Begin(x, r)
      BY <1>4 DEF LogoutAll
    <2> HIDE DEF r
    <2>3. QED
      BY <2>1, <2>2, BeginIInv
  <1>5. ASSUME NEW u \in Users, NEW p \in Passwords, NEW q \in Passwords,
               ChangePassword(x, u, p, q)
        PROVE  IInv'
    <2> DEFINE r == [Idle EXCEPT !.op = "change_password", !.user = u, !.password = q,
                                 !.reason = "password_change", !.at = "password"]
    <2>1. /\ r \in Request /\ r.at = "password" /\ r.user = u /\ r.password = q
          /\ r.reason = "password_change"
      OBVIOUS
    <2>2. Begin(x, r)
      BY <1>5 DEF ChangePassword
    <2> HIDE DEF r
    <2>3. QED
      BY <2>1, <2>2, BeginIInv
  <1>6. ASSUME NEW u \in Users, NEW p \in Passwords, ResetPassword(x, u, p)
        PROVE  IInv'
    <2> DEFINE r == [Idle EXCEPT !.op = "reset_password", !.user = u, !.password = p,
                                 !.reason = "password_change", !.at = "password"]
    <2>1. /\ r \in Request /\ r.at = "password" /\ r.user = u /\ r.password = p
          /\ r.reason = "password_change"
      OBVIOUS
    <2>2. Begin(x, r)
      BY <1>6 DEF ResetPassword
    <2> HIDE DEF r
    <2>3. QED
      BY <2>1, <2>2, BeginIInv
  <1>7. ASSUME NEW u \in Users, NEW b \in BOOLEAN, SetActive(x, u, b)
        PROVE  IInv'
    <2> DEFINE r == [Idle EXCEPT !.op = "set_active", !.user = u, !.active = b,
                                 !.reason = "admin", !.at = "activate"]
    <2>1. r \in Request /\ r.at = "activate" /\ r.user = u /\ r.reason = "admin"
      OBVIOUS
    <2>2. Begin(x, r)
      BY <1>7 DEF SetActive
    <2> HIDE DEF r
    <2>3. QED
      BY <2>1, <2>2, BeginIInv
  <1>8. ASSUME NEW u \in Users, ChangeRole(x, u)
        PROVE  IInv'
    <2> DEFINE r == [Idle EXCEPT !.op = "change_role", !.user = u, !.reason = "admin",
                                 !.at = "role"]
    <2>1. r \in Request /\ r.at = "role" /\ r.user = u /\ r.reason = "admin"
      OBVIOUS
    <2>2. Begin(x, r)
      BY <1>8 DEF ChangeRole
    <2> HIDE DEF r
    <2>3. QED
      BY <2>1, <2>2, BeginIInv
  <1>9. ASSUME NEW u \in Users, NEW p \in Passwords, ConfirmPasswordReset(x, u, p)
        PROVE  IInv'
    <2> DEFINE r == [Idle EXCEPT !.op = "confirm_reset", !.user = u, !.password = p,
                                 !.reason = "password_change", !.at = "password"]
    <2>1. /\ r \in Request /\ r.at = "password" /\ r.user = u /\ r.password = p
          /\ r.reason = "password_change"
      OBVIOUS
    <2>2. Begin(x, r)
      BY <1>9 DEF ConfirmPasswordReset
    <2> HIDE DEF r
    <2>3. QED
      BY <2>1, <2>2, BeginIInv
  <1>10. QED
    BY <1>1, <1>2, <1>3, <1>4, <1>5, <1>6, <1>7, <1>8, <1>9 DEF Ask

\* The account row a statement of x starts from is a row of the table.
LEMMA SeenAccount ==
  ASSUME IInv, NEW x \in Requests, NEW u \in Users
  PROVE  A!Sees(x, u) \in AccountRow
  BY NoneAssumption DEF IInv, TypeOK, A!TableOK, A!Sees

\* The five statements that write the account.
LEMMA AccountStepIInv ==
  ASSUME IInv, NEW x \in Requests,
         \/ RehashPassword(x) \/ TouchLastLogin(x) \/ UpdatePassword(x)
         \/ UpdateRole(x) \/ UpdateActive(x)
  PROVE  IInv'
  <1>1. PICK r \in Request : r = request[x]
    BY DEF IInv, TypeOK
  <1>2. StageOK(x)
    BY DEF IInv
  <1>3. CASE RehashPassword(x)
    <2>1. r.at = "rehash" /\ r.user \in Users /\ r.password \in Passwords
      BY <1>1, <1>2, <1>3 DEF RehashPassword, StageOK
    <2>2. [A!Sees(x, r.user) EXCEPT !.password = r.password] \in AccountRow
      BY <2>1, SeenAccount DEF AccountRow
    <2>3. UpdateAccount(x, [A!Sees(x, r.user) EXCEPT !.password = r.password], "touch")
      BY <1>1, <1>3 DEF RehashPassword
    <2>4. QED
      BY <1>1, <2>1, <2>2, <2>3, Updating
  <1>4. CASE TouchLastLogin(x)
    <2>1. r.at = "touch" /\ r.user \in Users
      BY <1>1, <1>2, <1>4 DEF TouchLastLogin, StageOK
    <2>2. UpdateAccount(x, A!Sees(x, r.user), "open")
      BY <1>1, <1>4 DEF TouchLastLogin
    <2>3. QED
      BY <1>1, <2>1, <2>2, SeenAccount, Updating
  <1>5. CASE UpdatePassword(x)
    <2>1. /\ r.at = "password" /\ r.user \in Users /\ r.password \in Passwords
          /\ r.reason \in Reasons
      BY <1>1, <1>2, <1>5 DEF UpdatePassword, StageOK
    <2>2. [A!Sees(x, r.user) EXCEPT !.password = r.password] \in AccountRow
      BY <2>1, SeenAccount DEF AccountRow
    <2>3. UpdateAccount(x, [A!Sees(x, r.user) EXCEPT !.password = r.password], "revoke")
      BY <1>1, <1>5 DEF UpdatePassword
    <2>4. QED
      BY <1>1, <2>1, <2>2, <2>3, Updating
  <1>6. CASE UpdateActive(x)
    <2> DEFINE next == IF r.active THEN "commit" ELSE "revoke"
    <2>1. r.at = "activate" /\ r.user \in Users /\ r.reason \in Reasons /\ r.active \in BOOLEAN
      BY <1>1, <1>2, <1>6 DEF UpdateActive, StageOK, Request
    <2>2. [A!Sees(x, r.user) EXCEPT !.active = r.active] \in AccountRow
      BY <2>1, SeenAccount DEF AccountRow
    <2>3. UpdateAccount(x, [A!Sees(x, r.user) EXCEPT !.active = r.active], next)
      BY <1>1, <1>6 DEF UpdateActive
    <2>4. next \in {"touch", "open", "revoke", "commit"}
      OBVIOUS
    <2> HIDE DEF next
    <2>5. QED
      BY <1>1, <2>1, <2>2, <2>3, <2>4, Updating
  <1>7. CASE UpdateRole(x)
    <2>1. r.at = "role" /\ r.user \in Users /\ r.reason \in Reasons
      BY <1>1, <1>2, <1>7 DEF UpdateRole, StageOK
    <2>2. UpdateAccount(x, A!Sees(x, r.user), "revoke")
      BY <1>1, <1>7 DEF UpdateRole
    <2>3. QED
      BY <1>1, <2>1, <2>2, SeenAccount, Updating
  <1>8. QED
    BY <1>3, <1>4, <1>5, <1>6, <1>7

LEMMA ClaimIInv ==
  ASSUME IInv, NEW x \in Requests, ClaimForRotation(x)
  PROVE  IInv'
  <1>1. PICK r \in Request : r = request[x]
    BY DEF IInv, TypeOK
  <1>2. PICK c \in Tokens : c = r.card
    BY <1>1 DEF IInv, StageOK, ClaimForRotation
  <1>3. /\ r.at = "claim" /\ token[c] # None /\ tokenHolder[c] # x
        /\ \A t \in Tokens : tokenHolder[t] # x
        /\ \A u \in Users : accountHolder[u] # x
    BY <1>1, <1>2 DEF IInv, StageOK, ClaimForRotation
  <1>4. T!Sees(x, c) = token[c] /\ token[c] \in TokenRow
    BY <1>3 DEF T!Sees, IInv, TypeOK, T!TableOK
  <1>5. CASE Claimable(token[c])
    <2> DEFINE q == [r EXCEPT !.user = token[c].user, !.family = token[c].family, !.at = "reread"]
    <2>1. q \in Request /\ q.at = "reread" /\ q.user \in Users /\ q.card = c
      BY <1>2, <1>4 DEF Request, Stages, TokenRow
    <2>2. WriteTokens(x, [k \in {c} |-> [T!Sees(x, c) EXCEPT !.status = "rotation"]], q)
      BY <1>1, <1>2, <1>4, <1>5 DEF ClaimForRotation
    <2> HIDE DEF q
    <2>3. /\ request'[x] = q /\ token' = token /\ tokenHolder'[c] = x
          /\ tokenDraft'[c] = [token[c] EXCEPT !.status = "rotation"]
      BY <1>4, <2>2 DEF WriteTokens, T!Write, IInv, TypeOK
    <2>4. StageOK(x)'
      BY <1>3, <2>1, <2>3 DEF StageOK
    <2>5. IsLive(T!Sees(x, c))
      BY <1>4, <1>5 DEF Claimable
    <2>6. QED
      BY <1>1, <1>3, <2>1, <2>2, <2>4, <2>5, Killing DEF Reasons
  <1>6. CASE ~Claimable(token[c])
    <2> DEFINE q == [r EXCEPT !.at = "inspect"]
    <2>1. q \in Request /\ q.at = "inspect" /\ q.card = c
      BY <1>2 DEF Request, Stages
    <2>2. Think(x, q)
      BY <1>1, <1>2, <1>4, <1>6 DEF ClaimForRotation
    <2> HIDE DEF q
    <2>3. request'[x] = q
      BY <2>2 DEF Think, IInv, TypeOK
    <2>4. StageOK(x)'
      BY <1>3, <2>1, <2>2, <2>3 DEF StageOK, Think
    <2>5. QED
      BY <1>1, <1>3, <2>1, <2>2, <2>4, Thinking
  <1>7. QED
    BY <1>5, <1>6

\* The steps that only decide what x does next.
LEMMA DecisionIInv ==
  ASSUME IInv, NEW x \in Requests,
         InspectRefused(x) \/ RereadAccount(x) \/ BeginRevocation(x) \/ EndRevocation(x)
  PROVE  IInv'
  <1>1. PICK r \in Request : r = request[x]
    BY DEF IInv, TypeOK
  <1>2. StageOK(x)
    BY DEF IInv
  <1>3. ASSUME NEW q \in Request, Think(x, q), r.at # "commit",
               q.at \in {"issue", "revoke", "sweep", "open", "commit"},
               q.at # "commit" => q.user \in Users,
               q.at \in {"revoke", "sweep"} => q.reason \in Reasons,
               q.at = "issue" => r.at = "reread" /\ q.card = r.card
        PROVE  IInv'
    <2>1. request'[x] = q
      BY <1>3 DEF Think, IInv, TypeOK
    <2>2. StageOK(x)'
      BY <1>1, <1>2, <1>3, <2>1 DEF StageOK, Think
    <2>3. QED
      BY <1>1, <1>3, <2>2, Thinking
  <1>4. CASE InspectRefused(x)
    <2>1. PICK c \in Tokens : c = r.card
      BY <1>1, <1>2, <1>4 DEF StageOK, InspectRefused
    <2>2. r.at = "inspect" /\ token[c] # None /\ token[c] \in TokenRow
      BY <1>1, <1>2, <1>4, <2>1 DEF StageOK, InspectRefused, IInv, TypeOK, T!TableOK
    <2>3. CASE token[c].expires <= now
      <3>1. Think(x, Idle) /\ Idle \in Request
        BY <1>1, <1>4, <2>1, <2>3 DEF InspectRefused, Idle, Request, Stages, Ops
      <3>2. request'[x] = Idle
        BY <3>1 DEF Think, IInv, TypeOK
      <3>3. StageOK(x)'
        BY <1>1, <1>2, <2>2, <3>1, <3>2 DEF StageOK, Think, Idle
      <3>4. QED
        BY <1>1, <2>2, <3>1, <3>3, Thinking
    <2>4. CASE ~(token[c].expires <= now)
      <3> DEFINE q == [r EXCEPT !.user = token[c].user, !.family = token[c].family,
                                !.reason = "reuse_detected", !.at = "revoke"]
      <3>1. /\ q \in Request /\ q.at = "revoke" /\ q.user \in Users
            /\ q.reason = "reuse_detected"
        BY <2>2 DEF Request, Stages, TokenRow, Reasons
      <3>2. Think(x, q)
        BY <1>1, <1>4, <2>1, <2>4 DEF InspectRefused
      <3> HIDE DEF q
      <3>3. QED
        BY <1>3, <2>2, <3>1, <3>2 DEF Reasons
    <2>5. QED
      BY <2>3, <2>4
  <1>5. CASE RereadAccount(x)
    <2>1. r.at = "reread" /\ r.user \in Users
      BY <1>1, <1>2, <1>5 DEF StageOK, RereadAccount
    <2>2. CASE A!Sees(x, r.user).active
      <3> DEFINE q == [r EXCEPT !.at = "issue"]
      <3>1. q \in Request /\ q.at = "issue" /\ q.user \in Users /\ q.card = r.card
        BY <2>1 DEF Request, Stages
      <3>2. Think(x, q)
        BY <1>1, <1>5, <2>2 DEF RereadAccount
      <3> HIDE DEF q
      <3>3. QED
        BY <1>3, <2>1, <3>1, <3>2
    <2>3. CASE ~A!Sees(x, r.user).active
      <3> DEFINE q == [r EXCEPT !.reason = "admin", !.at = "revoke"]
      <3>1. q \in Request /\ q.at = "revoke" /\ q.user \in Users /\ q.reason = "admin"
        BY <2>1 DEF Request, Stages, Reasons
      <3>2. Think(x, q)
        BY <1>1, <1>5, <2>3 DEF RereadAccount
      <3> HIDE DEF q
      <3>3. QED
        BY <1>3, <2>1, <3>1, <3>2 DEF Reasons
    <2>4. QED
      BY <2>2, <2>3
  <1>6. CASE BeginRevocation(x)
    <2> DEFINE rows == {t \in Tokens : InScope(r, T!Sees(x, t))}
               q == [r EXCEPT !.seen = rows, !.left = rows, !.at = "sweep"]
    <2>1. r.at = "revoke" /\ r.user \in Users /\ r.reason \in Reasons
      BY <1>1, <1>2, <1>6 DEF StageOK, BeginRevocation
    <2>2. rows \in SUBSET Tokens
      OBVIOUS
    <2>3. Think(x, q)
      BY <1>1, <1>6 DEF BeginRevocation
    <2> HIDE DEF rows
    <2>4. /\ q \in Request /\ q.at = "sweep" /\ q.user \in Users /\ q.reason \in Reasons
      BY <2>1, <2>2 DEF Request, Stages
    <2> HIDE DEF q
    <2>5. QED
      BY <1>3, <2>1, <2>3, <2>4
  <1>7. CASE EndRevocation(x)
    <2> DEFINE q == [r EXCEPT !.at = IF r.op \in Reopening THEN "open" ELSE "commit"]
    <2>1. r.at = "sweep" /\ r.user \in Users
      BY <1>1, <1>2, <1>7 DEF StageOK, EndRevocation
    <2>2. q \in Request /\ q.at \in {"open", "commit"} /\ q.user \in Users
      BY <2>1 DEF Request, Stages
    <2>3. Think(x, q)
      BY <1>1, <1>7 DEF EndRevocation
    <2> HIDE DEF q
    <2>4. QED
      BY <1>3, <2>1, <2>2, <2>3
  <1>8. QED
    BY <1>4, <1>5, <1>6, <1>7

LEMMA RevokeRowIInv ==
  ASSUME IInv, NEW x \in Requests, RevokeRow(x)
  PROVE  IInv'
  <1>1. PICK r \in Request : r = request[x]
    BY DEF IInv, TypeOK
  <1>2. /\ r.at = "sweep" /\ r.user \in Users /\ r.reason \in Reasons
        /\ r.left \in SUBSET Tokens
    BY <1>1 DEF IInv, StageOK, RevokeRow, Request
  <1>3. PICK t \in Tokens :
          LET row == T!Sees(x, t)
              rest == [r EXCEPT !.left = r.left \ {t}]
          IN IF InScope(r, row)
             THEN WriteTokens(x, [k \in {t} |-> [row EXCEPT !.status = r.reason]], rest)
             ELSE Think(x, rest)
    BY <1>1, <1>2 DEF RevokeRow
  <1> DEFINE rest == [r EXCEPT !.left = r.left \ {t}]
             row == T!Sees(x, t)
  <1>4. rest \in Request /\ rest.at = "sweep" /\ rest.user \in Users /\ rest.reason \in Reasons
    BY <1>2 DEF Request
  <1>5. CASE InScope(r, row)
    <2>1. IsLive(row)
      BY <1>5 DEF InScope
    <2>2. token[t] # None
      BY <1>1, <1>2, <2>1, HeldRows DEF T!Sees, IInv, IsLive
    <2>3. WriteTokens(x, [k \in {t} |-> [row EXCEPT !.status = r.reason]], rest)
      BY <1>3, <1>5
    <2> HIDE DEF rest
    <2>4. request'[x] = rest
      BY <2>3 DEF WriteTokens, IInv, TypeOK
    <2>5. StageOK(x)'
      BY <1>4, <2>4 DEF StageOK
    <2>6. QED
      BY <1>1, <1>2, <1>4, <2>1, <2>2, <2>3, <2>5, Killing
  <1>6. CASE ~InScope(r, row)
    <2>1. Think(x, rest)
      BY <1>3, <1>6
    <2> HIDE DEF rest
    <2>2. request'[x] = rest
      BY <2>1 DEF Think, IInv, TypeOK
    <2>3. StageOK(x)'
      BY <1>4, <2>2 DEF StageOK
    <2>4. QED
      BY <1>1, <1>2, <1>4, <2>1, <2>3, Thinking
  <1>7. QED
    BY <1>5, <1>6

-----------------------------------------------------------------------------

LEMMA NextIInv == IInv /\ [Next]_vars => IInv'
  <1> SUFFICES ASSUME IInv, [Next]_vars PROVE IInv'
    OBVIOUS
  <1>1. CASE UNCHANGED vars
    <2>1. /\ TypeOK' /\ DraftsOK' /\ ChainsIntact' /\ LiveFamilyHistory'
      BY <1>1 DEF vars, IInv, TypeOK, T!TableOK, A!TableOK, DraftsOK, HeldRowOK, ChainsIntact,
                  LiveFamilyHistory
    <2>2. ASSUME NEW x \in Requests PROVE StageOK(x)'
      BY <1>1 DEF vars, IInv, StageOK
    <2>3. QED
      BY <2>1, <2>2 DEF IInv
  <1>2. CASE Tick
    BY <1>2, TickIInv
  <1>3. ASSUME NEW x \in Requests, Ask(x) \/ Step(x) \/ Rollback(x)
        PROVE  IInv'
    <2>1. CASE Ask(x)
      BY <2>1, AskIInv
    <2>2. CASE \/ RehashPassword(x) \/ TouchLastLogin(x) \/ UpdatePassword(x)
               \/ UpdateRole(x) \/ UpdateActive(x)
      BY <2>2, AccountStepIInv
    <2>3. CASE OpenFamily(x)
      BY <2>3, OpenFamilyIInv
    <2>4. CASE ClaimForRotation(x)
      BY <2>4, ClaimIInv
    <2>5. CASE InspectRefused(x) \/ RereadAccount(x) \/ BeginRevocation(x) \/ EndRevocation(x)
      BY <2>5, DecisionIInv
    <2>6. CASE IssueSuccessor(x)
      BY <2>6, IssueSuccessorIInv
    <2>7. CASE RevokeRow(x)
      BY <2>7, RevokeRowIInv
    <2>8. CASE Commit(x)
      BY <2>8, CommitIInv
    <2>9. CASE DeadlockVictim(x) \/ Rollback(x)
      BY <2>9, AbandonIInv DEF DeadlockVictim, Rollback
    <2>10. QED
      BY <1>3, <2>1, <2>2, <2>3, <2>4, <2>5, <2>6, <2>7, <2>8, <2>9 DEF Step
  <1>4. QED
    BY <1>1, <1>2, <1>3 DEF Next

LEMMA Invariance == Spec => []IInv
  BY InitIInv, NextIInv, PTL DEF Spec

\* The tables stay well-formed, and a request that has ended holds no lock.
THEOREM TypeCorrect == Spec => []TypeOK
  BY Invariance, PTL DEF IInv

\* A family has at most one usable secret, and a revoked token leaves none: the
\* claim's single UPDATE and the locks are enough, whatever the interleaving.
THEOREM FamilyHistory == Spec => []LiveFamilyHistory
  BY Invariance, PTL DEF IInv

\* Rotations keep the session's user and its absolute deadline, and no secret is
\* the successor of two others.
THEOREM Chains == Spec => []ChainsIntact
  BY Invariance, PTL DEF IInv

\* What a request holds uncommitted is either a living row it kills or the one
\* secret it hands out.
THEOREM Drafts == Spec => []DraftsOK
  BY Invariance, PTL DEF IInv

LEMMA PublishedByCommit ==
  ASSUME [Next]_vars
  PROVE  token' = token \/ \E x \in Requests : Commit(x)
  <1> USE DEF Think, WriteTokens, T!Write, UpdateAccount, Begin, Abandon, T!Discard
  <1>1. CASE UNCHANGED vars
    BY <1>1 DEF vars
  <1>2. CASE Tick
    BY <1>2 DEF Tick
  <1>3. ASSUME NEW x \in Requests, Ask(x)
        PROVE  token' = token
    BY <1>3 DEF Ask, Authenticate, Refresh, Logout, LogoutAll, ChangePassword,
                ConfirmPasswordReset, ResetPassword, ChangeRole, SetActive
  <1>4. ASSUME NEW x \in Requests, Step(x)
        PROVE  token' = token \/ Commit(x)
    <2>1. CASE \/ RehashPassword(x) \/ TouchLastLogin(x) \/ UpdatePassword(x)
               \/ UpdateRole(x) \/ UpdateActive(x)
      BY <2>1 DEF RehashPassword, TouchLastLogin, UpdatePassword, UpdateRole, UpdateActive
    <2>2. CASE OpenFamily(x) \/ IssueSuccessor(x)
      BY <2>2 DEF OpenFamily, IssueSuccessor
    <2>3. CASE ClaimForRotation(x) \/ RevokeRow(x)
      BY <2>3 DEF ClaimForRotation, RevokeRow
    <2>4. CASE InspectRefused(x) \/ RereadAccount(x) \/ BeginRevocation(x) \/ EndRevocation(x)
      BY <2>4 DEF InspectRefused, RereadAccount, BeginRevocation, EndRevocation
    <2>5. CASE DeadlockVictim(x)
      BY <2>5 DEF DeadlockVictim
    <2>6. QED
      BY <1>4, <2>1, <2>2, <2>3, <2>4, <2>5 DEF Step
  <1>5. ASSUME NEW x \in Requests, Rollback(x)
        PROVE  token' = token
    BY <1>5 DEF Rollback
  <1>6. QED
    BY <1>1, <1>2, <1>3, <1>4, <1>5 DEF Next

LEMMA DeadRowStays ==
  ASSUME IInv, [Next]_vars, NEW t \in Tokens, token[t] # None, ~IsLive(token[t])
  PROVE  token'[t] = token[t]
  <1>1. CASE token' = token
    BY <1>1
  <1>2. ASSUME NEW x \in Requests, Commit(x)
        PROVE  token'[t] = token[t]
    <2>1. PICK n : n = request[x].card
      OBVIOUS
    <2>2. QED
      BY <1>2, <2>1, Committed
  <1>3. QED
    BY <1>1, <1>2, PublishedByCommit

\* No secret comes back to life, and the reason of its death is never rewritten.
THEOREM DeadForGood == Spec => DeadStaysDead
  <1>1. IInv /\ [Next]_vars =>
          [\A t \in Tokens : token[t] # None /\ ~IsLive(token[t]) => token'[t] = token[t]]_vars
    BY DeadRowStays
  <1>2. QED
    BY <1>1, Invariance, PTL DEF Spec, DeadStaysDead

-----------------------------------------------------------------------------
(* What the snapshot of a revocation saw *)

InScopeOf(r, row) == IF r.family = None THEN row.user = r.user ELSE row.family = r.family

\* A row of the snapshot is committed, stays in the scope of the statement, and is dead for
\* the request once it has been visited.
SeenOK(x) ==
  LET r == request[x]
  IN /\ r.at \notin {"sweep", "open", "commit"} => r.seen = {}
     /\ \A t \in r.seen : token[t] # None /\ InScopeOf(r, token[t])
     /\ \A t \in r.seen \ r.left : ~IsLive(T!Sees(x, t))

\* A committed row keeps its session.
LEMMA SessionStays ==
  ASSUME IInv, [Next]_vars, NEW t \in Tokens, token[t] # None
  PROVE  token'[t] # None /\ SameSession(token'[t], token[t])
  <1>1. CASE token' = token
    BY <1>1 DEF SameSession
  <1>2. ASSUME NEW x \in Requests, Commit(x)
        PROVE  token'[t] # None /\ SameSession(token'[t], token[t])
    <2>1. PICK n : n = request[x].card
      OBVIOUS
    <2>2. CASE tokenHolder[t] = x
      BY <1>2, <2>1, <2>2, Committed
    <2>3. CASE tokenHolder[t] # x
      BY <1>2, <2>1, <2>3, Committed DEF SameSession
    <2>4. QED
      BY <2>2, <2>3
  <1>3. QED
    BY <1>1, <1>2, PublishedByCommit

\* A request touches the rows of no other.
LEMMA OthersKeepTheirRows ==
  ASSUME IInv, NEW y \in Requests, Ask(y) \/ Step(y) \/ Rollback(y),
         NEW x \in Requests, x # y
  PROVE  /\ request'[x] = request[x]
         /\ \A t \in Tokens : /\ tokenHolder'[t] = x <=> tokenHolder[t] = x
                              /\ tokenHolder[t] = x => tokenDraft'[t] = tokenDraft[t]
  <1> USE DEF Think, WriteTokens, T!Write, T!Free, UpdateAccount, Begin, Abandon, T!Discard, T!Release
  <1>0. /\ request \in [Requests -> Request] /\ x # None
        /\ tokenHolder \in [Tokens -> Requests \cup {None}]
    BY NoneAssumption DEF IInv, TypeOK, T!TableOK
  <1>1. CASE Ask(y)
    BY <1>0, <1>1 DEF Ask, Authenticate, Refresh, Logout, LogoutAll, ChangePassword,
                      ConfirmPasswordReset, ResetPassword, ChangeRole, SetActive
  <1>2. CASE \/ RehashPassword(y) \/ TouchLastLogin(y) \/ UpdatePassword(y)
             \/ UpdateRole(y) \/ UpdateActive(y)
    BY <1>0, <1>2 DEF RehashPassword, TouchLastLogin, UpdatePassword, UpdateRole, UpdateActive
  <1>3. ASSUME NEW rows, NEW r, WriteTokens(y, rows, r)
        PROVE  /\ request'[x] = request[x]
               /\ \A t \in Tokens : /\ tokenHolder'[t] = x <=> tokenHolder[t] = x
                                    /\ tokenHolder[t] = x => tokenDraft'[t] = tokenDraft[t]
    BY <1>0, <1>3
  <1>4. ASSUME NEW r, Think(y, r)
        PROVE  /\ request'[x] = request[x]
               /\ \A t \in Tokens : /\ tokenHolder'[t] = x <=> tokenHolder[t] = x
                                    /\ tokenHolder[t] = x => tokenDraft'[t] = tokenDraft[t]
    BY <1>0, <1>4
  <1>5. CASE \/ OpenFamily(y) \/ IssueSuccessor(y) \/ ClaimForRotation(y) \/ RevokeRow(y)
             \/ InspectRefused(y) \/ RereadAccount(y) \/ BeginRevocation(y) \/ EndRevocation(y)
    <2> HIDE DEF Think, WriteTokens
    <2>1. QED
      BY <1>3, <1>4, <1>5 DEF OpenFamily, IssueSuccessor, ClaimForRotation, RevokeRow,
         InspectRefused, RereadAccount, BeginRevocation, EndRevocation
  <1>6. CASE Commit(y) \/ DeadlockVictim(y) \/ Rollback(y)
    BY <1>0, <1>6 DEF Commit, DeadlockVictim, Rollback, T!Publish
  <1>7. QED
    BY <1>1, <1>2, <1>5, <1>6 DEF Step

\* What others do leaves a snapshot as it was.
LEMMA OthersSeenOK ==
  ASSUME IInv, [Next]_vars, NEW x \in Requests, SeenOK(x), request'[x] = request[x],
         \A t \in Tokens : /\ tokenHolder'[t] = x <=> tokenHolder[t] = x
                           /\ tokenHolder[t] = x => tokenDraft'[t] = tokenDraft[t]
  PROVE  SeenOK(x)'
  <1>1. PICK r \in Request : r = request[x] /\ r = request'[x] /\ r.seen \subseteq Tokens
    BY DEF IInv, TypeOK, Request
  <1>2. ASSUME NEW t \in r.seen
        PROVE  token'[t] # None /\ InScopeOf(r, token'[t])
    <2>1. t \in Tokens /\ token[t] # None /\ InScopeOf(r, token[t])
      BY <1>1 DEF SeenOK
    <2>2. QED
      BY <2>1, SessionStays DEF SameSession, InScopeOf
  <1>3. ASSUME NEW t \in r.seen \ r.left
        PROVE  ~IsLive(T!Sees(x, t))'
    <2>1. t \in Tokens /\ token[t] # None /\ ~IsLive(T!Sees(x, t))
      BY <1>1 DEF SeenOK
    <2>2. CASE tokenHolder[t] = x
      BY <2>1, <2>2 DEF T!Sees, IsLive
    <2>3. CASE tokenHolder[t] # x
      <3>1. ~IsLive(token[t])
        BY <2>1, <2>3 DEF T!Sees
      <3>2. token'[t] = token[t]
        BY <2>1, <3>1, DeadRowStays
      <3>3. QED
        BY <2>1, <2>3, <3>1, <3>2 DEF T!Sees, IsLive
    <2>4. QED
      BY <2>2, <2>3
  <1>4. r.at \notin {"sweep", "open", "commit"} => r.seen = {}
    BY <1>1 DEF SeenOK
  <1>5. QED
    BY <1>1, <1>2, <1>3, <1>4 DEF SeenOK

\* A request whose snapshot is empty.
LEMMA NothingSeen ==
  ASSUME NEW x \in Requests, request'[x].seen = {}
  PROVE  SeenOK(x)'
  BY DEF SeenOK

\* The statements of the request itself.
LEMMA OwnSeenOK ==
  ASSUME IInv, NEW x \in Requests, SeenOK(x), Ask(x) \/ Step(x) \/ Rollback(x), [Next]_vars
  PROVE  SeenOK(x)'
  <1> USE DEF Think, WriteTokens
  <1>1. PICK r \in Request : /\ r = request[x] /\ r.seen \subseteq Tokens /\ r.left \subseteq Tokens
                             /\ request \in [Requests -> Request]
    BY DEF IInv, TypeOK, Request
  <1>2. r.at \notin {"sweep", "open", "commit"} => r.seen = {}
    BY <1>1 DEF SeenOK
  <1>3. CASE Ask(x)
    <2>1. ASSUME NEW q, q.seen = {}, Begin(x, q)
          PROVE  SeenOK(x)'
      BY <1>1, <2>1, NothingSeen DEF Begin
    <2>2. ASSUME NEW u \in Users, NEW p \in Passwords, NEW b \in BOOLEAN, Authenticate(x, u, p, b)
          PROVE  SeenOK(x)'
      BY <2>1, <2>2 DEF Authenticate, Idle
    <2>3. ASSUME NEW t \in Tokens, Refresh(x, t) \/ Logout(x, t)
          PROVE  SeenOK(x)'
      BY <2>1, <2>3 DEF Refresh, Logout, Idle
    <2>4. ASSUME NEW u \in Users, LogoutAll(x, u) \/ ChangeRole(x, u)
          PROVE  SeenOK(x)'
      BY <2>1, <2>4 DEF LogoutAll, ChangeRole, Idle
    <2>5. ASSUME NEW u \in Users, NEW p \in Passwords, NEW q \in Passwords, ChangePassword(x, u, p, q)
          PROVE  SeenOK(x)'
      BY <2>1, <2>5 DEF ChangePassword, Idle
    <2>6. ASSUME NEW u \in Users, NEW p \in Passwords,
                 ConfirmPasswordReset(x, u, p) \/ ResetPassword(x, u, p)
          PROVE  SeenOK(x)'
      BY <2>1, <2>6 DEF ConfirmPasswordReset, ResetPassword, Idle
    <2>7. ASSUME NEW u \in Users, NEW b \in BOOLEAN, SetActive(x, u, b)
          PROVE  SeenOK(x)'
      BY <2>1, <2>7 DEF SetActive, Idle
    <2>8. QED
      BY <1>3, <2>2, <2>3, <2>4, <2>5, <2>6, <2>7 DEF Ask
  <1>4. CASE \/ RehashPassword(x) \/ TouchLastLogin(x) \/ UpdatePassword(x)
             \/ UpdateRole(x) \/ UpdateActive(x)
    <2>1. request'[x].seen = r.seen /\ r.at \in {"rehash", "touch", "password", "role", "activate"}
      BY <1>1, <1>4 DEF RehashPassword, TouchLastLogin, UpdatePassword, UpdateRole, UpdateActive,
                        UpdateAccount, Request
    <2>2. QED
      BY <1>2, <2>1, NothingSeen
  <1>5. CASE ClaimForRotation(x) \/ InspectRefused(x) \/ RereadAccount(x) \/ IssueSuccessor(x)
    <2>1. ASSUME ClaimForRotation(x)
          PROVE  request'[x].seen = r.seen /\ r.at = "claim"
      <3>1. /\ r.at = "claim"
            /\ \/ \E row : request'[x] = [r EXCEPT !.user = row.user, !.family = row.family,
                                                   !.at = "reread"]
               \/ request'[x] = [r EXCEPT !.at = "inspect"]
        BY <1>1, <2>1 DEF ClaimForRotation, WriteTokens, Think
      <3>2. QED
        BY <1>1, <3>1 DEF Request
    <2>2. InspectRefused(x) => /\ request'[x].seen \in {r.seen, {}}
                               /\ r.at = "inspect"
      BY <1>1 DEF InspectRefused, Idle, Request
    <2>3. RereadAccount(x) => /\ request'[x].seen = r.seen
                              /\ r.at = "reread"
      BY <1>1 DEF RereadAccount, Request
    <2>4. IssueSuccessor(x) => /\ request'[x].seen = r.seen
                               /\ r.at = "issue"
      BY <1>1 DEF IssueSuccessor, Request
    <2>5. QED
      BY <1>2, <1>5, <2>1, <2>2, <2>3, <2>4, NothingSeen
  <1>6. CASE OpenFamily(x)
    <2>1. PICK k \in Tokens : /\ tokenHolder[k] = None /\ token[k] = None /\ r.at = "open"
                              /\ request'[x] = [r EXCEPT !.card = k, !.at = "commit"]
                              /\ token' = token
                              /\ \A t \in Tokens \ {k} : /\ tokenHolder'[t] = tokenHolder[t]
                                                         /\ tokenDraft'[t] = tokenDraft[t]
      BY <1>1, <1>6 DEF OpenFamily, T!Unused, T!Write
    <2>2. PICK q : q = request'[x] /\ q.seen = r.seen /\ q.left = r.left /\ q.user = r.user
                   /\ q.family = r.family /\ q.at = "commit"
      <3>1. request'[x] = [r EXCEPT !.card = k, !.at = "commit"]
        BY <2>1
      <3>2. QED
        BY <1>1, <3>1 DEF Request
    <2>3. \A t \in r.seen : t # k /\ token[t] # None /\ InScopeOf(r, token[t])
      BY <1>1, <2>1 DEF SeenOK
    <2>4. \A t \in r.seen \ r.left : T!Sees(x, t)' = T!Sees(x, t) /\ ~IsLive(T!Sees(x, t))
      BY <1>1, <2>1, <2>3 DEF SeenOK, T!Sees
    <2>5. QED
      BY <2>1, <2>2, <2>3, <2>4 DEF SeenOK, InScopeOf, IsLive
  <1>7. CASE BeginRevocation(x)
    <2> DEFINE rows == {t \in Tokens : InScope(r, T!Sees(x, t))}
    <2>1. /\ r.at = "revoke" /\ UNCHANGED <<token, tokenDraft, tokenHolder>>
          /\ request'[x] = [r EXCEPT !.seen = rows, !.left = rows, !.at = "sweep"]
      BY <1>1, <1>7 DEF BeginRevocation
    <2>2. PICK q : q = request'[x] /\ q.seen = rows /\ q.left = rows /\ q.user = r.user
                   /\ q.family = r.family /\ q.at = "sweep"
      <3> HIDE DEF rows
      <3>1. request'[x] = [r EXCEPT !.seen = rows, !.left = rows, !.at = "sweep"]
        BY <2>1
      <3>2. QED
        BY <1>1, <3>1 DEF Request
    <2>3. ASSUME NEW t \in rows
          PROVE  token[t] # None /\ InScopeOf(r, token[t])
      <3>1. InScope(r, T!Sees(x, t)) /\ IsLive(T!Sees(x, t))
        BY DEF InScope
      <3>2. tokenHolder[t] # x
        BY <1>1, <2>1, <3>1, HeldRows DEF IInv, T!Sees
      <3>3. QED
        BY <3>1, <3>2 DEF T!Sees, InScope, InScopeOf, IsLive
    <2> HIDE DEF rows
    <2>4. QED
      BY <2>1, <2>2, <2>3 DEF SeenOK, InScopeOf
  <1>8. CASE RevokeRow(x)
    <2>1. PICK t \in r.left :
            /\ T!Free(x, t) /\ r.at = "sweep"
            /\ request'[x] = [r EXCEPT !.left = r.left \ {t}] /\ token' = token
            /\ \A k \in Tokens \ {t} : /\ tokenHolder'[k] = tokenHolder[k]
                                       /\ tokenDraft'[k] = tokenDraft[k]
            /\ IF InScope(r, T!Sees(x, t))
               THEN tokenHolder'[t] = x /\ tokenDraft'[t] = [T!Sees(x, t) EXCEPT !.status = r.reason]
               ELSE tokenHolder'[t] = tokenHolder[t] /\ tokenDraft'[t] = tokenDraft[t]
      BY <1>1, <1>8 DEF RevokeRow, T!Write
    <2>2. PICK q : q = request'[x] /\ q.seen = r.seen /\ q.left = r.left \ {t} /\ q.user = r.user
                   /\ q.family = r.family /\ q.at = "sweep"
      <3>1. PICK rest : rest = r.left \ {t}
        OBVIOUS
      <3>2. request'[x] = [r EXCEPT !.left = rest]
        BY <2>1, <3>1
      <3>3. r.at = "sweep"
        BY <2>1
      <3>4. QED
        BY <1>1, <3>1, <3>2, <3>3 DEF Request
    <2>3. \A k \in r.seen : token[k] # None /\ InScopeOf(r, token[k])
      BY <1>1 DEF SeenOK
    <2>4. ASSUME NEW k \in r.seen \ r.left, k # t
          PROVE  ~IsLive(T!Sees(x, k)')
      BY <1>1, <2>1, <2>4 DEF SeenOK, T!Sees
    <2>5. ASSUME t \in r.seen
          PROVE  ~IsLive(T!Sees(x, t)')
      <3>1. t \in Tokens /\ token[t] # None /\ token[t] \in TokenRow
        BY <1>1, <2>3, <2>5 DEF IInv, TypeOK, T!TableOK
      <3>2. CASE tokenHolder[t] = x
        <4>1. ~IsLive(tokenDraft[t]) /\ T!Sees(x, t) = tokenDraft[t]
          BY <1>1, <2>1, <3>1, <3>2, HeldRows DEF IInv, T!Sees
        <4>2. QED
          BY <2>1, <3>2, <4>1 DEF InScope, T!Sees
      <3>3. CASE tokenHolder[t] # x
        <4>1. T!Sees(x, t) = token[t]
          BY <3>3 DEF T!Sees
        <4>2. CASE InScope(r, token[t])
          <5>1. r.reason \in Reasons /\ r.reason # "live"
            BY <1>1, <2>1 DEF IInv, StageOK, Reasons
          <5>2. tokenHolder'[t] = x /\ tokenDraft'[t] = [token[t] EXCEPT !.status = r.reason]
            BY <2>1, <4>1, <4>2
          <5>3. tokenDraft'[t].status # "live"
            BY <3>1, <5>1, <5>2 DEF TokenRow
          <5>4. QED
            BY <5>2, <5>3 DEF T!Sees, IsLive
        <4>3. CASE ~InScope(r, token[t])
          <5>1. ~IsLive(token[t])
            BY <2>3, <2>5, <4>3 DEF InScope, InScopeOf
          <5>2. T!Sees(x, t)' = token[t]
            BY <2>1, <3>3, <4>1, <4>3 DEF T!Sees
          <5>3. QED
            BY <5>1, <5>2
        <4>4. QED
          BY <4>2, <4>3
      <3>4. QED
        BY <3>2, <3>3
    <2>6. \A k \in q.seen \ q.left : ~IsLive(T!Sees(x, k)')
      BY <2>2, <2>4, <2>5
    <2>7. QED
      BY <2>1, <2>2, <2>3, <2>6 DEF SeenOK, InScopeOf, IsLive
  <1>9. CASE EndRevocation(x)
    <2>1. /\ UNCHANGED <<token, tokenDraft, tokenHolder>>
          /\ request'[x] = [r EXCEPT !.at = IF r.op \in Reopening THEN "open" ELSE "commit"]
      BY <1>1, <1>9 DEF EndRevocation
    <2>2. PICK q : q = request'[x] /\ q.seen = r.seen /\ q.left = r.left /\ q.user = r.user
                   /\ q.family = r.family /\ q.at \in {"open", "commit"}
      BY <2>1 DEF Request
    <2>3. QED
      BY <1>1, <2>1, <2>2 DEF SeenOK, InScopeOf, IsLive, T!Sees
  <1>10. CASE Commit(x) \/ DeadlockVictim(x) \/ Rollback(x)
    <2>1. request'[x].seen = {}
      BY <1>1, <1>10 DEF Commit, DeadlockVictim, Rollback, Abandon, Idle
    <2>2. QED
      BY <2>1, NothingSeen
  <1>11. QED
    BY <1>3, <1>4, <1>5, <1>6, <1>7, <1>8, <1>9, <1>10 DEF Step

LEMMA NextSeenOK ==
  ASSUME IInv, [Next]_vars, \A x \in Requests : SeenOK(x)
  PROVE  \A x \in Requests : SeenOK(x)'
  <1> SUFFICES ASSUME NEW x \in Requests
               PROVE  SeenOK(x)'
    OBVIOUS
  <1>1. CASE UNCHANGED vars \/ Tick
    BY <1>1, OthersSeenOK DEF vars, Tick
  <1>2. ASSUME NEW y \in Requests, Ask(y) \/ Step(y) \/ Rollback(y)
        PROVE  SeenOK(x)'
    <2>1. CASE y = x
      BY <1>2, <2>1, OwnSeenOK
    <2>2. CASE y # x
      BY <1>2, <2>2, OthersKeepTheirRows, OthersSeenOK
    <2>3. QED
      BY <2>1, <2>2
  <1>3. QED
    BY <1>1, <1>2 DEF Next

\* A revocation kills every session its snapshot saw, whatever the rotations and the other
\* revocations do to them while it waits for their rows.
THEOREM RevocationsReach == Spec => []RevocationReachesSeen
  <1>1. Init => \A x \in Requests : SeenOK(x)
    BY DEF Init, SeenOK, Idle
  <1>2. IInv /\ (\A x \in Requests : SeenOK(x)) /\ [Next]_vars => (\A x \in Requests : SeenOK(x))'
    BY NextSeenOK
  <1>3. (\A x \in Requests : SeenOK(x)) => RevocationReachesSeen
    BY DEF SeenOK, RevocationReachesSeen
  <1>4. QED
    BY <1>1, <1>2, <1>3, Invariance, PTL DEF Spec

-----------------------------------------------------------------------------
(* The rows one transaction writes *)

\* The request writes rows of its own account; the row it rotates is the only one it kills.
ScopeOK(x) ==
  LET r == request[x]
      Holds(t) == tokenHolder[t] = x
  IN /\ r.family # None => /\ r.family \in Tokens /\ token[r.family] # None
                           /\ token[r.family].user = r.user
     /\ \A t \in Tokens : Holds(t) => tokenDraft[t].user = r.user
     /\ r.at \in {"reread", "issue"} => \A t \in Tokens : Holds(t) => t = r.card
     /\ \A n, k, l \in Tokens :
          /\ Holds(n) /\ Holds(k) /\ Holds(l)
          /\ token[n] = None /\ tokenDraft[n].family # n /\ n \notin {k, l}
          => k = l

LEMMA InitScopeOK == Init => \A x \in Requests : ScopeOK(x)
  BY NoneAssumption DEF Init, ScopeOK, Idle

\* The committed version of a row stays while its lock is held.
LEMMA HeldRowsStay ==
  ASSUME IInv, [Next]_vars, NEW x \in Requests, NEW t \in Tokens,
         tokenHolder[t] = x, tokenHolder'[t] = x
  PROVE  token'[t] = token[t]
  <1>1. ASSUME NEW y \in Requests, Commit(y)
        PROVE  token'[t] = token[t]
    <2>1. y # x
      BY <1>1, NoneAssumption DEF Commit, T!Publish, T!Release
    <2>2. QED
      BY <1>1, <2>1 DEF Commit, T!Publish, T!Sees
  <1>2. QED
    BY <1>1, PublishedByCommit

\* The row a session is named after keeps its account.
LEMMA FamilyStays ==
  ASSUME IInv, [Next]_vars, NEW x \in Requests, ScopeOK(x), NEW f, NEW u,
         f = request[x].family, u = request[x].user, f # None
  PROVE  f \in Tokens /\ token'[f] # None /\ token'[f].user = u
  <1>1. f \in Tokens /\ token[f] # None /\ token[f].user = u
    BY DEF ScopeOK
  <1>2. QED
    BY <1>1, SessionStays DEF SameSession

\* What others do, and the steps that write no session.
LEMMA SameRowsScopeOK ==
  ASSUME IInv, [Next]_vars, NEW x \in Requests, ScopeOK(x),
         NEW r, NEW q, r = request[x], q = request'[x], q.user = r.user, q.family = r.family,
         q.at \in {"reread", "issue"} => r.at \in {"reread", "issue"} /\ q.card = r.card,
         \A t \in Tokens : /\ tokenHolder'[t] = x <=> tokenHolder[t] = x
                           /\ tokenHolder[t] = x => tokenDraft'[t] = tokenDraft[t]
  PROVE  ScopeOK(x)'
  <1>1. q.family # None => /\ q.family \in Tokens /\ token'[q.family] # None
                           /\ token'[q.family].user = q.user
    BY FamilyStays
  <1>2. \A t \in Tokens : tokenHolder'[t] = x =>
          /\ tokenHolder[t] = x
          /\ token'[t] = token[t]
          /\ tokenDraft'[t] = tokenDraft[t]
    BY HeldRowsStay
  <1>3. \A t \in Tokens : tokenHolder'[t] = x => tokenDraft'[t].user = q.user
    BY <1>2 DEF ScopeOK
  <1>4. q.at \in {"reread", "issue"} => \A t \in Tokens : tokenHolder'[t] = x => t = q.card
    BY <1>2 DEF ScopeOK
  <1>5. \A n, k, l \in Tokens :
          /\ tokenHolder'[n] = x /\ tokenHolder'[k] = x /\ tokenHolder'[l] = x
          /\ token'[n] = None /\ tokenDraft'[n].family # n /\ n \notin {k, l}
          => k = l
    BY <1>2 DEF ScopeOK
  <1>6. QED
    BY <1>1, <1>3, <1>4, <1>5 DEF ScopeOK

\* A request that holds no session.
LEMMA NoRowsScopeOK ==
  ASSUME NEW x \in Requests, \A t \in Tokens : tokenHolder'[t] # x,
         NEW q, q = request'[x],
         q.family # None => /\ q.family \in Tokens /\ token'[q.family] # None
                            /\ token'[q.family].user = q.user
  PROVE  ScopeOK(x)'
  BY DEF ScopeOK

LEMMA AskScopeOK ==
  ASSUME IInv, NEW x \in Requests, Ask(x)
  PROVE  ScopeOK(x)'
  <1>1. request \in [Requests -> Request] /\ token \in [Tokens -> TokenRow \cup {None}]
    BY DEF IInv, TypeOK, T!TableOK
  <1>2. ASSUME NEW q, Begin(x, q),
               q.family # None => /\ q.family \in Tokens /\ token[q.family] # None
                                  /\ token[q.family].user = q.user
        PROVE  ScopeOK(x)'
    <2>1. request'[x] = q /\ token' = token /\ tokenHolder' = tokenHolder
      BY <1>1, <1>2 DEF Begin
    <2>2. \A t \in Tokens : tokenHolder'[t] # x
      <3>1. request[x].at = "idle" /\ StageOK(x)
        BY <1>2 DEF Begin, Idle, IInv
      <3>2. QED
        BY <2>1, <3>1 DEF StageOK
    <2>3. QED
      BY <1>2, <2>1, <2>2, NoRowsScopeOK
  <1>3. ASSUME NEW q, Begin(x, q), q.family = None
        PROVE  ScopeOK(x)'
    BY <1>2, <1>3
  <1>4. ASSUME NEW u \in Users, NEW p \in Passwords, NEW b \in BOOLEAN, Authenticate(x, u, p, b)
        PROVE  ScopeOK(x)'
    BY <1>3, <1>4 DEF Authenticate, Idle
  <1>5. ASSUME NEW t \in Tokens, Refresh(x, t)
        PROVE  ScopeOK(x)'
    BY <1>3, <1>5 DEF Refresh, Idle
  <1>6. ASSUME NEW t \in Tokens, Logout(x, t)
        PROVE  ScopeOK(x)'
    <2> DEFINE q == [Idle EXCEPT !.op = "logout", !.user = token[t].user,
                                 !.family = token[t].family, !.reason = "logout",
                                 !.at = "revoke"]
    <2>1. Begin(x, q)
      BY <1>6 DEF Logout
    <2>2. q.user = token[t].user /\ q.family = token[t].family
      BY DEF Idle
    <2>3. /\ token[t].family \in Tokens /\ token[token[t].family] # None
          /\ token[token[t].family].user = token[t].user
      BY <1>1, <1>6 DEF Logout, IInv, ChainsIntact, TokenRow
    <2> HIDE DEF q
    <2>4. QED
      BY <1>2, <2>1, <2>2, <2>3
  <1>7. ASSUME NEW u \in Users, LogoutAll(x, u) \/ ChangeRole(x, u)
        PROVE  ScopeOK(x)'
    BY <1>3, <1>7 DEF LogoutAll, ChangeRole, Idle
  <1>8. ASSUME NEW u \in Users, NEW p \in Passwords, NEW q \in Passwords, ChangePassword(x, u, p, q)
        PROVE  ScopeOK(x)'
    BY <1>3, <1>8 DEF ChangePassword, Idle
  <1>9. ASSUME NEW u \in Users, NEW p \in Passwords,
               ConfirmPasswordReset(x, u, p) \/ ResetPassword(x, u, p)
        PROVE  ScopeOK(x)'
    BY <1>3, <1>9 DEF ConfirmPasswordReset, ResetPassword, Idle
  <1>10. ASSUME NEW u \in Users, NEW b \in BOOLEAN, SetActive(x, u, b)
         PROVE  ScopeOK(x)'
    BY <1>3, <1>10 DEF SetActive, Idle
  <1>11. QED
    BY <1>4, <1>5, <1>6, <1>7, <1>8, <1>9, <1>10 DEF Ask

\* The statements of the request itself.
LEMMA StepScopeOK ==
  ASSUME IInv, [Next]_vars, NEW x \in Requests, ScopeOK(x), Step(x) \/ Rollback(x)
  PROVE  ScopeOK(x)'
  <1> USE DEF Think, WriteTokens
  <1>1. PICK r \in Request : r = request[x] /\ request \in [Requests -> Request]
    BY DEF IInv, TypeOK
  <1>2. /\ token \in [Tokens -> TokenRow \cup {None}]
        /\ tokenDraft \in [Tokens -> TokenRow \cup {None}]
        /\ x # None
    BY NoneAssumption DEF IInv, TypeOK, T!TableOK
  <1>3. StageOK(x)
    BY DEF IInv
  <1>4. ASSUME NEW q, q = request'[x], q.user = r.user, q.family = r.family,
               q.at \in {"reread", "issue"} => r.at \in {"reread", "issue"} /\ q.card = r.card,
               UNCHANGED <<tokenDraft, tokenHolder>>
        PROVE  ScopeOK(x)'
    BY <1>1, <1>4, SameRowsScopeOK
  <1>5. CASE \/ RehashPassword(x) \/ TouchLastLogin(x) \/ UpdatePassword(x)
             \/ UpdateRole(x) \/ UpdateActive(x)
    <2>1. PICK next \in {"touch", "open", "revoke", "commit"} :
            /\ request' = [request EXCEPT ![x].at = next]
            /\ UNCHANGED <<tokenDraft, tokenHolder>>
      BY <1>5 DEF RehashPassword, TouchLastLogin, UpdatePassword, UpdateRole, UpdateActive,
                  UpdateAccount
    <2>2. PICK q : q = request'[x] /\ q.user = r.user /\ q.family = r.family /\ q.at = next
      BY <1>1, <2>1 DEF Request
    <2>3. QED
      BY <1>4, <2>1, <2>2
  <1>6. CASE OpenFamily(x)
    <2>1. PICK n \in Tokens :
            /\ tokenHolder[n] = None /\ token[n] = None /\ r.at = "open"
            /\ request'[x] = [r EXCEPT !.card = n, !.at = "commit"] /\ token' = token
            /\ tokenHolder'[n] = x
            /\ tokenDraft'[n] = [status |-> "live", user |-> r.user, family |-> n,
                                 expires |-> now + RefreshTtl, next |-> None]
            /\ \A t \in Tokens \ {n} : /\ tokenHolder'[t] = tokenHolder[t]
                                       /\ tokenDraft'[t] = tokenDraft[t]
      <3> DEFINE new(n) == [status |-> "live", user |-> r.user, family |-> n,
                            expires |-> now + RefreshTtl, next |-> None]
      <3>1. PICK n \in T!Unused :
              WriteTokens(x, [k \in {n} |-> new(n)], [r EXCEPT !.card = n, !.at = "commit"])
        BY <1>1, <1>6 DEF OpenFamily
      <3>2. n \in Tokens /\ tokenHolder[n] = None /\ token[n] = None
        BY DEF T!Unused
      <3>3. r.at = "open"
        BY <1>1, <1>6 DEF OpenFamily
      <3>4. tokenDraft'[n] = new(n)
        <4> HIDE DEF new
        <4>1. QED
          BY <3>1, <3>2 DEF T!Write
      <3>5. /\ request'[x] = [r EXCEPT !.card = n, !.at = "commit"] /\ token' = token
            /\ tokenHolder'[n] = x
            /\ \A t \in Tokens \ {n} : /\ tokenHolder'[t] = tokenHolder[t]
                                       /\ tokenDraft'[t] = tokenDraft[t]
        <4> HIDE DEF new
        <4>1. QED
          BY <1>1, <3>1, <3>2 DEF T!Write
      <3>6. QED
        BY <3>2, <3>3, <3>4, <3>5
    <2>2. PICK q : q = request'[x] /\ q.user = r.user /\ q.family = r.family /\ q.at = "commit"
      BY <1>1, <2>1 DEF Request
    <2>3. \A t \in Tokens : tokenHolder[t] = x => token[t] # None /\ tokenDraft[t].user = r.user
      BY <1>1, <2>1, HeldRows DEF IInv, ScopeOK
    <2>4. tokenDraft'[n].user = q.user /\ tokenDraft'[n].family = n
      BY <2>1, <2>2
    <2>5. \A t \in Tokens : tokenHolder'[t] = x => tokenDraft'[t].user = q.user
      BY <2>1, <2>2, <2>3, <2>4
    <2>6. q.family # None => /\ q.family \in Tokens /\ token'[q.family] # None
                             /\ token'[q.family].user = q.user
      BY <1>1, <2>1, <2>2 DEF ScopeOK
    <2>7. \A t \in Tokens : tokenHolder'[t] = x /\ token'[t] = None => tokenDraft'[t].family = t
      BY <2>1, <2>3, <2>4
    <2>8. QED
      BY <2>2, <2>5, <2>6, <2>7 DEF ScopeOK
  <1>7. CASE ClaimForRotation(x)
    <2>1. /\ r.at = "claim" /\ r.card \in Tokens /\ token[r.card] # None
          /\ \A t \in Tokens : tokenHolder[t] # x
      BY <1>1, <1>3, <1>7 DEF ClaimForRotation, StageOK
    <2> DEFINE c == r.card
               row == token[c]
    <2>2. T!Sees(x, c) = row /\ row \in TokenRow
      BY <1>2, <2>1 DEF T!Sees
    <2>3. CASE Claimable(row)
      <3>1. /\ request'[x] = [r EXCEPT !.user = row.user, !.family = row.family, !.at = "reread"]
            /\ token' = token
            /\ tokenDraft'[c] = [row EXCEPT !.status = "rotation"]
            /\ \A t \in Tokens : tokenHolder'[t] = x => t = c
        BY <1>1, <1>2, <1>7, <2>1, <2>2, <2>3 DEF ClaimForRotation, T!Write
      <3>2. PICK q : /\ q = request'[x] /\ q.user = row.user /\ q.family = row.family
                     /\ q.card = c
        <4> HIDE DEF row
        <4>1. request'[x] = [r EXCEPT !.user = row.user, !.family = row.family, !.at = "reread"]
          BY <3>1
        <4>2. QED
          BY <1>1, <4>1 DEF Request
      <3>3. tokenDraft'[c].user = q.user
        BY <2>2, <3>1, <3>2 DEF TokenRow
      <3>4. /\ q.family \in Tokens /\ token'[q.family] # None
            /\ token'[q.family].user = q.user
        BY <2>1, <2>2, <3>1, <3>2 DEF IInv, ChainsIntact, TokenRow
      <3>5. \A t \in Tokens : tokenHolder'[t] = x => t = c
        BY <3>1
      <3>6. \A t \in Tokens : tokenHolder'[t] = x => tokenDraft'[t].user = q.user
        BY <3>3, <3>5
      <3> HIDE DEF c, row
      <3>7. QED
        BY <3>2, <3>4, <3>5, <3>6 DEF ScopeOK
    <2>4. CASE ~Claimable(row)
      <3>1. /\ request'[x] = [r EXCEPT !.at = "inspect"]
            /\ UNCHANGED <<tokenDraft, tokenHolder>>
        BY <1>1, <1>7, <2>2, <2>4 DEF ClaimForRotation
      <3>2. PICK q : q = request'[x] /\ q.user = r.user /\ q.family = r.family /\ q.at = "inspect"
        BY <1>1, <3>1 DEF Request
      <3>3. QED
        BY <1>4, <3>1, <3>2
    <2>5. QED
      BY <2>3, <2>4
  <1>8. CASE InspectRefused(x)
    <2>1. /\ r.at = "inspect" /\ r.card \in Tokens /\ token[r.card] # None
          /\ \A t \in Tokens : tokenHolder[t] # x
      BY <1>1, <1>3, <1>8 DEF InspectRefused, StageOK
    <2> DEFINE row == token[r.card]
    <2>2. /\ row \in TokenRow /\ row.family \in Tokens /\ token[row.family] # None
          /\ token[row.family].user = row.user
      BY <1>2, <2>1 DEF IInv, ChainsIntact, TokenRow
    <2>3. /\ UNCHANGED <<token, tokenHolder>>
          /\ \/ request'[x] = Idle
             \/ request'[x] = [r EXCEPT !.user = row.user, !.family = row.family,
                                        !.reason = "reuse_detected", !.at = "revoke"]
      BY <1>1, <1>8 DEF InspectRefused
    <2>4. \/ request'[x].family = None
          \/ request'[x].family = row.family /\ request'[x].user = row.user
      <3> HIDE DEF row
      <3>1. CASE request'[x] = Idle
        BY <3>1 DEF Idle
      <3>2. CASE request'[x] = [r EXCEPT !.user = row.user, !.family = row.family,
                                         !.reason = "reuse_detected", !.at = "revoke"]
        BY <1>1, <3>2 DEF Request
      <3>3. QED
        BY <2>3, <3>1, <3>2
    <2> HIDE DEF row
    <2>5. QED
      BY <2>1, <2>2, <2>3, <2>4, NoRowsScopeOK
  <1>9. CASE RereadAccount(x)
    <2>1. PICK q : /\ q = request'[x] /\ q.user = r.user /\ q.family = r.family
                   /\ q.card = r.card /\ r.at = "reread"
      <3>1. /\ r.at = "reread"
            /\ \/ request'[x] = [r EXCEPT !.at = "issue"]
               \/ request'[x] = [r EXCEPT !.reason = "admin", !.at = "revoke"]
        BY <1>1, <1>9 DEF RereadAccount
      <3>2. QED
        BY <1>1, <3>1 DEF Request
    <2>2. QED
      BY <1>4, <1>9, <2>1 DEF RereadAccount
  <1>10. CASE IssueSuccessor(x)
    <2>1. /\ r.at = "issue" /\ r.card \in Tokens /\ tokenHolder[r.card] = x
          /\ token[r.card] # None
          /\ tokenDraft[r.card] = [token[r.card] EXCEPT !.status = "rotation"]
          /\ \A t \in Tokens : tokenHolder[t] = x => t = r.card
      BY <1>1, <1>3, <1>10 DEF IssueSuccessor, StageOK, ScopeOK
    <2> DEFINE c == r.card
               old == tokenDraft[c]
    <2>2. old \in TokenRow /\ old.user = r.user /\ T!Sees(x, c) = old
      <3>1. token[c] \in TokenRow
        BY <1>2, <2>1
      <3>2. old \in TokenRow
        BY <2>1, <3>1 DEF TokenRow, Reasons
      <3>3. QED
        BY <1>1, <2>1, <3>2 DEF ScopeOK, T!Sees
    <2>3. PICK n \in Tokens :
            /\ tokenHolder[n] = None /\ token[n] = None
            /\ request'[x] = [r EXCEPT !.card = n, !.at = "commit"] /\ token' = token
            /\ tokenDraft'[n] = [old EXCEPT !.status = "live", !.next = None]
            /\ tokenDraft'[c] = [old EXCEPT !.next = n]
            /\ \A t \in Tokens \ {n, c} : tokenHolder'[t] = tokenHolder[t]
      <3> HIDE DEF c, old
      <3>1. PICK n \in T!Unused :
              WriteTokens(x, [k \in {n, c} |->
                                IF k = n THEN [old EXCEPT !.status = "live", !.next = None]
                                         ELSE [old EXCEPT !.next = n]],
                          [r EXCEPT !.card = n, !.at = "commit"])
        BY <1>1, <1>10, <2>2 DEF IssueSuccessor, c
      <3>2. n \in Tokens /\ tokenHolder[n] = None /\ token[n] = None /\ n # c /\ c \in Tokens
        BY <2>1, <3>1 DEF T!Unused, c
      <3>3. QED
        BY <1>1, <3>1, <3>2 DEF T!Write
    <2>4. PICK q : q = request'[x] /\ q.user = r.user /\ q.family = r.family /\ q.at = "commit"
      <3>1. request'[x] = [r EXCEPT !.card = n, !.at = "commit"]
        BY <2>3
      <3>2. QED
        BY <1>1, <3>1 DEF Request
    <2>5. tokenDraft'[n].user = q.user /\ tokenDraft'[c].user = q.user
      BY <2>2, <2>3, <2>4 DEF TokenRow
    <2>6. \A t \in Tokens : tokenHolder'[t] = x => t \in {n, c}
      BY <2>1, <2>3
    <2>7. q.family # None => /\ q.family \in Tokens /\ token'[q.family] # None
                             /\ token'[q.family].user = q.user
      BY <1>1, <2>3, <2>4 DEF ScopeOK
    <2>8. token'[c] # None
      BY <2>1, <2>3
    <2> HIDE DEF c, old
    <2>9. \A t \in Tokens : tokenHolder'[t] = x => tokenDraft'[t].user = q.user
      BY <2>5, <2>6
    <2>10. \A m, k, l \in Tokens :
             /\ tokenHolder'[m] = x /\ tokenHolder'[k] = x /\ tokenHolder'[l] = x
             /\ token'[m] = None /\ m \notin {k, l}
             => k = l
      BY <2>6, <2>8
    <2>11. QED
      BY <2>4, <2>7, <2>9, <2>10 DEF ScopeOK
  <1>11. CASE BeginRevocation(x)
    <2>1. PICK rows : request'[x] = [r EXCEPT !.seen = rows, !.left = rows, !.at = "sweep"]
      BY <1>1, <1>11 DEF BeginRevocation
    <2>2. PICK q : q = request'[x] /\ q.user = r.user /\ q.family = r.family /\ q.at = "sweep"
      BY <1>1, <2>1 DEF Request
    <2>3. QED
      BY <1>4, <1>11, <2>2 DEF BeginRevocation
  <1>12. CASE RevokeRow(x)
    <2>1. PICK t \in Tokens :
            /\ T!Free(x, t) /\ r.at = "sweep" /\ token' = token
            /\ request'[x] = [r EXCEPT !.left = r.left \ {t}]
            /\ \A k \in Tokens \ {t} : /\ tokenHolder'[k] = tokenHolder[k]
                                       /\ tokenDraft'[k] = tokenDraft[k]
            /\ IF InScope(r, T!Sees(x, t))
               THEN tokenHolder'[t] = x /\ tokenDraft'[t] = [T!Sees(x, t) EXCEPT !.status = r.reason]
               ELSE tokenHolder'[t] = tokenHolder[t] /\ tokenDraft'[t] = tokenDraft[t]
      BY <1>1, <1>12 DEF RevokeRow, T!Write, Request
    <2>2. PICK q : /\ q = request'[x] /\ q.user = r.user /\ q.family = r.family /\ q.at = "sweep"
      <3>1. PICK rest : request'[x] = [r EXCEPT !.left = rest] /\ r.at = "sweep"
        BY <2>1
      <3>2. QED
        BY <1>1, <3>1 DEF Request
    <2>3. CASE ~InScope(r, T!Sees(x, t))
      <3>1. \A k \in Tokens : /\ tokenHolder'[k] = tokenHolder[k]
                              /\ tokenDraft'[k] = tokenDraft[k]
        BY <2>1, <2>3
      <3>2. q.at \notin {"reread", "issue"}
        BY <2>2
      <3>3. QED
        BY <1>1, <2>2, <3>1, <3>2, SameRowsScopeOK
    <2>4. CASE InScope(r, T!Sees(x, t))
      <3>1. \A k \in Tokens : tokenHolder[k] = x => token[k] # None /\ tokenDraft[k].user = r.user
        BY <1>1, <2>1, HeldRows DEF IInv, ScopeOK
      <3>2. tokenHolder[t] # x
        BY <1>1, <2>1, <2>4, HeldRows DEF IInv, T!Sees, InScope
      <3>3. /\ T!Sees(x, t) = token[t] /\ token[t] # None
            /\ IF r.family = None THEN token[t].user = r.user ELSE token[t].family = r.family
        BY <2>4, <3>2 DEF T!Sees, InScope, IsLive
      <3>4. token[t] \in TokenRow
        BY <1>2, <3>3
      <3>5. token[t].user = r.user
        BY <1>1, <3>3 DEF ScopeOK, IInv, ChainsIntact
      <3>6. tokenDraft'[t].user = q.user
        BY <2>1, <2>2, <2>4, <3>3, <3>4, <3>5 DEF TokenRow
      <3>7. \A k \in Tokens : tokenHolder'[k] = x => token'[k] # None /\ tokenDraft'[k].user = q.user
        BY <2>1, <2>2, <3>1, <3>3, <3>6
      <3>8. q.family # None => /\ q.family \in Tokens /\ token'[q.family] # None
                               /\ token'[q.family].user = q.user
        BY <1>1, <2>1, <2>2 DEF ScopeOK
      <3>9. QED
        BY <2>2, <3>7, <3>8 DEF ScopeOK
    <2>5. QED
      BY <2>3, <2>4
  <1>13. CASE EndRevocation(x)
    <2>1. PICK q : /\ q = request'[x] /\ q.user = r.user /\ q.family = r.family
                   /\ q.at \in {"open", "commit"}
      BY <1>1, <1>13 DEF EndRevocation, Request
    <2>2. QED
      BY <1>4, <1>13, <2>1 DEF EndRevocation
  <1>14. CASE Commit(x) \/ DeadlockVictim(x) \/ Rollback(x)
    <2>1. request'[x] = Idle /\ T!Release(x)
      BY <1>1, <1>14 DEF Commit, DeadlockVictim, Rollback, Abandon, T!Publish, T!Discard
    <2>2. \A t \in Tokens : tokenHolder'[t] # x
      BY <1>2, <2>1 DEF T!Release
    <2>3. request'[x].family = None
      BY <2>1 DEF Idle
    <2>4. QED
      BY <2>2, <2>3, NoRowsScopeOK
  <1>15. QED
    BY <1>5, <1>6, <1>7, <1>8, <1>9, <1>10, <1>11, <1>12, <1>13, <1>14 DEF Step

LEMMA NextScopeOK ==
  ASSUME IInv, [Next]_vars, \A x \in Requests : ScopeOK(x)
  PROVE  \A x \in Requests : ScopeOK(x)'
  <1> SUFFICES ASSUME NEW x \in Requests
               PROVE  ScopeOK(x)'
    OBVIOUS
  <1>1. CASE UNCHANGED vars \/ Tick
    BY <1>1, SameRowsScopeOK DEF vars, Tick
  <1>2. ASSUME NEW y \in Requests, Ask(y) \/ Step(y) \/ Rollback(y)
        PROVE  ScopeOK(x)'
    <2>1. CASE y = x
      BY <1>2, <2>1, AskScopeOK, StepScopeOK
    <2>2. CASE y # x
      BY <1>2, <2>2, OthersKeepTheirRows, SameRowsScopeOK
    <2>3. QED
      BY <2>1, <2>2
  <1>3. QED
    BY <1>1, <1>2 DEF Next

LEMMA ScopeInvariance == Spec => []\A x \in Requests : ScopeOK(x)
  <1>1. IInv /\ (\A x \in Requests : ScopeOK(x)) /\ [Next]_vars => (\A x \in Requests : ScopeOK(x))'
    BY NextScopeOK
  <1>2. QED
    BY <1>1, InitScopeOK, Invariance, PTL DEF Spec

-----------------------------------------------------------------------------
(* Refinement of SessionLife *)

\* The rows a COMMIT publishes.
LEMMA Published ==
  ASSUME IInv, NEW x \in Requests, Commit(x), NEW k \in Tokens
  PROVE  /\ tokenHolder[k] # x => token'[k] = token[k]
         /\ tokenHolder[k] = x => token'[k] = tokenDraft[k] /\ token'[k] \in TokenRow
         /\ tokenHolder[k] = x /\ token[k] # None =>
              IsLive(token[k]) /\ ~IsLive(token'[k]) /\ SameSession(token'[k], token[k])
         /\ tokenHolder[k] = x /\ token[k] = None => k = request[x].card /\ IsLive(token'[k])
  <1>1. token'[k] = IF tokenHolder[k] = x THEN tokenDraft[k] ELSE token[k]
    BY DEF Commit, T!Publish, T!Sees
  <1>2. tokenHolder[k] = x => HeldRowOK(k) /\ tokenDraft[k] \in TokenRow
    BY NoneAssumption DEF IInv, TypeOK, T!TableOK, DraftsOK
  <1>3. QED
    BY <1>1, <1>2 DEF HeldRowOK

\* All the members of a session have one account and one deadline, and no two are usable.
LEMMA OneSession ==
  ASSUME IInv, NEW s \in Tokens, NEW t \in Tokens, token[s] # None, token[t] # None,
         token[s].family = token[t].family
  PROVE  /\ token[s].user = token[t].user /\ token[s].expires = token[t].expires
         /\ IsLive(token[s]) /\ IsLive(token[t]) => s = t
  <1>1. token[s].user = token[t].user /\ token[s].expires = token[t].expires
    BY DEF IInv, ChainsIntact
  <1>2. IsLive(token[s]) /\ IsLive(token[t]) => s = t
    BY DEF IInv, LiveFamilyHistory, IsLive
  <1>3. QED
    BY <1>1, <1>2

\* The members of session f after a COMMIT, and what it makes of each of them.
LEMMA MembersAfter ==
  ASSUME IInv, NEW x \in Requests, Commit(x), NEW f \in Tokens
  PROVE  \A k \in Tokens :
           /\ k \in Members(f)' <=> \/ k \in Members(f)
                                    \/ tokenHolder[k] = x /\ token[k] = None /\ token'[k].family = f
           /\ k \in Members(f) => SameSession(token'[k], token[k])
           /\ k \in Members(f) /\ tokenHolder[k] # x => token'[k] = token[k]
           /\ k \in Members(f) /\ tokenHolder[k] = x => k \in Usable(f) /\ k \notin Usable(f)'
  <1> TAKE k \in Tokens
  <1>1. CASE tokenHolder[k] # x
    <2>1. token'[k] = token[k]
      BY <1>1, Published
    <2>2. QED
      BY <1>1, <2>1 DEF Members, SameSession
  <1>2. CASE tokenHolder[k] = x /\ token[k] # None
    <2>1. token'[k] # None /\ IsLive(token[k]) /\ ~IsLive(token'[k])
          /\ SameSession(token'[k], token[k])
      BY <1>2, Published, NoneAssumption
    <2>2. QED
      BY <1>2, <2>1 DEF Members, Usable, SameSession
  <1>3. CASE tokenHolder[k] = x /\ token[k] = None
    <2>1. token'[k] # None
      BY <1>3, Published, NoneAssumption
    <2>2. QED
      BY <1>3, <2>1 DEF Members
  <1>4. QED
    BY <1>1, <1>2, <1>3

\* A session of which the transaction writes no row.
LEMMA UntouchedSession ==
  ASSUME IInv, NEW x \in Requests, Commit(x), NEW f \in Tokens,
         \A k \in Tokens : tokenHolder[k] = x => token'[k].family # f
  PROVE  SessionOf(f)' = SessionOf(f)
  <1>1. Members(f)' = Members(f) /\ \A k \in Members(f) : token'[k] = token[k]
    <2>1. \A k \in Members(f) : k \in Tokens /\ token[k].family = f
      BY DEF Members
    <2>2. \A k \in Members(f)' : k \in Tokens
      BY DEF Members
    <2>3. QED
      BY <2>1, <2>2, MembersAfter DEF SameSession
  <1>2. Usable(f)' = Usable(f)
    BY <1>1 DEF Usable, IsLive
  <1>3. PICK M : M = Members(f)
    OBVIOUS
  <1>4. QED
    BY <1>1, <1>2 DEF SessionOf

\* Session f after its usable secret has met its fate.
LEMMA SpentSession ==
  ASSUME NEW f \in Tokens, NEW fate, NEW next
  PROVE  Sessions!Spend(SessionOf(f), fate, next) =
           [owners |-> {token[t].user : t \in Members(f)},
            deadlines |-> {token[t].expires : t \in Members(f)},
            usable |-> next,
            spent |-> [t \in Members(f) |-> IF t \in Usable(f) THEN fate ELSE token[t].status]]
  <1> DEFINE M == Members(f)
             U == Usable(f)
             sp == [t \in M \ U |-> token[t].status]
             O == {token[t].user : t \in M}
             D == {token[t].expires : t \in M}
  <1>1. U \subseteq M /\ U \cup (M \ U) = M
    BY DEF Usable
  <1>2. DOMAIN sp = M \ U /\ \A t \in M \ U : sp[t] = token[t].status
    OBVIOUS
  <1>3. [t \in U \cup DOMAIN sp |-> IF t \in U THEN fate ELSE sp[t]]
          = [t \in M |-> IF t \in U THEN fate ELSE token[t].status]
    <2> HIDE DEF M, U, sp
    <2>1. QED
      BY <1>1, <1>2
  <1>4. /\ SessionOf(f).usable = U /\ SessionOf(f).spent = sp
        /\ SessionOf(f).owners = O /\ SessionOf(f).deadlines = D
    BY DEF SessionOf
  <1> HIDE DEF M, U, sp, O, D
  <1>5. Sessions!Spend(SessionOf(f), fate, next) =
          [owners |-> O, deadlines |-> D, usable |-> next,
           spent |-> [t \in U \cup DOMAIN sp |-> IF t \in U THEN fate ELSE sp[t]]]
    <2>1. PICK s : /\ s = SessionOf(f) /\ s.usable = U /\ s.spent = sp
                   /\ s.owners = O /\ s.deadlines = D
      BY <1>4
    <2>2. PICK V, q : V = s.usable /\ q = s.spent
      OBVIOUS
    <2>3. Sessions!Spend(s, fate, next) =
            [owners |-> s.owners, deadlines |-> s.deadlines, usable |-> next,
             spent |-> [t \in V \cup DOMAIN q |-> IF t \in V THEN fate ELSE q[t]]]
      BY <2>2 DEF Sessions!Spend
    <2>4. V = U /\ q = sp
      BY <2>1, <2>2
    <2>5. QED
      BY <2>1, <2>3, <2>4
  <1>6. QED
    BY <1>3, <1>5 DEF M, U, O, D

\* A session of which the transaction kills the usable secret.
LEMMA ClosedSession ==
  ASSUME IInv, NEW x \in Requests, Commit(x), NEW k \in Tokens, NEW f,
         tokenHolder[k] = x, token[k] # None, f = token[k].family,
         \A n \in Tokens : tokenHolder[n] = x /\ token[n] = None => token'[n].family # f
  PROVE  /\ f \in Tokens /\ Usable(f) = {k}
         /\ SessionOf(f)' = Sessions!Spend(SessionOf(f), token'[k].status, {})
  <1>1. f \in Tokens /\ k \in Members(f) /\ k \in Usable(f)
    <2>1. token[k] \in TokenRow
      BY DEF IInv, TypeOK, T!TableOK
    <2>2. QED
      BY <2>1, Published DEF Members, Usable, TokenRow
  <1>2. \A t \in Usable(f) : t = k
    BY <1>1, OneSession DEF Usable, Members
  <1>3. Members(f)' = Members(f)
    <2>1. Members(f) \subseteq Tokens /\ Members(f)' \subseteq Tokens
      BY DEF Members
    <2>2. \A t \in Tokens : t \in Members(f)' <=> t \in Members(f)
      BY <1>1, MembersAfter
    <2>3. QED
      BY <2>1, <2>2
  <1>4. \A t \in Members(f) : /\ t \in Tokens
                              /\ SameSession(token'[t], token[t])
                              /\ t # k => token'[t] = token[t] /\ t \notin Usable(f)
    <2>1. \A t \in Members(f) : t \in Tokens
      BY DEF Members
    <2>2. QED
      BY <1>1, <1>2, <2>1, MembersAfter
  <1>5. Usable(f)' = {}
    <2>1. \A t \in Members(f) : ~IsLive(token'[t])
      BY <1>1, <1>4, Published DEF Usable
    <2>2. QED
      BY <1>3, <2>1 DEF Usable, IsLive
  <1> PICK M : M = Members(f)
    OBVIOUS
  <1>6. {token'[t].user : t \in M} = {token[t].user : t \in M}
    BY <1>4 DEF SameSession
  <1>7. {token'[t].expires : t \in M} = {token[t].expires : t \in M}
    BY <1>4 DEF SameSession
  <1>8. [t \in M |-> token'[t].status]
          = [t \in M |-> IF t \in Usable(f) THEN token'[k].status ELSE token[t].status]
    BY <1>1, <1>2, <1>4
  <1>9. SessionOf(f)' = [owners |-> {token'[t].user : t \in M},
                         deadlines |-> {token'[t].expires : t \in M},
                         usable |-> {}, spent |-> [t \in M |-> token'[t].status]]
    <2>1. M \ {} = M
      OBVIOUS
    <2>2. QED
      BY <1>3, <1>5, <2>1 DEF SessionOf
  <1>10. Sessions!Spend(SessionOf(f), token'[k].status, {}) =
           [owners |-> {token[t].user : t \in M}, deadlines |-> {token[t].expires : t \in M},
            usable |-> {},
            spent |-> [t \in M |-> IF t \in Usable(f) THEN token'[k].status ELSE token[t].status]]
    BY <1>1, SpentSession
  <1>11. SessionOf(f)' = Sessions!Spend(SessionOf(f), token'[k].status, {})
    BY <1>6, <1>7, <1>8, <1>9, <1>10
  <1>12. QED
    BY <1>1, <1>2, <1>11

\* A session of which the transaction rotates the usable secret.
LEMMA RenewedSession ==
  ASSUME IInv, NEW x \in Requests, Commit(x), NEW k \in Tokens, NEW n \in Tokens, NEW f,
         tokenHolder[k] = x, token[k] # None, f = token[k].family,
         tokenHolder[n] = x, token[n] = None, SameSession(token'[n], token[k]),
         token'[k].status = "rotation"
  PROVE  /\ f \in Tokens /\ Usable(f) = {k}
         /\ SessionOf(f)' = Sessions!Spend(SessionOf(f), "rotation", {n})
  <1>1. f \in Tokens /\ k \in Members(f) /\ k \in Usable(f)
    <2>1. token[k] \in TokenRow
      BY DEF IInv, TypeOK, T!TableOK
    <2>2. QED
      BY <2>1, Published DEF Members, Usable, TokenRow
  <1>2. \A t \in Usable(f) : t = k
    BY <1>1, OneSession DEF Usable, Members
  <1>3. Members(f)' = Members(f) \cup {n} /\ n \notin Members(f)
    <2>1. Members(f) \subseteq Tokens /\ Members(f)' \subseteq Tokens
      BY DEF Members
    <2>2. \A t \in Tokens : tokenHolder[t] = x /\ token[t] = None => t = n
      BY Published
    <2>3. n \notin Members(f)
      BY DEF Members
    <2>4. token'[n].family = f
      BY DEF SameSession
    <2>5. QED
      BY <1>1, <2>1, <2>2, <2>3, <2>4, MembersAfter
  <1>4. \A t \in Members(f) : /\ t \in Tokens
                              /\ SameSession(token'[t], token[t])
                              /\ t # k => token'[t] = token[t] /\ t \notin Usable(f)
    <2>1. \A t \in Members(f) : t \in Tokens
      BY DEF Members
    <2>2. QED
      BY <1>1, <1>2, <2>1, MembersAfter
  <1>5. Usable(f)' = {n}
    <2>1. \A t \in Members(f) : ~IsLive(token'[t])
      BY <1>1, <1>4, Published DEF Usable
    <2>2. IsLive(token'[n])
      BY Published
    <2>3. QED
      BY <1>3, <2>1, <2>2 DEF Usable, IsLive
  <1> PICK M : M = Members(f)
    OBVIOUS
  <1>6. {token'[t].user : t \in M \cup {n}} = {token[t].user : t \in M}
    BY <1>1, <1>4 DEF SameSession
  <1>7. {token'[t].expires : t \in M \cup {n}} = {token[t].expires : t \in M}
    BY <1>1, <1>4 DEF SameSession
  <1>8. [t \in M |-> token'[t].status]
          = [t \in M |-> IF t \in Usable(f) THEN "rotation" ELSE token[t].status]
    BY <1>1, <1>2, <1>4
  <1>9. SessionOf(f)' = [owners |-> {token'[t].user : t \in M \cup {n}},
                         deadlines |-> {token'[t].expires : t \in M \cup {n}},
                         usable |-> {n}, spent |-> [t \in M |-> token'[t].status]]
    <2>1. (M \cup {n}) \ {n} = M
      BY <1>3
    <2>2. QED
      BY <1>3, <1>5, <2>1 DEF SessionOf
  <1>10. Sessions!Spend(SessionOf(f), "rotation", {n}) =
           [owners |-> {token[t].user : t \in M}, deadlines |-> {token[t].expires : t \in M},
            usable |-> {n},
            spent |-> [t \in M |-> IF t \in Usable(f) THEN "rotation" ELSE token[t].status]]
    BY <1>1, SpentSession
  <1>11. SessionOf(f)' = Sessions!Spend(SessionOf(f), "rotation", {n})
    BY <1>6, <1>7, <1>8, <1>9, <1>10
  <1>12. QED
    BY <1>1, <1>2, <1>11

\* A session the transaction opens.
LEMMA OpenedSession ==
  ASSUME IInv, NEW x \in Requests, Commit(x), NEW n \in Tokens,
         tokenHolder[n] = x, token[n] = None, token'[n].family = n
  PROVE  /\ Members(n) = {} /\ Members(n)' = {n} /\ Usable(n)' = {n}
  <1>1. \A t \in Tokens : token[t] # None => token[t].family # n
    BY DEF IInv, ChainsIntact
  <1>2. Members(n) = {}
    BY <1>1 DEF Members
  <1>3. \A t \in Tokens : tokenHolder[t] = x /\ token[t] = None => t = n
    BY Published
  <1>4. Members(n)' = {n}
    <2>1. Members(n)' \subseteq Tokens
      BY DEF Members
    <2>2. QED
      BY <1>2, <1>3, <2>1, MembersAfter
  <1>5. IsLive(token'[n])
    BY Published
  <1>6. QED
    BY <1>2, <1>4, <1>5 DEF Usable, IsLive

\* A secret that no row holds is fresh.
LEMMA FreshSecret ==
  ASSUME NEW n \in Tokens, token[n] = None
  PROVE  n \in Sessions!Fresh
  <1>1. ASSUME NEW f \in Tokens
        PROVE  n \notin SessionOf(f).usable /\ n \notin DOMAIN SessionOf(f).spent
    BY DEF SessionOf, Members, Usable
  <1>2. QED
    BY <1>1 DEF Sessions!Fresh

\* The account of a session is that of any of its rows.
LEMMA OwnerOf ==
  ASSUME IInv, NEW f \in Tokens, NEW k \in Members(f)
  PROVE  SessionOf(f).owners = {token[k].user}
  <1>1. \A t \in Members(f) : token[t].user = token[k].user
    BY OneSession DEF Members
  <1>2. SessionOf(f).owners = {token[t].user : t \in Members(f)}
    BY DEF SessionOf
  <1>3. QED
    BY <1>1, <1>2

\* The steps of SessionLife, said of the sessions of the table.
LEMMA KeepsSession ==
  ASSUME NEW f \in Tokens, SessionOf(f)' = SessionOf(f)
  PROVE  Sessions!Keeps(f)
  BY DEF Sessions!Keeps

LEMMA ClosesSession ==
  ASSUME NEW f \in Tokens, NEW u, NEW fate \in Reasons,
         SessionOf(f).owners = {u}, Usable(f) # {},
         SessionOf(f)' = Sessions!Spend(SessionOf(f), fate, {})
  PROVE  Sessions!Closes(f, u)
  <1>1. SessionOf(f).usable = Usable(f)
    BY DEF SessionOf
  <1>2. QED
    BY <1>1 DEF Sessions!Closes, Sessions!Opened

LEMMA RenewsSession ==
  ASSUME NEW f \in Tokens, NEW u, NEW t \in Sessions!Fresh,
         SessionOf(f).owners = {u}, Usable(f) # {},
         SessionOf(f)' = Sessions!Spend(SessionOf(f), "rotation", {t})
  PROVE  Sessions!Renews(f)
  <1>1. SessionOf(f).usable = Usable(f)
    BY DEF SessionOf
  <1>2. QED
    BY <1>1 DEF Sessions!Renews, Sessions!Opened

\* A session in which the transaction inserts nothing is kept or closed.
LEMMA KeepsOrCloses ==
  ASSUME IInv, NEW x \in Requests, ScopeOK(x), Commit(x), NEW f \in Tokens,
         NEW u, u = request[x].user,
         \A n \in Tokens : tokenHolder[n] = x /\ token[n] = None => token'[n].family # f
  PROVE  Sessions!Keeps(f) \/ Sessions!Closes(f, u)
  <1>1. CASE \A k \in Tokens : tokenHolder[k] = x => token'[k].family # f
    BY <1>1, UntouchedSession, KeepsSession
  <1>2. ASSUME NEW k \in Tokens, tokenHolder[k] = x, token'[k].family = f
        PROVE  Sessions!Closes(f, u)
    <2>1. /\ token[k] # None /\ IsLive(token[k]) /\ ~IsLive(token'[k])
          /\ SameSession(token'[k], token[k])
          /\ token'[k] = tokenDraft[k] /\ token'[k] \in TokenRow
      BY <1>2, Published
    <2>2. f = token[k].family /\ token[k].user = u
      BY <1>2, <2>1 DEF SameSession, ScopeOK
    <2>3. k \in Members(f)
      BY <2>1, <2>2 DEF Members
    <2>4. SessionOf(f).owners = {u}
      BY <2>2, <2>3, OwnerOf
    <2>5. token'[k].status \in Reasons
      BY <2>1, NoneAssumption DEF IsLive, TokenRow
    <2>6. /\ Usable(f) = {k}
          /\ SessionOf(f)' = Sessions!Spend(SessionOf(f), token'[k].status, {})
      BY <1>2, <2>1, <2>2, ClosedSession
    <2>7. QED
      BY <2>4, <2>5, <2>6, ClosesSession
  <1>3. QED
    BY <1>1, <1>2

\* A COMMIT that opens a session.
LEMMA OpenStep ==
  ASSUME IInv, NEW x \in Requests, ScopeOK(x), Commit(x), NEW n \in Tokens,
         tokenHolder[n] = x, token[n] = None, token'[n].family = n
  PROVE  \E u \in Users : Sessions!Open(u, n)
  <1> DEFINE u == request[x].user
  <1>1. token'[n] \in TokenRow /\ token'[n] = tokenDraft[n]
    BY Published
  <1>2. token'[n].user = u /\ u \in Users
    BY <1>1 DEF ScopeOK, TokenRow
  <1>3. Members(n) = {} /\ Members(n)' = {n} /\ Usable(n)' = {n}
    BY OpenedSession
  <1>4. SessionOf(n).owners = {}
    BY <1>3 DEF SessionOf
  <1>5. /\ SessionOf(n)'.owners = {token'[n].user}
        /\ SessionOf(n)'.deadlines = {token'[n].expires}
        /\ SessionOf(n)'.usable = {n}
        /\ DOMAIN SessionOf(n)'.spent = {}
    BY <1>3 DEF SessionOf
  <1>6. n \in Sessions!Fresh \ Sessions!Opened
    BY <1>4, FreshSecret DEF Sessions!Opened
  <1> HIDE DEF u
  <1>7. Sessions!Opens(n, u)
    BY <1>2, <1>5, <1>6 DEF Sessions!Opens
  <1>8. ASSUME NEW g \in Tokens \ {n}
        PROVE  Sessions!Keeps(g) \/ Sessions!Closes(g, u)
    <2>1. \A m \in Tokens : tokenHolder[m] = x /\ token[m] = None => token'[m].family # g
      BY Published
    <2>2. QED
      BY <2>1, KeepsOrCloses DEF u
  <1>9. QED
    BY <1>2, <1>7, <1>8 DEF Sessions!Open

\* A COMMIT that rotates a session.
LEMMA RenewStep ==
  ASSUME IInv, NEW x \in Requests, ScopeOK(x), Commit(x), NEW n \in Tokens,
         tokenHolder[n] = x, token[n] = None, token'[n].family # n
  PROVE  \E f \in Tokens : Sessions!Renew(f)
  <1>1. PICK c : c = request[x].card
    OBVIOUS
  <1>2. n = c /\ token'[n] = tokenDraft[n]
    BY <1>1, Published
  <1>3. PICK p \in Tokens : tokenHolder[p] = x /\ token[p] # None /\ token'[p].next = n
    BY <1>1, Committed
  <1>4. n # None
    BY NoneAssumption
  <1>5. token'[p].status = "rotation" /\ SameSession(token'[n], token[p])
    BY <1>1, <1>2, <1>3, <1>4, Committed
  <1> PICK f : f = token[p].family
    OBVIOUS
  <1>6. /\ f \in Tokens /\ Usable(f) = {p}
        /\ SessionOf(f)' = Sessions!Spend(SessionOf(f), "rotation", {n})
    BY <1>3, <1>5, RenewedSession
  <1>7. SessionOf(f).owners = {token[p].user}
    <2>1. p \in Members(f)
      BY <1>3 DEF Members
    <2>2. QED
      BY <1>6, <2>1, OwnerOf
  <1>8. Sessions!Renews(f)
    BY <1>6, <1>7, FreshSecret, RenewsSession
  <1>9. ASSUME NEW g \in Tokens \ {f}
        PROVE  Sessions!Keeps(g)
    <2>1. ASSUME NEW k \in Tokens, tokenHolder[k] = x
          PROVE  k \in {n, p}
      BY <1>2, <1>3, <2>1 DEF ScopeOK
    <2>2. token'[n].family = f /\ token'[p].family = f
      BY <1>3, <1>5, Published DEF SameSession
    <2>3. \A k \in Tokens : tokenHolder[k] = x => token'[k].family # g
      BY <2>1, <2>2
    <2>4. QED
      BY <2>3, UntouchedSession, KeepsSession
  <1>10. QED
    BY <1>6, <1>8, <1>9 DEF Sessions!Renew

\* A COMMIT that inserts no row.
LEMMA CloseStep ==
  ASSUME IInv, NEW x \in Requests, ScopeOK(x), Commit(x),
         \A n \in Tokens : tokenHolder[n] = x => token[n] # None
  PROVE  \/ \E u \in Users : Sessions!Close(u)
         \/ \A f \in Tokens : SessionOf(f)' = SessionOf(f)
  <1>1. CASE \A k \in Tokens : tokenHolder[k] # x
    BY <1>1, UntouchedSession
  <1>2. ASSUME NEW k \in Tokens, tokenHolder[k] = x
        PROVE  \E u \in Users : Sessions!Close(u)
    <2> DEFINE u == request[x].user
    <2>1. u \in Users
      BY <1>2, Published DEF ScopeOK, TokenRow
    <2>2. \A f \in Tokens : Sessions!Keeps(f) \/ Sessions!Closes(f, u)
      BY KeepsOrCloses
    <2> HIDE DEF u
    <2>3. QED
      BY <2>1, <2>2 DEF Sessions!Close
  <1>3. QED
    BY <1>1, <1>2

LEMMA CommitSession ==
  ASSUME IInv, NEW x \in Requests, ScopeOK(x), Commit(x)
  PROVE  [Sessions!Next]_[f \in Tokens |-> SessionOf(f)]
  <1> DEFINE S == [f \in Tokens |-> SessionOf(f)]
  <1>1. S' = [f \in Tokens |-> S'[f]]
    OBVIOUS
  <1>2. CASE \E n \in Tokens : tokenHolder[n] = x /\ token[n] = None
    <2>1. PICK n \in Tokens : tokenHolder[n] = x /\ token[n] = None
      BY <1>2
    <2>2. CASE token'[n].family = n
      BY <1>1, <2>1, <2>2, OpenStep DEF Sessions!Next
    <2>3. CASE token'[n].family # n
      BY <1>1, <2>1, <2>3, RenewStep DEF Sessions!Next
    <2>4. QED
      BY <2>2, <2>3
  <1>3. CASE \A n \in Tokens : tokenHolder[n] = x => token[n] # None
    <2>1. CASE \E u \in Users : Sessions!Close(u)
      BY <1>1, <2>1 DEF Sessions!Next
    <2>2. CASE \A f \in Tokens : SessionOf(f)' = SessionOf(f)
      BY <2>2
    <2>3. QED
      BY <1>3, <2>1, <2>2, CloseStep
  <1>4. QED
    BY <1>2, <1>3

LEMMA NextSession ==
  ASSUME IInv, \A x \in Requests : ScopeOK(x), [Next]_vars
  PROVE  [Sessions!Next]_[f \in Tokens |-> SessionOf(f)]
  <1>1. CASE token' = token
    BY <1>1 DEF SessionOf, Members, Usable, IsLive
  <1>2. QED
    BY <1>1, PublishedByCommit, CommitSession

LEMMA InitSession == Init => Sessions!Init
  <1> SUFFICES ASSUME Init PROVE Sessions!Init
    OBVIOUS
  <1>1. ASSUME NEW f \in Tokens
        PROVE  SessionOf(f) = Sessions!Unopened
    <2>1. Members(f) = {} /\ Usable(f) = {}
      BY DEF Init, Members, Usable
    <2>2. QED
      BY <2>1 DEF SessionOf, Sessions!Unopened
  <1>2. QED
    BY <1>1 DEF Sessions!Init

\* The requests of any number of clients, with their interleaved statements, their waits and
\* their rollbacks, amount to transactions that open, rotate and close whole sessions.
THEOREM SessionsLive == Spec => SessionSpec
  <1>1. IInv /\ (\A x \in Requests : ScopeOK(x)) /\ [Next]_vars
          => [Sessions!Next]_[f \in Tokens |-> SessionOf(f)]
    BY NextSession
  <1>2. QED
    BY <1>1, InitSession, Invariance, ScopeInvariance, PTL DEF Spec, SessionSpec, Sessions!Spec
=============================================================================
