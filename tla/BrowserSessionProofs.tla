------------------------- MODULE BrowserSessionProofs --------------------------
(***************************************************************************)
(* Proofs about BrowserSession, for any sets of tabs, sessions and         *)
(* exchanges, any number of rotations and whatever the users do.  That     *)
(* calls settle is left to TLC.                                            *)
(***************************************************************************)
EXTENDS BrowserSession, TLAPS

-----------------------------------------------------------------------------
(* The inductive invariant *)

All == Slots \cup Rotations

\* An exchange carries a secret of f.
Has(e, f) == e # None /\ e.secret # None /\ e.secret.family = f

\* The answer of a rotation, with the new secret, is on its way.
Renewed(e) == e.op = "refresh" /\ e.at = "back" /\ e.answer = "ok"

Clean(f) == f \notin overlapped \cup troubled

Live(f) == family[f].status = "live"

\* Only rotations and logouts take a secret to the server, only sessions and rotations bring
\* one back, and only a call whose token is refused waits.
Shaped(e) ==
  /\ e.op = "call" => e.secret = None
  /\ e.at = "out" /\ e.secret # None => e.op \in {"refresh", "logout"}
  /\ e.at = "waits" => e.secret = None /\ e.op # "refresh"
  /\ e.answer # "ok" /\ e.op \in {"login", "password", "reset"} => e.secret = None
  /\ e.op \in {"refresh", "logout"} => e.answer # "expired"

\* A tab has one rotation under way, and knows it.
OneRotation ==
  \A i \in All : exchange[i] # None /\ exchange[i].op = "refresh" /\ exchange[i].tab # None
                   => tab[exchange[i].tab].rotation = i

\* Nobody has a secret of a session that has not been opened.
Unknown ==
  \A f \in Families : family[f].status = "unused" =>
    /\ cookie = None \/ cookie.family # f
    /\ \A i \in All : ~Has(exchange[i], f)

\* The secret of a session that nothing has troubled is in one exchange at most, and is its
\* last one; so is the one of the cookie, unless the new one is on its way.
Kept(f) ==
  /\ family[f].status # "reuse"
  /\ \A i, j \in All : Has(exchange[i], f) /\ Has(exchange[j], f) => i = j
  /\ Live(f) => \A i \in All : Has(exchange[i], f) => exchange[i].secret.n = family[f].n
  /\ Live(f) /\ cookie # None /\ cookie.family = f =>
       \/ cookie.n = family[f].n
       \/ \E i \in All : Has(exchange[i], f) /\ Renewed(exchange[i])

IInv ==
  /\ TypeOK
  /\ \A i \in All : exchange[i] # None => Shaped(exchange[i])
  /\ OneRotation
  /\ Unknown
  /\ \A f \in Families : Clean(f) => Kept(f)

-----------------------------------------------------------------------------
(* Facts the steps share *)

\* Nothing is sent: secrets are kept or dropped, and the cookie, if it changes, takes one that
\* an exchange has brought.
LEMMA NothingSent ==
  ASSUME IInv,
         \A i \in All, f \in Families :
           Has(exchange'[i], f) => Has(exchange[i], f) /\ exchange'[i].secret = exchange[i].secret,
         \A f \in Families :
           \/ family'[f] = family[f]
           \/ /\ family[f].status # "unused" /\ family'[f].status \notin {"unused", "live"}
              /\ family'[f].status = "reuse" => family[f].status = "reuse" \/ ~Clean(f),
         overlapped \subseteq overlapped', troubled \subseteq troubled',
         \/ cookie' = None
         \/ \E i \in All : exchange[i] # None /\ cookie' = exchange[i].secret
         \/ /\ cookie' = cookie
            /\ \A i \in All, f \in Families :
                 Clean(f)' /\ Has(exchange[i], f) /\ Renewed(exchange[i])
                   => Has(exchange'[i], f) /\ Renewed(exchange'[i])
  PROVE  Unknown' /\ \A f \in Families : Clean(f)' => Kept(f)'
<1>1. ASSUME NEW f \in Families, family'[f].status = "unused"
      PROVE  /\ cookie' = None \/ cookie'.family # f
             /\ \A i \in All : ~Has(exchange'[i], f)
  <2>1. family[f].status = "unused"
    BY <1>1
  <2>2. (cookie = None \/ cookie.family # f) /\ \A i \in All : ~Has(exchange[i], f)
    BY <2>1 DEF IInv, Unknown
  <2> QED  BY <2>2 DEF Has
<1>2. ASSUME NEW f \in Families, Clean(f)'
      PROVE  Kept(f)'
  <2>1. Clean(f) /\ Kept(f)
    BY <1>2 DEF Clean, IInv
  <2>2. family'[f].status # "reuse"
    BY <2>1 DEF Kept
  <2>3. \A i, j \in All : Has(exchange'[i], f) /\ Has(exchange'[j], f) => i = j
    BY <2>1 DEF Kept
  <2>4. Live(f)' => Live(f) /\ family'[f] = family[f]
    BY DEF Live
  <2>5. Live(f)' => \A i \in All : Has(exchange'[i], f) => exchange'[i].secret.n = family'[f].n
    BY <2>1, <2>4 DEF Kept
  <2>6. ASSUME Live(f)', cookie' # None, cookie'.family = f
        PROVE  \/ cookie'.n = family'[f].n
               \/ \E i \in All : Has(exchange'[i], f) /\ Renewed(exchange'[i])
    <3>1. CASE \E i \in All : exchange[i] # None /\ cookie' = exchange[i].secret
      <4>1. PICK i \in All : exchange[i] # None /\ cookie' = exchange[i].secret
        BY <3>1
      <4>2. Has(exchange[i], f)
        BY <2>6, <4>1 DEF Has
      <4> QED  BY <2>1, <2>4, <2>6, <4>1, <4>2 DEF Kept
    <3>2. CASE /\ cookie' = cookie
               /\ \A i \in All, g \in Families :
                    Clean(g)' /\ Has(exchange[i], g) /\ Renewed(exchange[i])
                      => Has(exchange'[i], g) /\ Renewed(exchange'[i])
      BY <1>2, <2>1, <2>4, <2>6, <3>2 DEF Kept
    <3> QED  BY <2>6, <3>1, <3>2
  <2> QED  BY <2>2, <2>3, <2>5, <2>6 DEF Kept, Live, Has, Renewed
<1> QED  BY <1>1, <1>2 DEF Unknown, Has

\* The secret of the cookie is sent: whatever works on a session at that moment has met it.
LEMMA CookieSent ==
  ASSUME IInv, NEW r \in All, NEW e \in Exchange, e.op \in {"refresh", "logout"}, e.secret = cookie,
         NEW others, DOMAIN others = All, others[r] = None,
         exchange' = [others EXCEPT ![r] = e],
         \A i \in All : others[i] # None =>
           /\ exchange[i] # None
           /\ others[i].op = exchange[i].op /\ others[i].secret = exchange[i].secret
           /\ others[i].at = exchange[i].at \/ exchange[i].secret = None
           /\ others[i].answer = exchange[i].answer,
         (\E i \in All : others[i] # None /\ others[i].op # "call") => FamilyOf(e) \subseteq overlapped',
         \A i \in All, f \in Families : Has(exchange[i], f) /\ others[i] = None => f \in troubled',
         UNCHANGED <<family, cookie>>,
         overlapped \subseteq overlapped', troubled \subseteq troubled'
  PROVE  Unknown' /\ \A f \in Families : Clean(f)' => Kept(f)'
<1>1. \A i \in All : exchange'[i] = IF i = r THEN e ELSE others[i]
  BY DEF All
<1>2. ASSUME NEW f \in Families, family'[f].status = "unused"
      PROVE  /\ cookie' = None \/ cookie'.family # f
             /\ \A i \in All : ~Has(exchange'[i], f)
  <2>1. (cookie = None \/ cookie.family # f) /\ \A i \in All : ~Has(exchange[i], f)
    BY <1>2 DEF IInv, Unknown
  <2> QED  BY <1>1, <2>1 DEF Has
<1>3. ASSUME NEW f \in Families, Clean(f)'
      PROVE  Kept(f)'
  <2>1. Clean(f) /\ Kept(f)
    BY <1>3 DEF Clean, IInv
  <2>2. ASSUME cookie # None, cookie.family = f, NEW i \in All
        PROVE  ~Has(others[i], f)
    <3>1. SUFFICES ASSUME Has(others[i], f)  PROVE FALSE
      OBVIOUS
    <3>2. others[i] # None /\ others[i].op # "call"
      BY <3>1 DEF Has, IInv, Shaped
    <3>3. FamilyOf(e) \subseteq overlapped'
      BY <3>2
    <3>4. f \in FamilyOf(e)
      BY <2>2 DEF FamilyOf
    <3> QED  BY <1>3, <3>3, <3>4 DEF Clean
  <2>3. ASSUME NEW i \in All, Has(exchange[i], f)
        PROVE  Has(others[i], f)
    BY <1>3, <2>3 DEF Has, Clean
  <2>4. \A i \in All : Has(others[i], f) => Has(exchange[i], f) /\ others[i].secret = exchange[i].secret
    BY DEF Has
  <2>5. \A i, j \in All : Has(exchange'[i], f) /\ Has(exchange'[j], f) => i = j
    <3> SUFFICES ASSUME NEW i \in All, NEW j \in All, Has(exchange'[i], f), Has(exchange'[j], f)
                 PROVE  i = j
      OBVIOUS
    <3>1. CASE i # r /\ j # r
      BY <1>1, <2>1, <2>4, <3>1 DEF Kept
    <3>2. CASE i = r
      <4>1. cookie # None /\ cookie.family = f
        BY <1>1, <3>2 DEF Has
      <4> QED  BY <1>1, <2>2, <3>2, <4>1
    <3>3. CASE j = r
      <4>1. cookie # None /\ cookie.family = f
        BY <1>1, <3>3 DEF Has
      <4> QED  BY <1>1, <2>2, <3>3, <4>1
    <3> QED  BY <3>1, <3>2, <3>3
  <2>6. ASSUME Live(f), cookie # None, cookie.family = f
        PROVE  cookie.n = family[f].n
    BY <2>1, <2>2, <2>3, <2>6 DEF Kept
  <2>7. ASSUME Live(f), NEW i \in All, Has(exchange'[i], f)
        PROVE  exchange'[i].secret.n = family[f].n
    <3>1. CASE i = r
      <4>1. cookie # None /\ cookie.family = f
        BY <1>1, <2>7, <3>1 DEF Has
      <4> QED  BY <1>1, <2>6, <2>7, <3>1, <4>1
    <3>2. CASE i # r
      BY <1>1, <2>1, <2>4, <2>7, <3>2 DEF Kept
    <3> QED  BY <3>1, <3>2
  <2> QED  BY <2>1, <2>5, <2>6, <2>7 DEF Kept, Live, Has, Renewed
<1> QED  BY <1>2, <1>3 DEF Unknown, Has

LEMMA FamiliesOfExchanges ==
  ASSUME NEW e \in Exchange
  PROVE  FamilyOf(e) \subseteq Families
BY DEF FamilyOf, Exchange, Secret

LEMMA OverlapsAreFamilies ==
  ASSUME NEW e \in Exchange, NEW all, \A i \in DOMAIN all : all[i] \in Exchange \cup {None}
  PROVE  Overlaps(e, all) \subseteq Families
BY FamiliesOfExchanges DEF Overlaps

\* Two exchanges of which one is no call have met, but for two rotations of one tab.
LEMMA OverlapsMeet ==
  ASSUME NEW e, NEW all, NEW i \in DOMAIN all, all[i] # None, all[i].op # "call",
         ~(e.op = "refresh" /\ all[i].op = "refresh" /\ all[i].tab = e.tab)
  PROVE  FamilyOf(e) \subseteq Overlaps(e, all)
BY DEF Overlaps

LEMMA SentIsAnExchange ==
  ASSUME TypeOK, NEW t \in Tabs, NEW op \in Operations \cup {"refresh"}
  PROVE  /\ Sent(op, t) \in Exchange /\ Sent(op, t) # None
         /\ Sent(op, t).op = op /\ Sent(op, t).tab = t
         /\ Sent(op, t).at = "out" /\ Sent(op, t).answer = "none"
         /\ Sent(op, t).secret = IF op \in {"refresh", "logout"} THEN cookie ELSE None
<1>1. tab[t].token \in Token \cup {None} /\ cookie \in Secret \cup {None}
  BY DEF TypeOK, Tab
<1>2. Sent(op, t) \in Exchange
  BY <1>1 DEF Sent, Exchange
<1> QED  BY <1>2, NoneAssumption DEF Sent

-----------------------------------------------------------------------------
(* Sending *)

LEMMA OpenInvariant ==
  ASSUME IInv, NEW t \in Tabs, Open(t)
  PROVE  IInv'
<1> DEFINE dropped == {i \in DOMAIN exchange : Under(t, i) /\ exchange[i].at # "out"}
           left0 == [i \in DOMAIN exchange |->
                       IF i \in dropped THEN None
                       ELSE IF Under(t, i) THEN [exchange[i] EXCEPT !.tab = None] ELSE exchange[i]]
           free == {i \in Rotations : left0[i] = None}
<1>1. PICK e \in Exchange :
        /\ e = Sent("refresh", t) /\ e # None
        /\ e.op = "refresh" /\ e.tab = t /\ e.at = "out" /\ e.answer = "none" /\ e.secret = cookie
  BY SentIsAnExchange DEF IInv
<1>2. exchange \in [All -> Exchange \cup {None}] /\ tab \in [Tabs -> Tab]
  BY DEF IInv, TypeOK, All
<1>3. PICK others : others = left0
  OBVIOUS
<1>4. PICK r \in Rotations :
        /\ others[r] = None /\ exchange' = [others EXCEPT ![r] = e]
        /\ tab' = [tab EXCEPT ![t] = [page |-> "starting", token |-> None, rotation |-> r]]
  <2>1. free # {} /\ (CHOOSE r \in free : TRUE) \in free
    BY DEF Open
  <2> QED  BY <1>1, <1>3, <2>1 DEF Open
<1>5. ASSUME NEW i \in All
      PROVE  /\ others[i] \in Exchange \cup {None}
             /\ others[i] # None =>
                  /\ exchange[i] # None /\ others[i].tab # t
                  /\ others[i].tab # None => others[i] = exchange[i]
                  /\ others[i].op = exchange[i].op /\ others[i].secret = exchange[i].secret
                  /\ others[i].at = exchange[i].at /\ others[i].answer = exchange[i].answer
             /\ others[i] = None => exchange[i] = None \/ i \in dropped
  <2>1. CASE i \in dropped
    BY <1>2, <1>3, <2>1
  <2>2. CASE i \notin dropped /\ Under(t, i)
    <3>1. exchange[i] \in Exchange
      BY <1>2, <2>2 DEF Under
    <3>2. others[i] = [exchange[i] EXCEPT !.tab = None]
      BY <1>2, <1>3, <2>2
    <3>3. others[i] \in Exchange /\ others[i] # None
      BY <3>1, <3>2, NoneAssumption DEF Exchange
    <3>4. /\ others[i].tab = None /\ others[i].op = exchange[i].op /\ others[i].secret = exchange[i].secret
          /\ others[i].at = exchange[i].at /\ others[i].answer = exchange[i].answer
      BY <3>1, <3>2 DEF Exchange
    <3>5. t # None
      BY NoneAssumption
    <3> QED  BY <2>2, <3>3, <3>4, <3>5 DEF Under
  <2>3. CASE i \notin dropped /\ ~Under(t, i)
    BY <1>2, <1>3, <2>3 DEF Under
  <2> QED  BY <2>1, <2>2, <2>3
<1>6. DOMAIN others = All /\ r \in All
  BY <1>2, <1>3, <1>4 DEF All
<1>7. /\ overlapped' = overlapped \cup Overlaps(e, others)
      /\ troubled' = troubled \cup UNION {FamilyOf(exchange[i]) : i \in dropped}
      /\ UNCHANGED <<server, cookie, left, mix>>
  BY <1>1, <1>3 DEF Open
<1> HIDE DEF left0, free
<1>8. TypeOK'
  <2>1. exchange' \in [All -> Exchange \cup {None}]
    BY <1>4, <1>5, <1>6
  <2>2. tab' \in [Tabs -> Tab]
    BY <1>2, <1>4 DEF Tab
  <2>3. overlapped' \subseteq Families
    BY <1>5, <1>6, <1>7, OverlapsAreFamilies DEF IInv, TypeOK
  <2>4. troubled' \subseteq Families
    <3>1. \A i \in dropped : exchange[i] \in Exchange
      BY <1>2 DEF Under
    <3> QED  BY <1>7, <3>1, FamiliesOfExchanges DEF IInv, TypeOK
  <2> QED  BY <1>7, <2>1, <2>2, <2>3, <2>4 DEF IInv, TypeOK, server, All
<1>9. \A i \in All : exchange'[i] = IF i = r THEN e ELSE others[i]
  BY <1>4, <1>6
<1>10. \A i \in All : exchange'[i] # None => Shaped(exchange'[i])
  BY <1>1, <1>5, <1>9 DEF IInv, Shaped
<1>11. OneRotation'
  <2> SUFFICES ASSUME NEW i \in All, exchange'[i] # None, exchange'[i].op = "refresh", exchange'[i].tab # None
               PROVE  tab'[exchange'[i].tab].rotation = i
    BY DEF OneRotation
  <2>1. CASE i = r
    BY <1>1, <1>2, <1>4, <1>9, <2>1
  <2>2. CASE i # r
    <3>1. exchange[i] # None /\ exchange'[i] = exchange[i] /\ exchange[i].tab # t
      BY <1>5, <1>9, <2>2
    <3>2. exchange[i].tab \in Tabs
      BY <1>2, <3>1 DEF Exchange
    <3> QED  BY <1>2, <1>4, <3>1, <3>2 DEF IInv, OneRotation
  <2> QED  BY <2>1, <2>2
<1>12. (\E i \in All : others[i] # None /\ others[i].op # "call") => FamilyOf(e) \subseteq overlapped'
  <2> SUFFICES ASSUME NEW i \in All, others[i] # None, others[i].op # "call"
               PROVE  FamilyOf(e) \subseteq overlapped'
    OBVIOUS
  <2>1. others[i].tab # e.tab
    BY <1>1, <1>5
  <2>2. FamilyOf(e) \subseteq Overlaps(e, others)
    BY <1>6, <2>1, OverlapsMeet
  <2> QED  BY <1>7, <2>2
<1>13. \A i \in All, f \in Families : Has(exchange[i], f) /\ others[i] = None => f \in troubled'
  <2> SUFFICES ASSUME NEW i \in All, NEW f \in Families, Has(exchange[i], f), others[i] = None
               PROVE  f \in troubled'
    OBVIOUS
  <2>1. i \in dropped
    BY <1>5 DEF Has
  <2>2. f \in FamilyOf(exchange[i])
    BY DEF Has, FamilyOf
  <2> QED  BY <1>7, <2>1, <2>2
<1>14. /\ \A i \in All : others[i] # None =>
            /\ exchange[i] # None
            /\ others[i].op = exchange[i].op /\ others[i].secret = exchange[i].secret
            /\ others[i].at = exchange[i].at \/ exchange[i].secret = None
            /\ others[i].answer = exchange[i].answer
       /\ e.op \in {"refresh", "logout"}
       /\ UNCHANGED <<family, cookie>> /\ overlapped \subseteq overlapped' /\ troubled \subseteq troubled'
  BY <1>1, <1>5, <1>7 DEF server
<1>15. Unknown' /\ \A f \in Families : Clean(f)' => Kept(f)'
  BY <1>1, <1>4, <1>6, <1>12, <1>13, <1>14, CookieSent
<1> QED  BY <1>8, <1>10, <1>11, <1>15 DEF IInv

\* An exchange of the users' doing.
LEMMA PutsInvariant ==
  ASSUME IInv, NEW t \in Tabs, NEW op \in Operations, Puts(Sent(op, t))
  PROVE  IInv'
<1>1. PICK e \in Exchange :
        /\ e = Sent(op, t) /\ e # None
        /\ e.op = op /\ e.tab = t /\ e.at = "out" /\ e.answer = "none"
        /\ e.secret = IF op = "logout" THEN cookie ELSE None
  BY SentIsAnExchange DEF IInv, Operations
<1>2. exchange \in [All -> Exchange \cup {None}] /\ DOMAIN exchange = All
  BY DEF IInv, TypeOK, All
<1>3. PICK s \in Slots : exchange[s] = None /\ exchange' = [exchange EXCEPT ![s] = e]
  <2>1. Free(Slots) # {} /\ (CHOOSE i \in Free(Slots) : TRUE) \in Free(Slots)
    BY DEF Puts
  <2> QED  BY <1>1, <2>1 DEF Puts, Free
<1>4. /\ overlapped' = IF op = "call" THEN overlapped ELSE overlapped \cup Overlaps(e, exchange)
      /\ UNCHANGED <<server, cookie, tab, left, troubled, mix>>
  BY <1>1 DEF Puts
<1>5. s \in All /\ \A i \in All : exchange'[i] = IF i = s THEN e ELSE exchange[i]
  BY <1>2, <1>3 DEF All
<1>6. TypeOK'
  <2>1. exchange' \in [All -> Exchange \cup {None}]
    BY <1>2, <1>3
  <2>2. overlapped' \subseteq Families
    BY <1>2, <1>4, OverlapsAreFamilies DEF IInv, TypeOK
  <2> QED  BY <1>4, <2>1, <2>2 DEF IInv, TypeOK, server, All
<1>7. \A i \in All : exchange'[i] # None => Shaped(exchange'[i])
  BY <1>1, <1>5 DEF IInv, Shaped, Operations
<1>8. OneRotation'
  BY <1>1, <1>4, <1>5 DEF IInv, OneRotation, Operations
<1>9. Unknown' /\ \A f \in Families : Clean(f)' => Kept(f)'
  <2>1. CASE op # "logout"
    <3>1. \A i \in All, f \in Families :
            Has(exchange'[i], f) => Has(exchange[i], f) /\ exchange'[i].secret = exchange[i].secret
      BY <1>1, <1>5, <2>1 DEF Has
    <3>2. \A i \in All, f \in Families : Has(exchange[i], f) => exchange'[i] = exchange[i]
      BY <1>3, <1>5 DEF Has
    <3>3. /\ \A f \in Families : family'[f] = family[f]
          /\ overlapped \subseteq overlapped' /\ troubled \subseteq troubled' /\ cookie' = cookie
      BY <1>4 DEF server
    <3> QED  BY <3>1, <3>2, <3>3, NothingSent
  <2>2. CASE op = "logout"
    <3>1. (\E i \in All : exchange[i] # None /\ exchange[i].op # "call") => FamilyOf(e) \subseteq overlapped'
      <4> SUFFICES ASSUME NEW i \in All, exchange[i] # None, exchange[i].op # "call"
                   PROVE  FamilyOf(e) \subseteq overlapped'
        OBVIOUS
      <4>1. FamilyOf(e) \subseteq Overlaps(e, exchange)
        BY <1>1, <1>2, <2>2, OverlapsMeet
      <4> QED  BY <1>4, <2>2, <4>1
    <3>2. PICK others : others = exchange
      OBVIOUS
    <3>3. /\ DOMAIN others = All /\ others[s] = None /\ exchange' = [others EXCEPT ![s] = e]
          /\ (\E i \in All : others[i] # None /\ others[i].op # "call") => FamilyOf(e) \subseteq overlapped'
          /\ \A i \in All : others[i] # None =>
               /\ exchange[i] # None
               /\ others[i].op = exchange[i].op /\ others[i].secret = exchange[i].secret
               /\ others[i].at = exchange[i].at \/ exchange[i].secret = None
               /\ others[i].answer = exchange[i].answer
          /\ \A i \in All, f \in Families : Has(exchange[i], f) /\ others[i] = None => f \in troubled'
      BY <1>2, <1>3, <3>1, <3>2 DEF Has
    <3>4. /\ e.op \in {"refresh", "logout"} /\ e.secret = cookie
          /\ UNCHANGED <<family, cookie>> /\ overlapped \subseteq overlapped' /\ troubled \subseteq troubled'
      BY <1>1, <1>4, <2>2 DEF server
    <3>5. s \in All
      BY <1>5
    <3> QED  BY <3>3, <3>4, <3>5, CookieSent
  <2> QED  BY <2>1, <2>2
<1> QED  BY <1>6, <1>7, <1>8, <1>9 DEF IInv

LEMMA UseInvariant ==
  ASSUME IInv, NEW t \in Tabs, Use(t)
  PROVE  IInv'
BY PutsInvariant DEF Use, Login, ResetPassword, ChangePassword, Call, Logout, Operations

-----------------------------------------------------------------------------
(* The server *)

\* What an answer leaves alone, and the shape it has.
LEMMA AnswersKeep ==
  ASSUME IInv, NEW i \in All, exchange[i] # None, NEW e \in Exchange,
         e.op = exchange[i].op, e.tab = exchange[i].tab,
         e.op = "call" => e.secret = None,
         e.answer # "ok" /\ e.op \in {"login", "password", "reset"} => e.secret = None,
         e.op \in {"refresh", "logout"} => e.answer # "expired",
         Answers(i, e)
  PROVE  /\ exchange' \in [All -> Exchange \cup {None}]
         /\ \A j \in All : j # i => exchange'[j] = exchange[j]
         /\ \/ exchange'[i] = None /\ FamilyOf(e) = {}
            \/ /\ exchange'[i] # None /\ exchange'[i].at = "back"
               /\ exchange'[i].op = e.op /\ exchange'[i].answer = e.answer
               /\ exchange'[i].secret = e.secret /\ exchange'[i].tab = e.tab
         /\ \A j \in All : exchange'[j] # None => Shaped(exchange'[j])
         /\ OneRotation'
         /\ UNCHANGED <<cookie, tab, left, overlapped, troubled>>
<1>1. exchange \in [All -> Exchange \cup {None}]
  BY DEF IInv, TypeOK, All
<1>2. PICK b \in Exchange : /\ b = [e EXCEPT !.at = "back"] /\ b # None /\ b.at = "back"
                            /\ b.op = e.op /\ b.answer = e.answer /\ b.secret = e.secret /\ b.tab = e.tab
  <2> DEFINE back == [e EXCEPT !.at = "back"]
  <2>1. back \in Exchange
    BY DEF Exchange
  <2>2. /\ back.at = "back" /\ back.op = e.op /\ back.answer = e.answer
        /\ back.secret = e.secret /\ back.tab = e.tab
    BY DEF Exchange
  <2> HIDE DEF back
  <2>3. back # None
    BY <2>1, NoneAssumption
  <2> QED  BY <2>1, <2>2, <2>3 DEF back
<1>3. /\ exchange' = [exchange EXCEPT ![i] = IF e.tab = None /\ FamilyOf(e) = {} THEN None ELSE b]
      /\ UNCHANGED <<cookie, tab, left, overlapped, troubled>>
  BY <1>2 DEF Answers
<1>4. \A j \in All : j # i => exchange'[j] = exchange[j]
  BY <1>1, <1>3
<1>5. \/ exchange'[i] = None /\ FamilyOf(e) = {}
      \/ exchange'[i] = b
  BY <1>1, <1>3
<1>6. exchange' \in [All -> Exchange \cup {None}]
  BY <1>1, <1>3
<1>7. \A j \in All : exchange'[j] # None => Shaped(exchange'[j])
  <2>1. Shaped(b)
    BY <1>2 DEF Shaped
  <2> QED  BY <1>4, <1>5, <2>1 DEF IInv
<1>8. OneRotation'
  BY <1>2, <1>3, <1>4, <1>5 DEF IInv, OneRotation
<1> QED  BY <1>2, <1>3, <1>4, <1>5, <1>6, <1>7, <1>8

\* An answer without a new secret.
LEMMA AnswersCalmly ==
  ASSUME IInv, NEW i \in All, exchange[i] # None, exchange[i].at = "out",
         NEW e \in Exchange, e.op = exchange[i].op, e.tab = exchange[i].tab,
         e.secret = exchange[i].secret, e.answer \in {"ok", "refused", "expired", "invalid", "error"},
         e.op \in {"refresh", "logout"} => e.answer # "expired",
         Answers(i, e), TypeOK',
         \A f \in Families :
           \/ family'[f] = family[f]
           \/ /\ family[f].status # "unused" /\ family'[f].status \notin {"unused", "live"}
              /\ family'[f].status = "reuse" => family[f].status = "reuse" \/ ~Clean(f)
  PROVE  IInv'
<1>1. /\ e.op = "call" => e.secret = None
      /\ e.op \in {"login", "password", "reset"} => e.secret = None
  BY DEF IInv, Shaped
<1>2. /\ exchange' \in [All -> Exchange \cup {None}]
      /\ \A j \in All : j # i => exchange'[j] = exchange[j]
      /\ \/ exchange'[i] = None /\ FamilyOf(e) = {}
         \/ exchange'[i] # None /\ exchange'[i].secret = e.secret
      /\ \A j \in All : exchange'[j] # None => Shaped(exchange'[j])
      /\ OneRotation'
      /\ UNCHANGED <<cookie, tab, left, overlapped, troubled>>
  BY <1>1, AnswersKeep
<1>3. \A j \in All, f \in Families :
        Has(exchange'[j], f) => Has(exchange[j], f) /\ exchange'[j].secret = exchange[j].secret
  BY <1>2 DEF Has
<1>4. \A j \in All, f \in Families :
        Clean(f)' /\ Has(exchange[j], f) /\ Renewed(exchange[j])
          => Has(exchange'[j], f) /\ Renewed(exchange'[j])
  BY <1>2 DEF Has, Renewed
<1>5. overlapped \subseteq overlapped' /\ troubled \subseteq troubled' /\ cookie' = cookie
  BY <1>2
<1>6. Unknown' /\ \A f \in Families : Clean(f)' => Kept(f)'
  BY <1>3, <1>4, <1>5, NothingSent
<1> QED  BY <1>2, <1>6 DEF IInv

\* The parts of the type invariant an answer may change.
LEMMA AnswersType ==
  ASSUME IInv, NEW i \in All, exchange[i] # None, NEW e \in Exchange, Answers(i, e),
         family' \in [Families -> [status : {"unused", "live", "logout", "reuse", "password", "admin", "aged"},
                                   n : 0..MaxSecret]],
         epoch' \in Nat, active' \in BOOLEAN
  PROVE  TypeOK'
<1>1. [e EXCEPT !.at = "back"] \in Exchange
  BY DEF Exchange
<1>2. exchange' \in [All -> Exchange \cup {None}]
  BY <1>1 DEF IInv, TypeOK, All, Answers
<1> QED  BY <1>2 DEF IInv, TypeOK, All, Answers

\* A new session, its secret on the way.
LEMMA OpensInvariant ==
  ASSUME IInv, NEW i \in All, exchange[i] # None, exchange[i].at = "out",
         exchange[i].op \in {"login", "password", "reset"},
         NEW former, NEW now \in Nat, epoch' = now, active' = active,
         former = family \/ former = Closed("password"),
         Opens(i, exchange[i], former, now)
  PROVE  IInv'
<1>1. PICK o \in Exchange : o = exchange[i] /\ o.secret = None
  BY DEF IInv, TypeOK, All, Shaped
<1> DEFINE Rows == [status : {"unused", "live", "logout", "reuse", "password", "admin", "aged"},
                    n : 0..MaxSecret]
<1>2. /\ family \in [Families -> Rows]
      /\ former \in [Families -> Rows]
      /\ \A f \in Families : \/ former[f] = family[f]
                             \/ family[f].status = "live" /\ former[f].status = "password"
  <2>1. family \in [Families -> Rows]
    BY DEF IInv, TypeOK
  <2>2. ASSUME NEW f \in Families
        PROVE  /\ Closed("password")[f] \in Rows
               /\ \/ Closed("password")[f] = family[f]
                  \/ family[f].status = "live" /\ Closed("password")[f].status = "password"
    BY <2>1 DEF Closed
  <2>3. Closed("password") \in [Families -> Rows]
    BY <2>2 DEF Closed
  <2> QED  BY <2>1, <2>2, <2>3
<1>3. PICK f \in Families :
        /\ family[f].status = "unused"
        /\ family' = [former EXCEPT ![f] = [status |-> "live", n |-> 1]]
        /\ Answers(i, [o EXCEPT !.answer = "ok", !.secret = [family |-> f, n |-> 1],
                                !.token = [family |-> f, epoch |-> now]])
  <2> DEFINE unused == {g \in Families : family[g].status = "unused"}
  <2>1. unused # {} /\ (CHOOSE g \in unused : TRUE) \in unused
    BY DEF Opens
  <2> QED  BY <1>1, <2>1 DEF Opens
<1>4. PICK e \in Exchange :
        /\ e = [o EXCEPT !.answer = "ok", !.secret = [family |-> f, n |-> 1],
                         !.token = [family |-> f, epoch |-> now]]
        /\ e.op = o.op /\ e.tab = o.tab /\ e.answer = "ok" /\ e.secret = [family |-> f, n |-> 1]
        /\ e.secret \in Secret
  <2>1. [family |-> f, n |-> 1] \in Secret /\ [family |-> f, epoch |-> now] \in Token
    BY BrowserAssumption DEF Secret, Token
  <2>2. PICK secret \in Secret, token \in Token :
          secret = [family |-> f, n |-> 1] /\ token = [family |-> f, epoch |-> now]
    BY <2>1
  <2> DEFINE new == [o EXCEPT !.answer = "ok", !.secret = secret, !.token = token]
  <2>3. new \in Exchange
    BY DEF Exchange
  <2>4. new.op = o.op /\ new.tab = o.tab /\ new.answer = "ok" /\ new.secret = secret
    BY DEF Exchange
  <2> QED  BY <2>2, <2>3, <2>4
<1>5. TypeOK'
  <2>1. family' \in [Families -> Rows]
    BY <1>2, <1>3, BrowserAssumption
  <2>2. active' \in BOOLEAN
    BY DEF IInv, TypeOK
  <2> QED  BY <1>3, <1>4, <2>1, <2>2, AnswersType
<1>6. /\ \A j \in All : j # i => exchange'[j] = exchange[j]
      /\ exchange'[i] # None /\ exchange'[i].secret = e.secret
      /\ \A j \in All : exchange'[j] # None => Shaped(exchange'[j])
      /\ OneRotation'
      /\ UNCHANGED <<cookie, tab, left, overlapped, troubled>>
  <2>1. e.op \in {"login", "password", "reset"} /\ Answers(i, e)
    BY <1>1, <1>3, <1>4
  <2>2. FamilyOf(e) # {}
    BY <1>4, NoneAssumption DEF FamilyOf
  <2> QED  BY <1>1, <1>4, <2>1, <2>2, AnswersKeep
<1>7. e.secret.family = f /\ e.secret.n = 1 /\ e.secret # None
  BY <1>4, NoneAssumption
<1>8. (cookie = None \/ cookie.family # f) /\ \A j \in All : ~Has(exchange[j], f)
  BY <1>3 DEF IInv, Unknown
<1>9. \A g \in Families : family'[g] = IF g = f THEN [status |-> "live", n |-> 1] ELSE former[g]
  BY <1>2, <1>3
<1>10. \A g \in Families, j \in All :
         Has(exchange'[j], g) => \/ g = f /\ j = i
                                 \/ g # f /\ j # i /\ Has(exchange[j], g) /\ exchange'[j] = exchange[j]
  BY <1>6, <1>7, <1>8 DEF Has
<1>11. Unknown'
  <2> SUFFICES ASSUME NEW g \in Families, family'[g].status = "unused"
               PROVE  /\ cookie' = None \/ cookie'.family # g
                      /\ \A j \in All : ~Has(exchange'[j], g)
    BY DEF Unknown, Has
  <2>1. g # f /\ family[g].status = "unused"
    BY <1>2, <1>9
  <2> QED  BY <1>6, <1>10, <2>1 DEF IInv, Unknown
<1>12. ASSUME NEW g \in Families, Clean(g)'
       PROVE  Kept(g)'
  <2>1. Clean(g) /\ Kept(g)
    BY <1>6, <1>12 DEF Clean, IInv
  <2>2. \A j, k \in All : Has(exchange'[j], g) /\ Has(exchange'[k], g) => j = k
    BY <1>10, <2>1 DEF Kept
  <2>3. CASE g = f
    <3>1. \A j \in All : Has(exchange'[j], g) => exchange'[j].secret.n = family'[g].n
      BY <1>6, <1>7, <1>9, <1>10, <2>3
    <3>2. family'[g].status # "reuse" /\ ~(cookie' # None /\ cookie'.family = g)
      BY <1>6, <1>8, <1>9, <2>3
    <3> QED  BY <2>2, <3>1, <3>2 DEF Kept, Has, Renewed, Live
  <2>4. CASE g # f
    <3>1. /\ family'[g].status # "reuse"
          /\ Live(g)' => Live(g) /\ family'[g] = family[g]
      BY <1>2, <1>9, <2>1, <2>4 DEF Kept, Live
    <3>2. Live(g)' => \A j \in All : Has(exchange'[j], g) => exchange'[j].secret.n = family'[g].n
      BY <1>10, <2>1, <2>4, <3>1 DEF Kept
    <3>3. \A j \in All : Has(exchange[j], g) => exchange'[j] = exchange[j]
      BY <1>1, <1>6 DEF Has
    <3>4. Live(g)' /\ cookie' # None /\ cookie'.family = g =>
            \/ cookie'.n = family'[g].n
            \/ \E j \in All : Has(exchange'[j], g) /\ Renewed(exchange'[j])
      BY <1>6, <2>1, <3>1, <3>3 DEF Kept
    <3> QED  BY <2>2, <3>1, <3>2, <3>4 DEF Kept, Has, Renewed, Live
  <2> QED  BY <2>3, <2>4
<1> QED  BY <1>5, <1>6, <1>11, <1>12 DEF IInv

\* The server only says how it went.
LEMMA SaysCalmly ==
  ASSUME IInv, NEW i \in All, exchange[i] # None, exchange[i].at = "out",
         NEW a \in {"ok", "refused", "expired", "invalid", "error"},
         exchange[i].op \in {"refresh", "logout"} => a # "expired",
         Answers(i, [exchange[i] EXCEPT !.answer = a]),
         family' \in [Families -> [status : {"unused", "live", "logout", "reuse", "password", "admin", "aged"},
                                   n : 0..MaxSecret]],
         epoch' \in Nat, active' \in BOOLEAN,
         \A f \in Families :
           \/ family'[f] = family[f]
           \/ /\ family[f].status # "unused" /\ family'[f].status \notin {"unused", "live"}
              /\ family'[f].status = "reuse" => family[f].status = "reuse" \/ ~Clean(f)
  PROVE  IInv'
<1>1. PICK o \in Exchange : o = exchange[i]
  BY DEF IInv, TypeOK, All
<1>2. PICK e \in Exchange : /\ e = [o EXCEPT !.answer = a]
                            /\ e.op = o.op /\ e.tab = o.tab /\ e.secret = o.secret /\ e.answer = a
  <2> DEFINE new == [o EXCEPT !.answer = a]
  <2>1. new \in Exchange
    BY DEF Exchange
  <2>2. new.op = o.op /\ new.tab = o.tab /\ new.secret = o.secret /\ new.answer = a
    BY DEF Exchange
  <2> QED  BY <2>1, <2>2
<1>3. Answers(i, e)
  BY <1>1, <1>2
<1>4. TypeOK'
  BY <1>3, AnswersType
<1> QED  BY <1>1, <1>2, <1>3, <1>4, AnswersCalmly

\* A rotation.
LEMMA RotationInvariant ==
  ASSUME IInv, NEW i \in All, exchange[i] # None, exchange[i].at = "out", exchange[i].op = "refresh",
         NEW s \in Secret, s = exchange[i].secret, Current(s), ~TooOld(s),
         UNCHANGED <<epoch, active>>,
         family' = [family EXCEPT ![s.family].n = s.n + 1],
         Answers(i, [exchange[i] EXCEPT !.answer = "ok", !.secret = [s EXCEPT !.n = s.n + 1],
                                        !.token = [family |-> s.family, epoch |-> epoch]])
  PROVE  IInv'
<1> DEFINE Rows == [status : {"unused", "live", "logout", "reuse", "password", "admin", "aged"},
                    n : 0..MaxSecret]
<1>1. PICK o \in Exchange : o = exchange[i] /\ o.op = "refresh"
  BY DEF IInv, TypeOK, All
<1>2. PICK f \in Families : f = s.family
  BY DEF Secret
<1>3. PICK new \in Secret, token \in Token :
        /\ new = [s EXCEPT !.n = s.n + 1] /\ new.family = f /\ new.n = s.n + 1
        /\ token = [family |-> s.family, epoch |-> epoch]
  <2>1. s.n \in 1..MaxSecret /\ s.n + 1 \in 1..MaxSecret
    BY BrowserAssumption DEF Secret, TooOld
  <2>2. epoch \in Nat
    BY DEF IInv, TypeOK
  <2> DEFINE new == [s EXCEPT !.n = s.n + 1]
             token == [family |-> s.family, epoch |-> epoch]
  <2>3. new \in Secret /\ new.family = f /\ new.n = s.n + 1
    BY <1>2, <2>1 DEF Secret
  <2>4. token \in Token
    BY <1>2, <2>2 DEF Token
  <2> QED  BY <2>3, <2>4
<1>4. PICK e \in Exchange :
        /\ e = [o EXCEPT !.answer = "ok", !.secret = new, !.token = token]
        /\ e.op = "refresh" /\ e.tab = o.tab /\ e.answer = "ok" /\ e.secret = new
  <2> DEFINE e == [o EXCEPT !.answer = "ok", !.secret = new, !.token = token]
  <2>1. e \in Exchange
    BY DEF Exchange
  <2>2. e.op = "refresh" /\ e.tab = o.tab /\ e.answer = "ok" /\ e.secret = new
    BY <1>1 DEF Exchange
  <2> QED  BY <2>1, <2>2
<1>5. Answers(i, e)
  BY <1>1, <1>3, <1>4
<1>6. family \in [Families -> Rows] /\ family[f] = [status |-> "live", n |-> s.n]
  BY <1>2 DEF IInv, TypeOK, Current
<1>7. /\ family' \in [Families -> Rows]
      /\ \A g \in Families : g # f => family'[g] = family[g]
      /\ family'[f].status = "live" /\ family'[f].n = s.n + 1
  <2>1. s.n + 1 \in 0..MaxSecret
    BY <1>3 DEF Secret
  <2>2. [family[f] EXCEPT !.n = s.n + 1] \in Rows
    BY <1>6, <2>1
  <2>3. family' = [family EXCEPT ![f] = [family[f] EXCEPT !.n = s.n + 1]]
    BY <1>2, <1>6
  <2>4. /\ [family[f] EXCEPT !.n = s.n + 1].status = "live"
        /\ [family[f] EXCEPT !.n = s.n + 1].n = s.n + 1
    BY <1>6
  <2> QED  BY <1>6, <2>2, <2>3, <2>4
<1>8. TypeOK'
  BY <1>5, <1>7, AnswersType DEF IInv, TypeOK
<1>9. new # None /\ s # None
  BY NoneAssumption
<1>10. /\ \A j \in All : j # i => exchange'[j] = exchange[j]
       /\ exchange'[i] # None /\ exchange'[i].secret = new /\ Renewed(exchange'[i])
       /\ \A j \in All : exchange'[j] # None => Shaped(exchange'[j])
       /\ OneRotation'
       /\ UNCHANGED <<cookie, tab, left, overlapped, troubled>>
  <2>1. FamilyOf(e) # {}
    BY <1>4, <1>9 DEF FamilyOf
  <2> QED  BY <1>1, <1>4, <1>5, <2>1, AnswersKeep DEF Renewed
<1>11. \A g \in Families, j \in All : Has(exchange'[j], g) <=> Has(exchange[j], g)
  BY <1>1, <1>2, <1>3, <1>9, <1>10 DEF Has
<1>12. Has(exchange[i], f) /\ Has(exchange'[i], f)
  BY <1>1, <1>2, <1>3, <1>9, <1>10 DEF Has
<1>13. Unknown'
  <2> SUFFICES ASSUME NEW g \in Families, family'[g].status = "unused"
               PROVE  /\ cookie' = None \/ cookie'.family # g
                      /\ \A j \in All : ~Has(exchange'[j], g)
    BY DEF Unknown, Has
  <2> QED  BY <1>7, <1>10, <1>11 DEF IInv, Unknown
<1>14. ASSUME NEW g \in Families, Clean(g)'
       PROVE  Kept(g)'
  <2>1. Clean(g) /\ Kept(g)
    BY <1>10, <1>14 DEF Clean, IInv
  <2>2. \A j, k \in All : Has(exchange'[j], g) /\ Has(exchange'[k], g) => j = k
    BY <1>11, <2>1 DEF Kept
  <2>3. CASE g = f
    <3>1. \A j \in All : Has(exchange'[j], g) => exchange'[j].secret.n = family'[g].n
      BY <1>3, <1>7, <1>10, <1>12, <2>2, <2>3
    <3>2. family'[g].status # "reuse" /\ \E j \in All : Has(exchange'[j], g) /\ Renewed(exchange'[j])
      BY <1>7, <1>10, <1>12, <2>3
    <3> QED  BY <2>2, <3>1, <3>2 DEF Kept, Has, Renewed, Live
  <2>4. CASE g # f
    <3>1. family'[g] = family[g]
      BY <1>7, <2>4
    <3>2. \A j \in All : Has(exchange[j], g) => exchange'[j] = exchange[j]
      BY <1>2, <1>10, <1>12, <2>4 DEF Has
    <3>3. Live(g)' => \A j \in All : Has(exchange'[j], g) => exchange'[j].secret.n = family'[g].n
      BY <1>11, <2>1, <3>1, <3>2 DEF Kept, Live
    <3>4. Live(g)' /\ cookie' # None /\ cookie'.family = g =>
            \/ cookie'.n = family'[g].n
            \/ \E j \in All : Has(exchange'[j], g) /\ Renewed(exchange'[j])
      BY <1>10, <2>1, <3>1, <3>2 DEF Kept, Live
    <3> QED  BY <2>1, <2>2, <3>1, <3>3, <3>4 DEF Kept, Has, Renewed, Live
  <2> QED  BY <2>3, <2>4
<1> QED  BY <1>8, <1>10, <1>13, <1>14 DEF IInv

LEMMA ServeRefreshInvariant ==
  ASSUME IInv, NEW i \in All, exchange[i] # None, exchange[i].at = "out", ServeRefresh(i)
  PROVE  IInv'
<1> DEFINE Rows == [status : {"unused", "live", "logout", "reuse", "password", "admin", "aged"},
                    n : 0..MaxSecret]
<1>1. /\ family \in [Families -> Rows] /\ epoch' \in Nat /\ active' \in BOOLEAN
      /\ exchange[i].op = "refresh" /\ exchange[i].secret \in Secret \cup {None}
      /\ UNCHANGED <<epoch, active>>
  BY DEF IInv, TypeOK, All, ServeRefresh, Exchange
<1>2. CASE exchange[i].secret = None /\ UNCHANGED family
           /\ Answers(i, [exchange[i] EXCEPT !.answer = "refused"])
  BY <1>1, <1>2, SaysCalmly
<1>3. ASSUME NEW s \in Secret, s = exchange[i].secret
      PROVE  IInv'
  <2>0. s.family \in Families /\ s # None
    BY NoneAssumption DEF Secret
  <2>1. CASE /\ Current(s) /\ ~TooOld(s)
             /\ family' = [family EXCEPT ![s.family].n = s.n + 1]
             /\ Answers(i, [exchange[i] EXCEPT !.answer = "ok", !.secret = [s EXCEPT !.n = s.n + 1],
                                               !.token = [family |-> s.family, epoch |-> epoch]])
    BY <1>1, <1>3, <2>1, RotationInvariant
  <2>2. CASE /\ ~Current(s)
             /\ family' = [family EXCEPT ![s.family].status = IF @ = "live" THEN "reuse" ELSE @]
             /\ Answers(i, [exchange[i] EXCEPT !.answer = "refused"])
    <3>1. PICK row \in Rows : row = family[s.family]
      BY <1>1, <2>0
    <3>2. PICK fallen \in Rows :
            /\ fallen = [row EXCEPT !.status = IF row.status = "live" THEN "reuse" ELSE row.status]
            /\ fallen.status = IF row.status = "live" THEN "reuse" ELSE row.status
            /\ fallen.n = row.n
      <4> DEFINE fallen == [row EXCEPT !.status = IF row.status = "live" THEN "reuse" ELSE row.status]
      <4>1. fallen \in Rows
        OBVIOUS
      <4>2. /\ fallen.status = IF row.status = "live" THEN "reuse" ELSE row.status
            /\ fallen.n = row.n
        OBVIOUS
      <4> QED  BY <4>1, <4>2
    <3>3. family' = [family EXCEPT ![s.family] = fallen]
      BY <2>2, <3>1, <3>2
    <3>4. family' \in [Families -> Rows]
      BY <1>1, <3>3
    <3>5. row.status = "live" => ~Clean(s.family)
      <4> SUFFICES ASSUME row.status = "live", Clean(s.family)  PROVE FALSE
        OBVIOUS
      <4>1. Has(exchange[i], s.family)
        BY <1>3, <2>0 DEF Has
      <4>2. s.n = row.n
        BY <1>3, <2>0, <3>1, <4>1 DEF IInv, Kept, Live
      <4>3. row = [status |-> row.status, n |-> row.n]
        OBVIOUS
      <4> QED  BY <2>2, <3>1, <4>2, <4>3 DEF Current
    <3>6. row.status # "live" => fallen = row
      BY <3>2
    <3>7. ASSUME NEW f \in Families
          PROVE  \/ family'[f] = family[f]
                 \/ /\ family[f].status # "unused" /\ family'[f].status \notin {"unused", "live"}
                    /\ family'[f].status = "reuse" => family[f].status = "reuse" \/ ~Clean(f)
      BY <1>1, <3>1, <3>2, <3>3, <3>5, <3>6
    <3> QED  BY <1>1, <2>2, <3>4, <3>7, SaysCalmly
  <2>3. CASE /\ Current(s)
             /\ family' = [family EXCEPT ![s.family].status = "aged"]
             /\ Answers(i, [exchange[i] EXCEPT !.answer = "refused"])
    <3>1. family' \in [Families -> Rows]
      BY <1>1, <2>0, <2>3
    <3>2. ASSUME NEW f \in Families
          PROVE  \/ family'[f] = family[f]
                 \/ /\ family[f].status # "unused" /\ family'[f].status \notin {"unused", "live"}
                    /\ family'[f].status = "reuse" => family[f].status = "reuse" \/ ~Clean(f)
      BY <1>1, <2>0, <2>3 DEF Current
    <3> QED  BY <1>1, <2>3, <3>1, <3>2, SaysCalmly
  <2> QED  BY <1>3, <2>0, <2>1, <2>2, <2>3 DEF ServeRefresh
<1> QED  BY <1>1, <1>2, <1>3 DEF ServeRefresh

LEMMA ServeLogoutInvariant ==
  ASSUME IInv, NEW i \in All, exchange[i] # None, exchange[i].at = "out", ServeLogout(i)
  PROVE  IInv'
<1> DEFINE Rows == [status : {"unused", "live", "logout", "reuse", "password", "admin", "aged"},
                    n : 0..MaxSecret]
<1>1. family \in [Families -> Rows] /\ epoch' \in Nat /\ active' \in BOOLEAN
  BY DEF IInv, TypeOK, ServeLogout
<1>2. ASSUME NEW f \in Families
      PROVE  /\ family'[f] \in Rows
             /\ \/ family'[f] = family[f]
                \/ /\ family[f].status # "unused" /\ family'[f].status \notin {"unused", "live"}
                   /\ family'[f].status = "reuse" => family[f].status = "reuse" \/ ~Clean(f)
  BY <1>1 DEF ServeLogout
<1>3. family' \in [Families -> Rows]
  BY <1>2 DEF ServeLogout
<1> QED  BY <1>1, <1>2, <1>3, SaysCalmly DEF ServeLogout

\* An answer that changes nothing of the tables.
LEMMA SaysOnly ==
  ASSUME IInv, NEW i \in All, exchange[i] # None, exchange[i].at = "out",
         NEW a \in {"ok", "refused", "expired", "invalid", "error"},
         exchange[i].op \notin {"refresh", "logout"},
         Answers(i, [exchange[i] EXCEPT !.answer = a]), UNCHANGED server
  PROVE  IInv'
BY SaysCalmly DEF IInv, TypeOK, server

LEMMA ServeLoginInvariant ==
  ASSUME IInv, NEW i \in All, exchange[i] # None, exchange[i].at = "out", ServeLogin(i)
  PROVE  IInv'
<1>1. exchange[i].op = "login" /\ UNCHANGED <<epoch, active>> /\ epoch \in Nat
  BY DEF ServeLogin, IInv, TypeOK
<1>2. CASE Opens(i, exchange[i], family, epoch)
  BY <1>1, <1>2, OpensInvariant
<1>3. CASE UNCHANGED family /\ Answers(i, [exchange[i] EXCEPT !.answer = "refused"])
  BY <1>1, <1>3, SaysOnly DEF server
<1> QED  BY <1>2, <1>3 DEF ServeLogin

LEMMA VerdictsAreAnswers ==
  ASSUME NEW k
  PROVE  Verdicts(k) \subseteq {"ok", "expired", "invalid", "error"}
BY DEF Verdicts

LEMMA ServeCallInvariant ==
  ASSUME IInv, NEW i \in All, exchange[i] # None, exchange[i].at = "out", ServeCall(i)
  PROVE  IInv'
<1>1. PICK a \in {"ok", "refused", "expired", "invalid", "error"} :
        Answers(i, [exchange[i] EXCEPT !.answer = a])
  BY VerdictsAreAnswers DEF ServeCall
<1> QED  BY <1>1, SaysOnly DEF ServeCall

LEMMA ServePasswordInvariant ==
  ASSUME IInv, NEW i \in All, exchange[i] # None, exchange[i].at = "out", ServePassword(i)
  PROVE  IInv'
<1>1. CASE /\ exchange[i].op \in {"password", "reset"}
           /\ Opens(i, exchange[i], Closed("password"), epoch + 1)
           /\ epoch' = epoch + 1 /\ active' = active
  <2>1. PICK now, former : now \in Nat /\ now = epoch + 1 /\ former = Closed("password")
    BY DEF IInv, TypeOK
  <2>2. Opens(i, exchange[i], former, now) /\ epoch' = now /\ active' = active
    BY <1>1, <2>1
  <2> QED  BY <1>1, <2>1, <2>2, OpensInvariant
<1>2. CASE /\ exchange[i].op \in {"password", "reset"} /\ UNCHANGED server
           /\ \E a \in {"ok", "refused", "expired", "invalid", "error"} :
                Answers(i, [exchange[i] EXCEPT !.answer = a])
  BY <1>2, SaysOnly
<1> QED  BY <1>1, <1>2, VerdictsAreAnswers DEF ServePassword

LEMMA DecideInvariant ==
  ASSUME IInv, Decide
  PROVE  IInv'
<1> DEFINE Rows == [status : {"unused", "live", "logout", "reuse", "password", "admin", "aged"},
                    n : 0..MaxSecret]
<1>1. /\ family \in [Families -> Rows] /\ epoch' \in Nat /\ active' \in BOOLEAN
      /\ UNCHANGED <<cookie, tab, exchange, left, overlapped, troubled>>
  <2>1. family \in [Families -> Rows] /\ epoch \in Nat /\ active \in BOOLEAN
    BY DEF IInv, TypeOK
  <2>2. epoch' = epoch + 1 \/ epoch' = epoch
    BY DEF Decide
  <2>3. active' = FALSE \/ active' = active
    BY DEF Decide
  <2>4. UNCHANGED <<cookie, tab, exchange, left, overlapped, troubled>>
    BY DEF Decide
  <2>5. epoch' \in Nat
    BY <2>1, <2>2
  <2>6. active' \in BOOLEAN
    BY <2>1, <2>3
  <2> QED  BY <2>1, <2>4, <2>5, <2>6
<1>2. ASSUME NEW f \in Families
      PROVE  /\ family'[f] \in Rows
             /\ \/ family'[f] = family[f]
                \/ /\ family[f].status # "unused" /\ family'[f].status \notin {"unused", "live"}
                   /\ family'[f].status = "reuse" => family[f].status = "reuse" \/ ~Clean(f)
  BY <1>1 DEF Decide, Closed
<1>3. family' \in [Families -> Rows]
  BY <1>2 DEF Decide, Closed
<1>4. TypeOK'
  BY <1>1, <1>3 DEF IInv, TypeOK
<1>5. Unknown' /\ \A f \in Families : Clean(f)' => Kept(f)'
  BY <1>1, <1>2, NothingSent
<1> QED  BY <1>1, <1>4, <1>5 DEF IInv, OneRotation


-----------------------------------------------------------------------------
(* Answers *)

LEMMA HeardInvariant ==
  ASSUME IInv, NEW i \in All, exchange[i] # None,
         cookie' = Stored(exchange[i]), UNCHANGED <<server, overlapped, troubled>>,
         exchange' \in [All -> Exchange \cup {None}],
         exchange'[i] = None \/ exchange[i].secret = None,
         \A j \in All : exchange'[j] # None =>
           /\ exchange[j] # None /\ exchange'[j].op = exchange[j].op
           /\ exchange'[j].tab = exchange[j].tab /\ exchange'[j].secret = exchange[j].secret
           /\ Shaped(exchange'[j]),
         \A j \in All \ {i} : exchange[j] # None /\ exchange[j].secret # None => exchange'[j] = exchange[j],
         tab' \in [Tabs -> Tab], left' \in [Tabs -> SUBSET Families],
         \A j \in All : exchange'[j] # None /\ exchange'[j].op = "refresh" /\ exchange'[j].tab # None
                          => tab'[exchange'[j].tab].rotation = tab[exchange'[j].tab].rotation
  PROVE  IInv'
<1>1. PICK e \in Exchange : e = exchange[i]
  BY DEF IInv, TypeOK, All
<1>2. /\ cookie' = Stored(e) /\ e.secret \in Secret \cup {None} /\ cookie \in Secret \cup {None}
      /\ exchange' \in [All -> Exchange \cup {None}]
      /\ UNCHANGED <<family, epoch, active, overlapped, troubled>>
  BY <1>1 DEF Exchange, IInv, TypeOK, server
<1>3. \/ cookie' = None
      \/ cookie' = e.secret
      \/ cookie' = cookie /\ ~(Renewed(e) /\ e.secret # None)
  BY <1>2 DEF Stored, Renewed
<1>4. TypeOK'
  BY <1>2, <1>3 DEF IInv, TypeOK, All
<1>5. OneRotation'
  BY DEF IInv, OneRotation
<1>6. \A j \in All, f \in Families :
        Has(exchange'[j], f) => Has(exchange[j], f) /\ exchange'[j].secret = exchange[j].secret
  BY DEF Has
<1>7. cookie' = cookie /\ ~(Renewed(e) /\ e.secret # None) =>
        \A j \in All, f \in Families :
          Clean(f)' /\ Has(exchange[j], f) /\ Renewed(exchange[j])
            => Has(exchange'[j], f) /\ Renewed(exchange'[j])
  BY <1>1 DEF Has
<1>8. \/ cookie' = None
      \/ \E j \in All : exchange[j] # None /\ cookie' = exchange[j].secret
      \/ /\ cookie' = cookie
         /\ \A j \in All, f \in Families :
              Clean(f)' /\ Has(exchange[j], f) /\ Renewed(exchange[j])
                => Has(exchange'[j], f) /\ Renewed(exchange'[j])
  BY <1>1, <1>3, <1>7
<1>9. /\ \A f \in Families : family'[f] = family[f]
      /\ overlapped \subseteq overlapped' /\ troubled \subseteq troubled'
  BY <1>2
<1>10. Unknown' /\ \A f \in Families : Clean(f)' => Kept(f)'
  BY <1>6, <1>8, <1>9, NothingSent
<1> QED  BY <1>4, <1>5, <1>10 DEF IInv

\* An answer that ends its exchange and starts nothing.
LEMMA EndedInvariant ==
  ASSUME IInv, NEW i \in All, exchange[i] # None,
         cookie' = Stored(exchange[i]), UNCHANGED <<server, overlapped, troubled>>,
         exchange' = [exchange EXCEPT ![i] = None],
         tab' \in [Tabs -> Tab], left' \in [Tabs -> SUBSET Families],
         \A t \in Tabs : tab'[t].rotation = tab[t].rotation
  PROVE  IInv'
<1>1. exchange \in [All -> Exchange \cup {None}]
  BY DEF IInv, TypeOK, All
<1>2. \A j \in All : exchange'[j] = IF j = i THEN None ELSE exchange[j]
  BY <1>1
<1>3. exchange' \in [All -> Exchange \cup {None}]
  BY <1>1
<1>4. \A j \in All : exchange'[j] # None =>
        /\ exchange[j] # None /\ exchange'[j].op = exchange[j].op
        /\ exchange'[j].tab = exchange[j].tab /\ exchange'[j].secret = exchange[j].secret
        /\ Shaped(exchange'[j])
  BY <1>2 DEF IInv
<1>5. \A j \in All : exchange'[j] # None /\ exchange'[j].op = "refresh" /\ exchange'[j].tab # None
        => tab'[exchange'[j].tab].rotation = tab[exchange'[j].tab].rotation
  BY <1>3 DEF Exchange
<1> QED  BY <1>2, <1>3, <1>4, <1>5, HeardInvariant

LEMMA MemoryOfTabs ==
  ASSUME TypeOK, NEW t \in Tabs, NEW token \in Token \cup {None}, NEW memory,
         memory = [tab EXCEPT ![t].token = token]
  PROVE  /\ memory \in [Tabs -> Tab]
         /\ \A u \in Tabs : memory[u].rotation = tab[u].rotation
         /\ \A u \in Tabs \ {t} : memory[u] = tab[u]
BY DEF TypeOK, Tab

LEMMA TabsAreKept ==
  ASSUME TypeOK, NEW t \in Tabs, NEW e \in Exchange,
         tab' \in {tab, Cleared(t), SessionOf(t, e)}
  PROVE  /\ tab' \in [Tabs -> Tab]
         /\ \A u \in Tabs : tab'[u].rotation = tab[u].rotation
<1>1. CASE tab' = tab
  BY <1>1 DEF TypeOK
<1>2. CASE tab' = Cleared(t)
  BY <1>2, MemoryOfTabs DEF Cleared
<1>3. CASE tab' = SessionOf(t, e)
  <2>1. e.token \in Token \cup {None}
    BY DEF Exchange
  <2> QED  BY <1>3, <2>1, MemoryOfTabs DEF SessionOf
<1> QED  BY <1>1, <1>2, <1>3

LEMMA HearRefreshInvariant ==
  ASSUME IInv, NEW i \in All, exchange[i] # None, exchange[i].tab # None,
         cookie' = Stored(exchange[i]), UNCHANGED <<server, troubled>>, HearRefresh(i)
  PROVE  IInv'
<1>1. exchange \in [All -> Exchange \cup {None}] /\ tab \in [Tabs -> Tab]
  BY DEF IInv, TypeOK, All
<1>2. PICK e \in Exchange, t \in Tabs, token \in Token \cup {None} :
        e = exchange[i] /\ e.op = "refresh" /\ e.tab = t /\ token = e.token
  BY <1>1 DEF Exchange, HearRefresh
<1>3. /\ exchange' = [Resumed(t, e) EXCEPT ![i] = None]
      /\ tab' = [(IF e.answer = "ok" THEN SessionOf(t, e) ELSE Cleared(t))
                    EXCEPT ![t].rotation = None, ![t].page = "open"]
      /\ UNCHANGED <<left, overlapped>>
  BY <1>2 DEF HearRefresh
<1>4. tab' \in [Tabs -> Tab] /\ \A u \in Tabs \ {t} : tab'[u] = tab[u]
  <2>1. PICK memory : memory = IF e.answer = "ok" THEN SessionOf(t, e) ELSE Cleared(t)
    OBVIOUS
  <2>2. memory \in [Tabs -> Tab] /\ \A u \in Tabs \ {t} : memory[u] = tab[u]
    <3>1. CASE memory = SessionOf(t, e)
      <4>1. memory = [tab EXCEPT ![t].token = token] /\ TypeOK
        BY <1>2, <3>1 DEF IInv, SessionOf
      <4> QED  BY <4>1 DEF TypeOK, Tab
    <3>2. CASE memory = Cleared(t)
      <4>1. memory = [tab EXCEPT ![t].token = None] /\ TypeOK
        BY <3>2 DEF IInv, Cleared
      <4> QED  BY <4>1 DEF TypeOK, Tab
    <3> QED  BY <2>1, <3>1, <3>2
  <2>3. tab' = [memory EXCEPT ![t].rotation = None, ![t].page = "open"]
    BY <1>3, <2>1
  <2> QED  BY <2>2, <2>3 DEF Tab
<1>5. ASSUME NEW j \in All, exchange[j] # None, exchange[j].at = "waits"
      PROVE  /\ [exchange[j] EXCEPT !.at = "out", !.token = e.token, !.retried = TRUE] \in Exchange
             /\ [exchange[j] EXCEPT !.at = "out", !.token = e.token, !.retried = TRUE].op = exchange[j].op
             /\ [exchange[j] EXCEPT !.at = "out", !.token = e.token, !.retried = TRUE].tab = exchange[j].tab
             /\ [exchange[j] EXCEPT !.at = "out", !.token = e.token, !.retried = TRUE].secret = None
             /\ exchange[j].secret = None
             /\ Shaped([exchange[j] EXCEPT !.at = "out", !.token = e.token, !.retried = TRUE])
  <2>1. PICK o \in Exchange : o = exchange[j] /\ Shaped(o)
    BY <1>1, <1>5 DEF IInv
  <2>2. o.secret = None /\ o.op # "refresh"
    BY <1>5, <2>1 DEF Shaped
  <2>3. PICK again : again = [o EXCEPT !.at = "out", !.token = token, !.retried = TRUE]
    OBVIOUS
  <2>4. again \in Exchange
    BY <2>3 DEF Exchange
  <2>5. /\ again.op = o.op /\ again.tab = o.tab /\ again.secret = o.secret /\ again.at = "out"
        /\ again.answer = o.answer
    BY <2>3 DEF Exchange
  <2>6. Shaped(again)
    BY <2>1, <2>2, <2>5 DEF Shaped
  <2> QED  BY <1>2, <2>1, <2>2, <2>3, <2>4, <2>5, <2>6
<1>6. ASSUME NEW j \in All
      PROVE  /\ exchange'[j] \in Exchange \cup {None}
             /\ exchange'[j] # None =>
                  /\ j # i /\ exchange[j] # None /\ exchange'[j].op = exchange[j].op
                  /\ exchange'[j].tab = exchange[j].tab /\ exchange'[j].secret = exchange[j].secret
                  /\ Shaped(exchange'[j])
             /\ j # i /\ exchange[j] # None /\ exchange[j].secret # None => exchange'[j] = exchange[j]
  <2>1. exchange'[j] = IF j = i THEN None ELSE Resumed(t, e)[j]
    BY <1>1, <1>3 DEF Resumed
  <2>2. Resumed(t, e)[j] =
          IF Under(t, j) /\ exchange[j].at = "waits"
          THEN IF e.answer = "ok"
               THEN [exchange[j] EXCEPT !.at = "out", !.token = e.token, !.retried = TRUE]
               ELSE None
          ELSE exchange[j]
    BY <1>1 DEF Resumed
  <2>3. CASE j = i
    BY <2>1, <2>3
  <2>4. CASE j # i /\ Under(t, j) /\ exchange[j].at = "waits"
    <3>1. exchange[j] # None /\ exchange[j].secret = None
      BY <1>5, <2>4 DEF Under
    <3>2. CASE e.answer = "ok"
      BY <1>5, <2>1, <2>2, <2>4, <3>1, <3>2
    <3>3. CASE e.answer # "ok"
      BY <2>1, <2>2, <2>4, <3>1, <3>3
    <3> QED  BY <3>2, <3>3
  <2>5. CASE j # i /\ ~(Under(t, j) /\ exchange[j].at = "waits")
    BY <1>1, <2>1, <2>2, <2>5 DEF IInv
  <2> QED  BY <2>3, <2>4, <2>5
<1>7. exchange' \in [All -> Exchange \cup {None}]
  <2>1. exchange' = [j \in All |-> exchange'[j]]
    BY <1>1, <1>3 DEF Resumed
  <2> QED  BY <1>6, <2>1
<1>8. ASSUME NEW j \in All, exchange'[j] # None, exchange'[j].op = "refresh", exchange'[j].tab # None
      PROVE  tab'[exchange'[j].tab].rotation = tab[exchange'[j].tab].rotation
  <2>1. j # i /\ exchange[j] # None /\ exchange[j].op = "refresh" /\ exchange[j].tab = exchange'[j].tab
    BY <1>6, <1>8
  <2>2. exchange[j].tab \in Tabs /\ tab[exchange[j].tab].rotation = j
    BY <1>1, <1>8, <2>1 DEF IInv, OneRotation, Exchange
  <2>3. tab[t].rotation = i
    BY <1>2 DEF IInv, OneRotation
  <2> QED  BY <1>4, <2>1, <2>2, <2>3
<1>9. exchange'[i] = None
  BY <1>6
<1>10. left' \in [Tabs -> SUBSET Families] /\ UNCHANGED <<server, overlapped, troubled>>
  BY <1>3 DEF IInv, TypeOK
<1> QED  BY <1>4, <1>6, <1>7, <1>8, <1>9, <1>10, HeardInvariant

LEMMA HearLogoutInvariant ==
  ASSUME IInv, NEW i \in All, exchange[i] # None, exchange[i].tab # None,
         cookie' = Stored(exchange[i]), UNCHANGED <<server, troubled>>, HearLogout(i)
  PROVE  IInv'
<1>1. PICK e \in Exchange, t \in Tabs : e = exchange[i] /\ e.tab = t
  BY DEF Exchange, IInv, TypeOK, All
<1>2. /\ exchange' = [exchange EXCEPT ![i] = None] /\ tab' = Cleared(t) /\ overlapped' = overlapped
      /\ left' = [left EXCEPT ![t] = @ \cup {f \in Families : /\ e.answer = "ok"
                                                             /\ tab[t].token # None
                                                             /\ tab[t].token.family = f}]
  BY <1>1 DEF HearLogout
<1>3. left \in [Tabs -> SUBSET Families]
  BY DEF IInv, TypeOK
<1>4. left' \in [Tabs -> SUBSET Families]
  BY <1>2, <1>3
<1>5. tab' \in [Tabs -> Tab] /\ \A u \in Tabs : tab'[u].rotation = tab[u].rotation
  BY <1>2, TabsAreKept DEF IInv
<1> QED  BY <1>2, <1>4, <1>5, EndedInvariant

\* The answers to a form or a call.
LEMMA HearAnswerInvariant ==
  ASSUME IInv, NEW i \in All, exchange[i] # None, exchange[i].tab # None,
         cookie' = Stored(exchange[i]), UNCHANGED <<server, troubled>>,
         HearSession(i) \/ HearCall(i) \/ GiveUp(i)
  PROVE  IInv'
<1>1. PICK e \in Exchange, t \in Tabs : e = exchange[i] /\ e.tab = t
  BY DEF Exchange, IInv, TypeOK, All
<1>2. /\ exchange' = [exchange EXCEPT ![i] = None] /\ UNCHANGED <<left, overlapped>>
      /\ tab' \in {tab, Cleared(t), SessionOf(t, e)}
  BY <1>1 DEF HearSession, HearCall, GiveUp
<1>3. tab' \in [Tabs -> Tab] /\ \A u \in Tabs : tab'[u].rotation = tab[u].rotation
  BY <1>2, TabsAreKept DEF IInv
<1>4. left' \in [Tabs -> SUBSET Families]
  BY <1>2 DEF IInv, TypeOK
<1> QED  BY <1>2, <1>3, <1>4, EndedInvariant

\* A call whose token is refused waits for the rotation of its tab, which it starts if there is
\* none.
LEMMA RefreshSharedInvariant ==
  ASSUME IInv, NEW i \in All, exchange[i] # None, exchange[i].tab # None,
         cookie' = Stored(exchange[i]), UNCHANGED <<server, troubled>>, RefreshShared(i)
  PROVE  IInv'
<1>1. exchange \in [All -> Exchange \cup {None}] /\ tab \in [Tabs -> Tab] /\ DOMAIN exchange = All
  BY DEF IInv, TypeOK, All
<1>2. PICK o \in Exchange, t \in Tabs : o = exchange[i] /\ o.tab = t /\ o.answer = "expired"
  BY <1>1 DEF Exchange, RefreshShared
<1>3. o.secret = None /\ o.op \in {"call", "login", "password", "reset"}
  BY <1>2 DEF IInv, Shaped, Exchange, Operations
<1>4. cookie' = cookie
  BY <1>2, <1>3 DEF Stored
<1>5. PICK w \in Exchange :
        /\ w = [o EXCEPT !.at = "waits"] /\ w # None /\ w.at = "waits" /\ w.answer = o.answer
        /\ w.op = o.op /\ w.tab = t /\ w.secret = None
  <2> DEFINE waits == [o EXCEPT !.at = "waits"]
  <2>1. waits \in Exchange
    BY DEF Exchange
  <2>2. /\ waits.at = "waits" /\ waits.answer = o.answer /\ waits.op = o.op
        /\ waits.tab = o.tab /\ waits.secret = o.secret
    BY DEF Exchange
  <2> HIDE DEF waits
  <2>3. waits # None
    BY <2>1, NoneAssumption
  <2> QED  BY <1>2, <1>3, <2>1, <2>2, <2>3 DEF waits
<1>6. PICK others : others = [exchange EXCEPT ![i] = w]
  OBVIOUS
<1>7. /\ others \in [All -> Exchange \cup {None}] /\ DOMAIN others = All
      /\ \A j \in All : others[j] = IF j = i THEN w ELSE exchange[j]
  BY <1>1, <1>6
<1>8. Shaped(w)
  BY <1>2, <1>3, <1>5 DEF Shaped
<1>9. CASE /\ exchange' = [exchange EXCEPT ![i].at = "waits"] /\ UNCHANGED <<tab, overlapped, left>>
  <2>1. exchange' = others
    BY <1>1, <1>2, <1>5, <1>6, <1>9
  <2>2. exchange' \in [All -> Exchange \cup {None}] /\ exchange[i].secret = None
    BY <1>2, <1>3, <1>7, <2>1
  <2>3. \A j \in All : exchange'[j] # None =>
          /\ exchange[j] # None /\ exchange'[j].op = exchange[j].op
          /\ exchange'[j].tab = exchange[j].tab /\ exchange'[j].secret = exchange[j].secret
          /\ Shaped(exchange'[j])
    BY <1>2, <1>3, <1>5, <1>7, <1>8, <2>1 DEF IInv
  <2>4. \A j \in All \ {i} : exchange'[j] = exchange[j]
    BY <1>7, <2>1
  <2>5. tab' \in [Tabs -> Tab] /\ left' \in [Tabs -> SUBSET Families] /\ tab' = tab
        /\ UNCHANGED <<server, overlapped, troubled>>
    BY <1>1, <1>9 DEF IInv, TypeOK
  <2> QED  BY <2>2, <2>3, <2>4, <2>5, HeardInvariant
<1>10. CASE /\ tab[t].rotation = None
            /\ Free(Rotations) # {}
            /\ LET r == CHOOSE r \in Free(Rotations) : TRUE
               IN /\ exchange' = [exchange EXCEPT ![i].at = "waits", ![r] = Sent("refresh", t)]
                  /\ tab' = [tab EXCEPT ![t].rotation = r]
            /\ overlapped' = overlapped \cup Overlaps(Sent("refresh", t), exchange)
            /\ UNCHANGED left
  <2>1. PICK e \in Exchange :
          /\ e = Sent("refresh", t) /\ e # None
          /\ e.op = "refresh" /\ e.tab = t /\ e.at = "out" /\ e.answer = "none" /\ e.secret = cookie
    BY SentIsAnExchange DEF IInv
  <2>2. PICK r \in Rotations :
          /\ exchange[r] = None
          /\ exchange' = [exchange EXCEPT ![i].at = "waits", ![r] = e]
          /\ tab' = [tab EXCEPT ![t].rotation = r]
    <3>1. (CHOOSE r \in Free(Rotations) : TRUE) \in Free(Rotations)
      BY <1>10
    <3> QED  BY <1>10, <2>1, <3>1 DEF Free
  <2>3. r \in All /\ r # i /\ r # None
    BY <2>2, NoneAssumption DEF All
  <2>4. exchange' = [others EXCEPT ![r] = e] /\ others[r] = None
    BY <1>1, <1>2, <1>5, <1>6, <1>7, <2>2, <2>3
  <2>5. overlapped' = overlapped \cup Overlaps(e, exchange) /\ left' = left
    BY <1>10, <2>1
  <2>6. \A j \in All : exchange'[j] = IF j = r THEN e ELSE others[j]
    BY <1>7, <2>4
  <2>7. TypeOK'
    <3>1. exchange' \in [All -> Exchange \cup {None}]
      BY <1>7, <2>4
    <3>2. tab' \in [Tabs -> Tab]
      BY <1>1, <2>2 DEF Tab
    <3>3. overlapped' \subseteq Families
      BY <1>1, <2>5, OverlapsAreFamilies DEF IInv, TypeOK
    <3> QED  BY <1>4, <2>5, <3>1, <3>2, <3>3 DEF IInv, TypeOK, server, All
  <2>8. \A j \in All : exchange'[j] # None => Shaped(exchange'[j])
    <3>1. Shaped(e)
      BY <2>1 DEF Shaped
    <3> QED  BY <1>7, <1>8, <2>6, <3>1 DEF IInv
  <2>9. OneRotation'
    <3> SUFFICES ASSUME NEW j \in All, exchange'[j] # None, exchange'[j].op = "refresh", exchange'[j].tab # None
                 PROVE  tab'[exchange'[j].tab].rotation = j
      BY DEF OneRotation
    <3>1. CASE j = r
      BY <1>1, <2>1, <2>2, <2>6, <3>1 DEF Tab
    <3>2. CASE j # r
      <4>1. exchange'[j] = exchange[j] /\ j # i
        BY <1>3, <1>5, <1>7, <2>6, <3>2
      <4>2. exchange[j].tab \in Tabs /\ tab[exchange[j].tab].rotation = j
        BY <1>1, <4>1 DEF IInv, OneRotation, Exchange
      <4>3. j # None
        BY NoneAssumption DEF All
      <4>4. exchange[j].tab # t
        BY <1>10, <4>2, <4>3
      <4> QED  BY <1>1, <2>2, <4>1, <4>2, <4>4
    <3> QED  BY <3>1, <3>2
  <2>10. (\E j \in All : others[j] # None /\ others[j].op # "call") => FamilyOf(e) \subseteq overlapped'
    <3> SUFFICES ASSUME NEW j \in All, others[j] # None, others[j].op # "call"
                 PROVE  FamilyOf(e) \subseteq overlapped'
      OBVIOUS
    <3>1. exchange[j] # None /\ exchange[j].op = others[j].op
      BY <1>2, <1>5, <1>7
    <3>2. ~(exchange[j].op = "refresh" /\ exchange[j].tab = t)
      <4>1. t # None /\ j # None
        BY NoneAssumption DEF All
      <4> QED  BY <1>10, <3>1, <4>1 DEF IInv, OneRotation
    <3>3. FamilyOf(e) \subseteq Overlaps(e, exchange)
      BY <1>1, <2>1, <3>1, <3>2, OverlapsMeet
    <3> QED  BY <2>5, <3>3
  <2>11. /\ \A j \in All : others[j] # None =>
              /\ exchange[j] # None
              /\ others[j].op = exchange[j].op /\ others[j].secret = exchange[j].secret
              /\ others[j].at = exchange[j].at \/ exchange[j].secret = None
              /\ others[j].answer = exchange[j].answer
         /\ \A j \in All, f \in Families : Has(exchange[j], f) /\ others[j] = None => f \in troubled'
    BY <1>2, <1>3, <1>5, <1>7 DEF Has
  <2>12. /\ e.op \in {"refresh", "logout"} /\ e.secret = cookie
         /\ UNCHANGED <<family, cookie>> /\ overlapped \subseteq overlapped' /\ troubled \subseteq troubled'
    BY <1>4, <2>1, <2>5 DEF server
  <2>13. Unknown' /\ \A f \in Families : Clean(f)' => Kept(f)'
    <3>1. DOMAIN others = All /\ r \in All
      BY <1>7, <2>3
    <3> QED  BY <2>4, <2>10, <2>11, <2>12, <3>1, CookieSent
  <2> QED  BY <2>7, <2>8, <2>9, <2>13 DEF IInv
<1> QED  BY <1>2, <1>9, <1>10 DEF RefreshShared

LEMMA DeliverInvariant ==
  ASSUME IInv, NEW i \in All, Deliver(i)
  PROVE  IInv'
<1>1. /\ exchange[i] # None /\ exchange[i].tab # None
      /\ cookie' = Stored(exchange[i]) /\ UNCHANGED <<server, troubled>>
  BY DEF Deliver
<1>2. Hear(i)
  BY DEF Deliver
<1> QED  BY <1>1, <1>2, HearRefreshInvariant, HearLogoutInvariant, HearAnswerInvariant,
            RefreshSharedInvariant DEF Hear

-----------------------------------------------------------------------------
(* Losses *)

\* An exchange ends or changes without its secret: nobody will say what became of its session.
LEMMA SecretLost ==
  ASSUME IInv, NEW i \in All, exchange[i] # None, NEW e \in Exchange \cup {None},
         exchange' = [exchange EXCEPT ![i] = e],
         e # None => /\ e.op = exchange[i].op /\ e.tab = exchange[i].tab
                     /\ e.secret = None /\ Shaped(e),
         troubled' = troubled \cup FamilyOf(exchange[i]),
         UNCHANGED <<server, cookie, tab, left, overlapped>>
  PROVE  IInv'
<1>1. exchange \in [All -> Exchange \cup {None}]
  BY DEF IInv, TypeOK, All
<1>2. \A j \in All : exchange'[j] = IF j = i THEN e ELSE exchange[j]
  BY <1>1
<1>3. exchange' \in [All -> Exchange \cup {None}] /\ FamilyOf(exchange[i]) \subseteq Families
  BY <1>1, FamiliesOfExchanges
<1>4. TypeOK'
  BY <1>3 DEF IInv, TypeOK, server, All
<1>5. \A j \in All : exchange'[j] # None => Shaped(exchange'[j])
  BY <1>2 DEF IInv
<1>6. OneRotation'
  BY <1>2 DEF IInv, OneRotation
<1>7. \A j \in All, f \in Families :
        Has(exchange'[j], f) => Has(exchange[j], f) /\ exchange'[j].secret = exchange[j].secret
  BY <1>2 DEF Has
<1>8. ASSUME NEW j \in All, NEW f \in Families, Clean(f)', Has(exchange[j], f), Renewed(exchange[j])
      PROVE  Has(exchange'[j], f) /\ Renewed(exchange'[j])
  <2>1. j # i
    BY <1>8 DEF Has, FamilyOf, Clean
  <2> QED  BY <1>2, <1>8, <2>1
<1>9. /\ \A f \in Families : family'[f] = family[f]
      /\ overlapped \subseteq overlapped' /\ troubled \subseteq troubled' /\ cookie' = cookie
  BY DEF server
<1>10. Unknown' /\ \A f \in Families : Clean(f)' => Kept(f)'
  BY <1>7, <1>8, <1>9, NothingSent
<1> QED  BY <1>4, <1>5, <1>6, <1>10 DEF IInv

LEMMA DropInvariant ==
  ASSUME IInv, NEW i \in All, Drop(i)
  PROVE  IInv'
BY SecretLost DEF Drop

LEMMA LoseInvariant ==
  ASSUME IInv, NEW i \in All, Lose(i)
  PROVE  IInv'
<1>1. PICK o \in Exchange : o = exchange[i]
  BY DEF IInv, TypeOK, All, Lose
<1>2. PICK e \in Exchange :
        /\ e = [o EXCEPT !.at = "back", !.answer = "error", !.secret = None, !.token = None]
        /\ e.op = o.op /\ e.tab = o.tab /\ e.secret = None /\ e.at = "back" /\ e.answer = "error"
  <2> DEFINE lost == [o EXCEPT !.at = "back", !.answer = "error", !.secret = None, !.token = None]
  <2>1. lost \in Exchange
    BY DEF Exchange
  <2>2. /\ lost.op = o.op /\ lost.tab = o.tab /\ lost.secret = None /\ lost.at = "back"
        /\ lost.answer = "error"
    BY DEF Exchange
  <2> QED  BY <2>1, <2>2
<1>3. Shaped(e)
  BY <1>2 DEF Shaped
<1>4. exchange' = [exchange EXCEPT ![i] = e] /\ exchange[i] # None
  BY <1>1, <1>2 DEF Lose
<1>5. troubled' = troubled \cup FamilyOf(exchange[i]) /\ UNCHANGED <<server, cookie, tab, left, overlapped>>
  BY DEF Lose
<1> QED  BY <1>1, <1>2, <1>3, <1>4, <1>5, SecretLost

-----------------------------------------------------------------------------
(* The theorems *)

LEMMA InitInvariant ==
  Init => IInv
<1> SUFFICES ASSUME Init  PROVE IInv
  OBVIOUS
<1>1. TypeOK
  BY BrowserAssumption DEF Init, TypeOK, Tab
<1>2. \A i \in All : exchange[i] = None
  BY DEF Init, All
<1>3. \A f \in Families : family[f].status = "unused"
  BY DEF Init
<1>4. cookie = None
  BY DEF Init
<1> QED  BY <1>1, <1>2, <1>3, <1>4
         DEF IInv, OneRotation, Unknown, Kept, Live, Has

LEMMA NextInvariant ==
  IInv /\ [Next]_vars => IInv'
<1> SUFFICES ASSUME IInv, [Next]_vars  PROVE IInv'
  OBVIOUS
<1>1. CASE UNCHANGED vars
  BY <1>1 DEF vars, IInv, TypeOK, OneRotation, Unknown, Clean, Kept, Live, Has
<1>2. ASSUME NEW t \in Tabs, Open(t) \/ Use(t)
      PROVE  IInv'
  BY <1>2, OpenInvariant, UseInvariant
<1>3. ASSUME NEW i \in All, Serve(i)
      PROVE  IInv'
  BY <1>3, ServeRefreshInvariant, ServeLogoutInvariant, ServeLoginInvariant, ServeCallInvariant,
     ServePasswordInvariant DEF Serve
<1>4. ASSUME NEW i \in All, Deliver(i) \/ Drop(i) \/ Lose(i)
      PROVE  IInv'
  BY <1>4, DeliverInvariant, DropInvariant, LoseInvariant
<1> QED  BY <1>1, <1>2, <1>3, <1>4, DecideInvariant DEF Next, All

LEMMA InvariantHolds ==
  Spec => []IInv
BY InitInvariant, NextInvariant, PTL DEF Spec

\* The state keeps its types, whatever is lost, reordered or abandoned by a page.
THEOREM TypeCorrect ==
  Spec => []TypeOK
<1>1. IInv => TypeOK
  BY DEF IInv
<1> QED  BY <1>1, InvariantHolds, PTL

\* A session is closed as stolen only if a secret of it was lost or two exchanges worked on it
\* at once: the calls of one tab share its rotation and never cost it its session
\* (auth.service.ts:65-76, auth-interceptor.ts:72-88).
THEOREM SessionsFallForACause ==
  Spec => []FamiliesFallForACause
<1>1. IInv => FamiliesFallForACause
  BY DEF IInv, Kept, Clean, FamiliesFallForACause
<1> QED  BY <1>1, InvariantHolds, PTL

-----------------------------------------------------------------------------
(* A logout sticks *)

Openings == {"login", "password", "reset"}

Holds(t, f) == tab[t].token # None /\ tab[t].token.family = f

InCookie(f) == cookie # None /\ cookie.family = f

\* The token an answer brings is of the session its secret is of.
Matched(e) ==
  e.op \in Openings \cup {"refresh"} /\ e.at = "back" /\ e.answer = "ok" =>
    e.secret # None /\ e.token # None /\ e.token.family = e.secret.family

\* No page, no cookie and no memory of a logout knows the session.
Untold(f) == ~InCookie(f) /\ \A t \in Tabs : ~Holds(t, f) /\ f \notin left[t]

\* A session nobody has opened, or whose first answer is on its way, is told to nobody.
UntoldYet ==
  /\ \A f \in Families : family[f].status = "unused" => Untold(f)
  /\ \A i \in All, f \in Families : Has(exchange[i], f) /\ exchange[i].op \in Openings =>
       Untold(f) /\ \A k \in All \ {i} : ~Has(exchange[k], f)

\* A logout and any exchange that took a secret from the cookie have met.
Met ==
  \A f \in Families, i, k \in All :
    /\ i # k /\ exchange[i] # None /\ exchange[i].op = "logout"
    /\ Has(exchange[k], f) /\ exchange[k].op \in {"refresh", "logout"}
    => f \in overlapped

\* What a page has logged out of, alone, is out of the browser.
Gone ==
  \A t \in Tabs : \A f \in left[t] \ overlapped :
    ~Holds(t, f) /\ ~InCookie(f) /\ \A k \in All : ~Has(exchange[k], f)

Sticky ==
  /\ \A i \in All : exchange[i] # None => Matched(exchange[i])
  /\ UntoldYet
  /\ Met
  /\ Gone

\* A step that sends nothing from the cookie: whoever learns of a session takes it from an
\* exchange that ends, and whoever has left it loses it with the answer to a logout.
LEMMA NothingTaken ==
  ASSUME IInv, Sticky,
         \A i \in All : exchange'[i] # None =>
           \/ exchange'[i] = exchange[i]
           \/ exchange[i] # None /\ exchange'[i].op = exchange[i].op /\ Matched(exchange'[i])
           \/ exchange'[i].op \notin {"refresh", "logout"} /\ Matched(exchange'[i]),
         \A i \in All, f \in Families : Has(exchange'[i], f) =>
           Has(exchange[i], f) /\ exchange'[i].op = exchange[i].op,
         \A f \in Families : family'[f].status = "unused" => family[f].status = "unused",
         overlapped \subseteq overlapped', left' \in [Tabs -> SUBSET Families],
         \A t \in Tabs, f \in Families : Holds(t, f)' =>
           Holds(t, f) \/ \E k \in All : Has(exchange[k], f) /\ exchange'[k] = None,
         \A f \in Families : InCookie(f)' =>
           InCookie(f) \/ \E k \in All : Has(exchange[k], f) /\ exchange'[k] = None,
         \A t \in Tabs, f \in Families : f \in left'[t] =>
           \/ f \in left[t]
           \/ /\ Holds(t, f) /\ ~Holds(t, f)' /\ ~InCookie(f)'
              /\ \E i \in All : exchange[i] # None /\ exchange[i].op = "logout" /\ exchange'[i] = None
  PROVE  Sticky'
<1>1. \A i \in All : exchange'[i] # None => Matched(exchange'[i])
  BY DEF Sticky
<1>2. \A f \in Families : Untold(f) /\ (\A k \in All : Has(exchange[k], f) => exchange'[k] # None)
                            => Untold(f)'
  BY DEF Untold
<1>3. UntoldYet'
  <2>1. ASSUME NEW f \in Families, family'[f].status = "unused"
        PROVE  Untold(f)'
    BY <1>2, <2>1 DEF IInv, Unknown, Sticky, UntoldYet
  <2>2. ASSUME NEW i \in All, NEW f \in Families, Has(exchange'[i], f), exchange'[i].op \in Openings
        PROVE  Untold(f)' /\ \A k \in All \ {i} : ~Has(exchange'[k], f)
    <3>1. Has(exchange[i], f) /\ exchange[i].op \in Openings
      BY <2>2
    <3>2. Untold(f) /\ \A k \in All \ {i} : ~Has(exchange[k], f)
      BY <3>1 DEF Sticky, UntoldYet
    <3>3. \A k \in All : Has(exchange[k], f) => exchange'[k] # None
      BY <2>2, <3>2 DEF Has
    <3> QED  BY <1>2, <3>2, <3>3
  <2> QED  BY <2>1, <2>2 DEF UntoldYet, Has
<1>4. Met'
  <2> SUFFICES ASSUME NEW f \in Families, NEW i \in All, NEW k \in All, i # k, exchange'[i] # None,
                      exchange'[i].op = "logout", Has(exchange'[k], f),
                      exchange'[k].op \in {"refresh", "logout"}
               PROVE  f \in overlapped'
    BY DEF Met, Has
  <2>1. exchange[i] # None /\ exchange[i].op = "logout"
    OBVIOUS
  <2> QED  BY <2>1 DEF Sticky, Met
<1>5. Gone'
  <2> SUFFICES ASSUME NEW t \in Tabs, NEW f \in left'[t], f \notin overlapped'
               PROVE  /\ ~Holds(t, f)' /\ ~InCookie(f)'
                      /\ \A k \in All : ~Has(exchange'[k], f)
    BY DEF Gone, Has, Holds, InCookie
  <2>0. f \in Families /\ f \notin overlapped
    OBVIOUS
  <2>1. CASE f \in left[t]
    <3>1. ~Holds(t, f) /\ ~InCookie(f) /\ \A k \in All : ~Has(exchange[k], f)
      BY <2>0, <2>1 DEF Sticky, Gone
    <3> QED  BY <2>0, <3>1
  <2>2. CASE f \notin left[t]
    <3>1. /\ Holds(t, f) /\ ~Holds(t, f)' /\ ~InCookie(f)'
          /\ \E i \in All : exchange[i] # None /\ exchange[i].op = "logout" /\ exchange'[i] = None
      BY <2>0, <2>2
    <3>2. PICK i \in All : exchange[i] # None /\ exchange[i].op = "logout" /\ exchange'[i] = None
      BY <3>1
    <3>3. ASSUME NEW k \in All, Has(exchange'[k], f)
          PROVE  FALSE
      <4>1. Has(exchange[k], f) /\ k # i
        BY <2>0, <3>2, <3>3 DEF Has
      <4>2. exchange[k].op \notin {"refresh", "logout"}
        BY <2>0, <3>2, <4>1 DEF Sticky, Met
      <4>3. exchange[k] \in Exchange /\ exchange[k].op # "call"
        BY <4>1 DEF Has, IInv, TypeOK, Shaped, All
      <4>4. exchange[k].op \in Openings
        BY <4>2, <4>3 DEF Exchange, Operations, Openings
      <4>5. ~Holds(t, f)
        BY <2>0, <4>1, <4>4 DEF Sticky, UntoldYet, Untold
      <4> QED  BY <3>1, <4>5
    <3> QED  BY <3>1, <3>3
  <2> QED  BY <2>1, <2>2
<1> QED  BY <1>1, <1>3, <1>4, <1>5 DEF Sticky, Matched

\* An exchange that works on the cookie is sent, and met whatever is under way.
LEMMA SomethingTaken ==
  ASSUME IInv, Sticky, NEW r \in All, NEW e \in Exchange, e # None, e.at = "out",
         e.secret # None => e.op \in {"refresh", "logout"} /\ e.secret = cookie,
         NEW others,
         \A i \in All : exchange'[i] = IF i = r THEN e ELSE others[i],
         \A i \in All : others[i] # None =>
           /\ exchange[i] # None /\ Matched(others[i])
           /\ others[i].op = exchange[i].op /\ others[i].secret = exchange[i].secret,
         \A i \in All :
           /\ others[i] # None /\ others[i].op # "call" /\ e.op \in {"refresh", "logout"}
           /\ others[i].op = "logout" \/ e.op = "logout"
           => FamilyOf(e) \cup FamilyOf(others[i]) \subseteq overlapped',
         UNCHANGED <<family, cookie, left>>, overlapped \subseteq overlapped',
         \A t \in Tabs, f \in Families : Holds(t, f)' => Holds(t, f)
  PROVE  Sticky'
<1>1. \A i \in All : exchange'[i] # None => Matched(exchange'[i])
  BY DEF Matched
<1>2. \A i \in All, f \in Families : Has(others[i], f) => Has(exchange[i], f)
  BY DEF Has
<1>3. \A f \in Families : InCookie(f)' = InCookie(f) /\ (Has(e, f) => InCookie(f))
  BY DEF Has, InCookie
<1>4. \A f \in Families : Untold(f) => Untold(f)'
  BY <1>3 DEF Untold
<1>5. UntoldYet'
  <2>1. ASSUME NEW i \in All, NEW f \in Families, Has(exchange'[i], f), exchange'[i].op \in Openings
        PROVE  Untold(f)' /\ \A k \in All \ {i} : ~Has(exchange'[k], f)
    <3>1. i # r /\ Has(exchange[i], f) /\ exchange[i].op \in Openings
      BY <1>2, <2>1 DEF Has, Openings
    <3>2. Untold(f) /\ \A k \in All \ {i} : ~Has(exchange[k], f)
      BY <3>1 DEF Sticky, UntoldYet
    <3> QED  BY <1>2, <1>3, <1>4, <3>2 DEF Untold
  <2> QED  BY <1>4, <2>1 DEF Sticky, UntoldYet, Has
<1>6. Met'
  <2> SUFFICES ASSUME NEW f \in Families, NEW i \in All, NEW k \in All, i # k, exchange'[i] # None,
                      exchange'[i].op = "logout", Has(exchange'[k], f),
                      exchange'[k].op \in {"refresh", "logout"}
               PROVE  f \in overlapped'
    BY DEF Met, Has
  <2>1. CASE i # r /\ k # r
    <3>1. exchange[i] # None /\ exchange[i].op = "logout"
      BY <2>1
    <3>2. Has(exchange[k], f) /\ exchange[k].op \in {"refresh", "logout"}
      BY <1>2, <2>1 DEF Has
    <3> QED  BY <3>1, <3>2 DEF Sticky, Met
  <2>2. CASE i = r
    <3>1. others[k] # None /\ others[k].op # "call" /\ e.op = "logout" /\ f \in FamilyOf(others[k])
      BY <2>2 DEF Has, FamilyOf
    <3> QED  BY <3>1
  <2>3. CASE k = r
    <3>1. /\ others[i] # None /\ others[i].op = "logout" /\ e.op \in {"refresh", "logout"}
          /\ f \in FamilyOf(e)
      BY <2>3 DEF Has, FamilyOf
    <3> QED  BY <3>1
  <2> QED  BY <2>1, <2>2, <2>3
<1>7. Gone'
  <2> SUFFICES ASSUME NEW t \in Tabs, NEW f \in left[t], f \notin overlapped'
               PROVE  /\ ~Holds(t, f)' /\ ~InCookie(f)'
                      /\ \A k \in All : ~Has(exchange'[k], f)
    BY DEF Gone, Has, Holds, InCookie
  <2>1. f \in Families /\ ~Holds(t, f) /\ ~InCookie(f) /\ \A k \in All : ~Has(exchange[k], f)
    BY DEF Sticky, Gone, IInv, TypeOK
  <2> QED  BY <1>2, <1>3, <2>1
<1> QED  BY <1>1, <1>5, <1>6, <1>7 DEF Sticky, Matched

LEMMA OverlapsMeetBoth ==
  ASSUME NEW e, NEW all, NEW i \in DOMAIN all, all[i] # None, all[i].op # "call",
         ~(e.op = "refresh" /\ all[i].op = "refresh" /\ all[i].tab = e.tab)
  PROVE  FamilyOf(e) \cup FamilyOf(all[i]) \subseteq Overlaps(e, all)
BY DEF Overlaps

\* What becomes of the exchanges of a page that is opened again.
LEMMA Orphaned ==
  ASSUME NEW o \in Exchange
  PROVE  LET p == [o EXCEPT !.tab = None]
         IN /\ p # None /\ p.op = o.op /\ p.secret = o.secret /\ p.at = o.at /\ p.answer = o.answer
            /\ p.token = o.token
<1>1. [o EXCEPT !.tab = None] \in Exchange
  BY DEF Exchange
<1>2. [o EXCEPT !.tab = None] # None
  BY <1>1, NoneAssumption
<1> QED  BY <1>2 DEF Exchange

LEMMA OpenSticks ==
  ASSUME IInv, Sticky, NEW t \in Tabs, Open(t)
  PROVE  Sticky'
<1> DEFINE dropped == {i \in DOMAIN exchange : Under(t, i) /\ exchange[i].at # "out"}
           left0 == [i \in DOMAIN exchange |->
                       IF i \in dropped THEN None
                       ELSE IF Under(t, i) THEN [exchange[i] EXCEPT !.tab = None] ELSE exchange[i]]
           free == {i \in Rotations : left0[i] = None}
<1>1. PICK e \in Exchange :
        /\ e = Sent("refresh", t) /\ e # None
        /\ e.op = "refresh" /\ e.at = "out" /\ e.secret = cookie
  BY SentIsAnExchange DEF IInv
<1>2. exchange \in [All -> Exchange \cup {None}] /\ tab \in [Tabs -> Tab]
  BY DEF IInv, TypeOK, All
<1>3. PICK others : others = left0
  OBVIOUS
<1>4. PICK r \in Rotations :
        /\ others[r] = None /\ exchange' = [others EXCEPT ![r] = e]
        /\ tab' = [tab EXCEPT ![t] = [page |-> "starting", token |-> None, rotation |-> r]]
  <2>1. free # {} /\ (CHOOSE r \in free : TRUE) \in free
    BY DEF Open
  <2> QED  BY <1>1, <1>3, <2>1 DEF Open
<1>5. /\ overlapped' = overlapped \cup Overlaps(e, others)
      /\ UNCHANGED <<server, cookie, left>>
  BY <1>1, <1>3 DEF Open
<1>6. ASSUME NEW i \in All, others[i] # None
      PROVE  /\ exchange[i] # None /\ Matched(others[i])
             /\ others[i].op = exchange[i].op /\ others[i].secret = exchange[i].secret
  <2>1. i \notin dropped
    BY <1>2, <1>3, <1>6
  <2>2. CASE Under(t, i)
    <3>1. PICK o \in Exchange : o = exchange[i] /\ Matched(o) /\ exchange[i] # None
      BY <1>2, <2>2 DEF Under, Sticky
    <3>2. others[i] = [o EXCEPT !.tab = None]
      BY <1>2, <1>3, <2>1, <2>2, <3>1
    <3>3. /\ others[i].op = o.op /\ others[i].secret = o.secret /\ others[i].at = o.at
          /\ others[i].answer = o.answer /\ others[i].token = o.token
      BY <3>2, Orphaned
    <3> QED  BY <3>1, <3>3 DEF Matched
  <2>3. CASE ~Under(t, i)
    <3>1. others[i] = exchange[i]
      BY <1>2, <1>3, <2>1, <2>3
    <3> QED  BY <1>6, <3>1 DEF Sticky
  <2> QED  BY <2>2, <2>3
<1>7. DOMAIN others = All /\ r \in All
  BY <1>2, <1>3, <1>4 DEF All
<1> HIDE DEF left0, free
<1>8. \A i \in All : exchange'[i] = IF i = r THEN e ELSE others[i]
  BY <1>4, <1>7
<1>9. \A i \in All :
        /\ others[i] # None /\ others[i].op # "call" /\ e.op \in {"refresh", "logout"}
        /\ others[i].op = "logout" \/ e.op = "logout"
        => FamilyOf(e) \cup FamilyOf(others[i]) \subseteq overlapped'
  <2> SUFFICES ASSUME NEW i \in All, others[i] # None, others[i].op = "logout"
               PROVE  FamilyOf(e) \cup FamilyOf(others[i]) \subseteq overlapped'
    BY <1>1
  <2>1. FamilyOf(e) \cup FamilyOf(others[i]) \subseteq Overlaps(e, others)
    BY <1>7, OverlapsMeetBoth
  <2> QED  BY <1>5, <2>1
<1>10. \A u \in Tabs, f \in Families : Holds(u, f)' => Holds(u, f)
  BY <1>2, <1>4 DEF Holds
<1>11. UNCHANGED <<family, cookie, left>> /\ overlapped \subseteq overlapped'
  BY <1>5 DEF server
<1> QED  BY <1>1, <1>6, <1>7, <1>8, <1>9, <1>10, <1>11, SomethingTaken

LEMMA PutsSticks ==
  ASSUME IInv, Sticky, NEW t \in Tabs, NEW op \in Operations, Puts(Sent(op, t))
  PROVE  Sticky'
<1>1. PICK e \in Exchange :
        /\ e = Sent(op, t) /\ e # None
        /\ e.op = op /\ e.tab = t /\ e.at = "out"
        /\ e.secret = IF op = "logout" THEN cookie ELSE None
  BY SentIsAnExchange DEF IInv, Operations
<1>2. exchange \in [All -> Exchange \cup {None}] /\ DOMAIN exchange = All
  BY DEF IInv, TypeOK, All
<1>3. PICK s \in Slots : exchange[s] = None /\ exchange' = [exchange EXCEPT ![s] = e]
  <2>1. Free(Slots) # {} /\ (CHOOSE i \in Free(Slots) : TRUE) \in Free(Slots)
    BY DEF Puts
  <2> QED  BY <1>1, <2>1 DEF Puts, Free
<1>4. /\ overlapped' = IF op = "call" THEN overlapped ELSE overlapped \cup Overlaps(e, exchange)
      /\ UNCHANGED <<server, cookie, tab, left>>
  BY <1>1 DEF Puts
<1>5. s \in All /\ \A i \in All : exchange'[i] = IF i = s THEN e ELSE exchange[i]
  BY <1>2, <1>3 DEF All
<1>6. PICK others : others = exchange
  OBVIOUS
<1>7. \A i \in All : exchange'[i] = IF i = s THEN e ELSE others[i]
  BY <1>5, <1>6
<1>8. \A i \in All : others[i] # None =>
        /\ exchange[i] # None /\ Matched(others[i])
        /\ others[i].op = exchange[i].op /\ others[i].secret = exchange[i].secret
  BY <1>6 DEF Sticky
<1>9. \A i \in All :
        /\ others[i] # None /\ others[i].op # "call" /\ e.op \in {"refresh", "logout"}
        /\ others[i].op = "logout" \/ e.op = "logout"
        => FamilyOf(e) \cup FamilyOf(others[i]) \subseteq overlapped'
  <2> SUFFICES ASSUME NEW i \in All, others[i] # None, others[i].op # "call", op = "logout"
               PROVE  FamilyOf(e) \cup FamilyOf(others[i]) \subseteq overlapped'
    BY <1>1 DEF Operations
  <2>1. FamilyOf(e) \cup FamilyOf(others[i]) \subseteq Overlaps(e, others)
    BY <1>1, <1>2, <1>6, OverlapsMeetBoth
  <2> QED  BY <1>4, <1>6, <2>1
<1>10. /\ UNCHANGED <<family, cookie, left>> /\ overlapped \subseteq overlapped'
       /\ \A u \in Tabs, f \in Families : Holds(u, f)' => Holds(u, f)
       /\ e.secret # None => e.op \in {"refresh", "logout"} /\ e.secret = cookie
  BY <1>1, <1>4 DEF server, Holds
<1> QED  BY <1>1, <1>5, <1>7, <1>8, <1>9, <1>10, SomethingTaken

LEMMA UseSticks ==
  ASSUME IInv, Sticky, NEW t \in Tabs, Use(t)
  PROVE  Sticky'
BY PutsSticks DEF Use, Login, ResetPassword, ChangePassword, Call, Logout, Operations

\* An answer without a secret of another session.
LEMMA AnswersStick ==
  ASSUME IInv, Sticky, NEW i \in All, exchange[i] # None, NEW e \in Exchange,
         e.op = exchange[i].op,
         \A f \in Families : Has(e, f) => Has(exchange[i], f),
         e.op \in Openings \cup {"refresh"} /\ e.answer = "ok" =>
           e.secret # None /\ e.token # None /\ e.token.family = e.secret.family,
         Answers(i, e),
         \A f \in Families : family'[f].status = "unused" => family[f].status = "unused"
  PROVE  Sticky'
<1>1. exchange \in [All -> Exchange \cup {None}] /\ left \in [Tabs -> SUBSET Families]
  BY DEF IInv, TypeOK, All
<1>2. PICK b \in Exchange : /\ b = [e EXCEPT !.at = "back"] /\ b.at = "back"
                            /\ b.op = e.op /\ b.answer = e.answer /\ b.secret = e.secret
                            /\ b.token = e.token
  <2> DEFINE back == [e EXCEPT !.at = "back"]
  <2>1. back \in Exchange
    BY DEF Exchange
  <2>2. /\ back.at = "back" /\ back.op = e.op /\ back.answer = e.answer
        /\ back.secret = e.secret /\ back.token = e.token
    BY DEF Exchange
  <2> QED  BY <2>1, <2>2
<1>3. /\ exchange' = [exchange EXCEPT ![i] = IF e.tab = None /\ FamilyOf(e) = {} THEN None ELSE b]
      /\ UNCHANGED <<cookie, tab, left, overlapped>>
  BY <1>2 DEF Answers
<1>4. /\ \A j \in All : j # i => exchange'[j] = exchange[j]
      /\ exchange'[i] = None \/ exchange'[i] = b
  BY <1>1, <1>3
<1>5. Matched(b)
  BY <1>2 DEF Matched
<1>6. \A j \in All : exchange'[j] # None =>
        \/ exchange'[j] = exchange[j]
        \/ exchange[j] # None /\ exchange'[j].op = exchange[j].op /\ Matched(exchange'[j])
  BY <1>2, <1>4, <1>5
<1>7. \A j \in All, f \in Families : Has(exchange'[j], f) =>
        Has(exchange[j], f) /\ exchange'[j].op = exchange[j].op
  <2> SUFFICES ASSUME NEW j \in All, NEW f \in Families, Has(exchange'[j], f)
               PROVE  Has(exchange[j], f) /\ exchange'[j].op = exchange[j].op
    OBVIOUS
  <2>1. CASE j = i
    <3>1. exchange'[j] # None
      BY DEF Has
    <3>2. Has(b, f) /\ exchange'[j] = b
      BY <1>4, <2>1, <3>1
    <3>3. Has(e, f)
      <4>1. e # None
        BY NoneAssumption
      <4> QED  BY <1>2, <3>2, <4>1 DEF Has
    <3> QED  BY <1>2, <2>1, <3>2, <3>3
  <2>2. CASE j # i
    BY <1>4, <2>2
  <2> QED  BY <2>1, <2>2
<1>8. /\ overlapped \subseteq overlapped' /\ left' \in [Tabs -> SUBSET Families]
      /\ \A t \in Tabs, f \in Families : Holds(t, f)' => Holds(t, f)
      /\ \A f \in Families : InCookie(f)' => InCookie(f)
      /\ left' = left
  BY <1>1, <1>3 DEF Holds, InCookie
<1> QED  BY <1>6, <1>7, <1>8, NothingTaken

\* A session that is opened was known to nobody, and its answer is the first to tell.
LEMMA OpensStick ==
  ASSUME IInv, Sticky, NEW i \in All, exchange[i] # None, exchange[i].op \in Openings,
         NEW former, NEW now \in Nat,
         former \in [Families -> [status : {"unused", "live", "logout", "reuse", "password", "admin", "aged"},
                                  n : 0..MaxSecret]],
         \A f \in Families : former[f].status = "unused" => family[f].status = "unused",
         Opens(i, exchange[i], former, now)
  PROVE  Sticky'
<1>1. PICK o \in Exchange : o = exchange[i]
  BY DEF IInv, TypeOK, All
<1>2. PICK f \in Families :
        /\ family[f].status = "unused"
        /\ family' = [former EXCEPT ![f] = [status |-> "live", n |-> 1]]
        /\ Answers(i, [o EXCEPT !.answer = "ok", !.secret = [family |-> f, n |-> 1],
                                !.token = [family |-> f, epoch |-> now]])
  <2> DEFINE unused == {g \in Families : family[g].status = "unused"}
  <2>1. unused # {} /\ (CHOOSE g \in unused : TRUE) \in unused
    BY DEF Opens
  <2> QED  BY <1>1, <2>1 DEF Opens
<1>3. PICK secret \in Secret, token \in Token :
        /\ secret = [family |-> f, n |-> 1] /\ token = [family |-> f, epoch |-> now]
        /\ secret # None /\ token # None
  <2>1. [family |-> f, n |-> 1] \in Secret /\ [family |-> f, epoch |-> now] \in Token
    BY BrowserAssumption DEF Secret, Token
  <2>2. [family |-> f, n |-> 1] # None
    BY <2>1, NoneAssumption
  <2>3. [family |-> f, epoch |-> now] # None
    BY <2>1, NoneAssumption
  <2> QED  BY <2>1, <2>2, <2>3
<1>4. PICK e \in Exchange :
        /\ e = [o EXCEPT !.answer = "ok", !.secret = secret, !.token = token]
        /\ e.op = o.op /\ e.answer = "ok" /\ e.secret = secret /\ e.token = token
  <2> DEFINE new == [o EXCEPT !.answer = "ok", !.secret = secret, !.token = token]
  <2>1. new \in Exchange
    BY DEF Exchange
  <2>2. new.op = o.op /\ new.answer = "ok" /\ new.secret = secret /\ new.token = token
    BY DEF Exchange
  <2> QED  BY <2>1, <2>2
<1>5. PICK b \in Exchange : /\ b = [e EXCEPT !.at = "back"] /\ b.at = "back" /\ b # None
                            /\ b.op = o.op /\ b.answer = "ok" /\ b.secret = secret
                            /\ b.token = token
  <2> DEFINE back == [e EXCEPT !.at = "back"]
  <2>1. back \in Exchange
    BY DEF Exchange
  <2>2. /\ back.at = "back" /\ back.op = e.op /\ back.answer = e.answer
        /\ back.secret = e.secret /\ back.token = e.token
    BY DEF Exchange
  <2> HIDE DEF back
  <2>3. back # None
    BY <2>1, NoneAssumption
  <2> QED  BY <1>4, <2>1, <2>2, <2>3 DEF back
<1>6. /\ exchange' = [exchange EXCEPT ![i] = b]
      /\ UNCHANGED <<cookie, tab, left, overlapped>>
  <2>1. FamilyOf(e) # {}
    BY <1>3, <1>4 DEF FamilyOf
  <2> QED  BY <1>2, <1>3, <1>4, <1>5, <2>1 DEF Answers
<1>7. \A j \in All : exchange'[j] = IF j = i THEN b ELSE exchange[j]
  BY <1>6 DEF IInv, TypeOK, All
<1>8. Untold(f) /\ \A j \in All : ~Has(exchange[j], f)
  BY <1>2 DEF Sticky, UntoldYet, IInv, Unknown, Has
<1>9. \A g \in Families, j \in All : Has(exchange'[j], g) =>
        \/ g = f /\ j = i
        \/ g # f /\ j # i /\ Has(exchange[j], g) /\ exchange'[j] = exchange[j]
  <2> SUFFICES ASSUME NEW g \in Families, NEW j \in All, Has(exchange'[j], g)
               PROVE  \/ g = f /\ j = i
                      \/ g # f /\ j # i /\ Has(exchange[j], g) /\ exchange'[j] = exchange[j]
    OBVIOUS
  <2>1. CASE j = i
    <3>1. Has(b, g)
      BY <1>7, <2>1
    <3>2. secret.family = g
      BY <1>5, <3>1 DEF Has
    <3>3. secret.family = f
      BY <1>3
    <3> QED  BY <2>1, <3>2, <3>3
  <2>2. CASE j # i
    <3>1. exchange'[j] = exchange[j] /\ Has(exchange[j], g)
      BY <1>7, <2>2
    <3> QED  BY <1>8, <2>2, <3>1
  <2> QED  BY <2>1, <2>2
<1>10. \A g \in Families : Untold(g)' = Untold(g)
  BY <1>6 DEF Untold, Holds, InCookie
<1>11. \A j \in All : exchange'[j] # None => Matched(exchange'[j])
  <2>1. Matched(b)
    BY <1>3, <1>5 DEF Matched
  <2> QED  BY <1>7, <2>1 DEF Sticky
<1>12. UntoldYet'
  <2>1. ASSUME NEW g \in Families, family'[g].status = "unused"
        PROVE  Untold(g)'
    <3>1. family[g].status = "unused"
      BY <1>2, <2>1
    <3> QED  BY <1>10, <3>1 DEF Sticky, UntoldYet
  <2>2. ASSUME NEW j \in All, NEW g \in Families, Has(exchange'[j], g), exchange'[j].op \in Openings
        PROVE  Untold(g)' /\ \A k \in All \ {j} : ~Has(exchange'[k], g)
    <3>1. CASE g = f
      BY <1>8, <1>9, <1>10, <2>2, <3>1
    <3>2. CASE g # f
      BY <1>9, <1>10, <2>2, <3>2 DEF Sticky, UntoldYet
    <3> QED  BY <3>1, <3>2
  <2> QED  BY <2>1, <2>2 DEF UntoldYet, Has
<1>13. Met'
  <2> SUFFICES ASSUME NEW g \in Families, NEW j \in All, NEW k \in All, j # k, exchange'[j] # None,
                      exchange'[j].op = "logout", Has(exchange'[k], g),
                      exchange'[k].op \in {"refresh", "logout"}
               PROVE  g \in overlapped'
    BY DEF Met, Has
  <2>1. j # i /\ exchange'[j] = exchange[j]
    BY <1>1, <1>5, <1>7 DEF Openings
  <2>2. k # i /\ exchange'[k] = exchange[k]
    BY <1>1, <1>5, <1>7 DEF Openings
  <2> QED  BY <1>6, <2>1, <2>2 DEF Sticky, Met
<1>14. Gone'
  <2> SUFFICES ASSUME NEW t \in Tabs, NEW g \in left[t], g \notin overlapped
               PROVE  /\ ~Holds(t, g)' /\ ~InCookie(g)'
                      /\ \A k \in All : ~Has(exchange'[k], g)
    BY <1>6 DEF Gone, Has, Holds, InCookie
  <2>1. g \in Families /\ ~Holds(t, g) /\ ~InCookie(g) /\ \A k \in All : ~Has(exchange[k], g)
    BY DEF Sticky, Gone, IInv, TypeOK
  <2>2. g # f
    BY <1>8 DEF Untold
  <2> QED  BY <1>6, <1>9, <2>1, <2>2 DEF Holds, InCookie
<1> QED  BY <1>11, <1>12, <1>13, <1>14 DEF Sticky, Matched

\* The server only says how it went, and opens nothing.
LEMMA SaysStick ==
  ASSUME IInv, Sticky, NEW i \in All, exchange[i] # None,
         NEW a \in {"ok", "refused", "expired", "invalid", "error"},
         exchange[i].op \in Openings \cup {"refresh"} => a # "ok",
         Answers(i, [exchange[i] EXCEPT !.answer = a]),
         \A f \in Families : family'[f].status = "unused" => family[f].status = "unused"
  PROVE  Sticky'
<1>1. PICK o \in Exchange : o = exchange[i]
  BY DEF IInv, TypeOK, All
<1>2. PICK e \in Exchange : /\ e = [o EXCEPT !.answer = a]
                            /\ e.op = o.op /\ e.secret = o.secret /\ e.answer = a
  <2> DEFINE new == [o EXCEPT !.answer = a]
  <2>1. new \in Exchange
    BY DEF Exchange
  <2>2. new.op = o.op /\ new.secret = o.secret /\ new.answer = a
    BY DEF Exchange
  <2> QED  BY <2>1, <2>2
<1>3. \A f \in Families : Has(e, f) => Has(exchange[i], f)
  BY <1>1, <1>2 DEF Has
<1> QED  BY <1>1, <1>2, <1>3, AnswersStick

LEMMA ServeRefreshSticks ==
  ASSUME IInv, Sticky, NEW i \in All, exchange[i] # None, ServeRefresh(i)
  PROVE  Sticky'
<1> DEFINE Rows == [status : {"unused", "live", "logout", "reuse", "password", "admin", "aged"},
                    n : 0..MaxSecret]
<1>1. PICK o \in Exchange : o = exchange[i] /\ o.op = "refresh"
  BY DEF IInv, TypeOK, All, ServeRefresh
<1>2. family \in [Families -> Rows] /\ o.secret \in Secret \cup {None} /\ epoch \in Nat
  BY DEF IInv, TypeOK, Exchange
<1>3. CASE o.secret = None
  BY <1>1, <1>3, SaysStick DEF ServeRefresh
<1>4. ASSUME NEW s \in Secret, s = o.secret
      PROVE  Sticky'
  <2>1. PICK g \in Families : g = s.family /\ s # None
    BY NoneAssumption DEF Secret
  <2>2. CASE Answers(i, [o EXCEPT !.answer = "refused"])
    <3>1. \A f \in Families : family'[f].status = "unused" => family[f].status = "unused"
      BY <1>1, <1>2, <1>4, <2>1 DEF ServeRefresh
    <3> QED  BY <1>1, <2>2, <3>1, SaysStick
  <2>3. CASE /\ family' = [family EXCEPT ![g].n = s.n + 1]
             /\ s.n + 1 \in 1..MaxSecret
             /\ Answers(i, [o EXCEPT !.answer = "ok", !.secret = [s EXCEPT !.n = s.n + 1],
                                     !.token = [family |-> g, epoch |-> epoch]])
    <3>1. PICK new \in Secret, token \in Token :
            /\ new = [s EXCEPT !.n = s.n + 1] /\ new.family = g
            /\ token = [family |-> g, epoch |-> epoch] /\ token.family = g
      <4> DEFINE new == [s EXCEPT !.n = s.n + 1]
      <4>1. new \in Secret /\ new.family = g
        BY <2>1, <2>3 DEF Secret
      <4>2. [family |-> g, epoch |-> epoch] \in Token
        BY <1>2 DEF Token
      <4> QED  BY <4>1, <4>2
    <3>2. PICK e \in Exchange :
            /\ e = [o EXCEPT !.answer = "ok", !.secret = new, !.token = token]
            /\ e.op = "refresh" /\ e.answer = "ok" /\ e.secret = new /\ e.token = token
      <4> DEFINE e == [o EXCEPT !.answer = "ok", !.secret = new, !.token = token]
      <4>1. e \in Exchange
        BY DEF Exchange
      <4>2. e.op = "refresh" /\ e.answer = "ok" /\ e.secret = new /\ e.token = token
        BY <1>1 DEF Exchange
      <4> QED  BY <4>1, <4>2
    <3>3. new # None /\ token # None
      BY NoneAssumption
    <3>4. \A f \in Families : Has(e, f) => Has(exchange[i], f)
      BY <1>1, <1>4, <2>1, <3>1, <3>2 DEF Has
    <3>5. \A f \in Families : family'[f].status = "unused" => family[f].status = "unused"
      BY <1>2, <2>3
    <3>6. Answers(i, e)
      BY <2>3, <3>1, <3>2
    <3> QED  BY <1>1, <3>1, <3>2, <3>3, <3>4, <3>5, <3>6, AnswersStick
  <2>4. ~TooOld(s) => s.n + 1 \in 1..MaxSecret
    BY BrowserAssumption DEF Secret, TooOld
  <2> QED  BY <1>1, <1>4, <2>1, <2>2, <2>3, <2>4 DEF ServeRefresh
<1> QED  BY <1>2, <1>3, <1>4

LEMMA ServeLogoutSticks ==
  ASSUME IInv, Sticky, NEW i \in All, exchange[i] # None, ServeLogout(i)
  PROVE  Sticky'
<1>1. \A f \in Families : family'[f].status = "unused" => family[f].status = "unused"
  BY DEF IInv, TypeOK, ServeLogout
<1> QED  BY <1>1, SaysStick DEF ServeLogout, Openings

LEMMA ClosedStays ==
  ASSUME IInv, NEW reason \in {"password", "admin"}
  PROVE  /\ Closed(reason) \in [Families -> [status : {"unused", "live", "logout", "reuse", "password",
                                                       "admin", "aged"}, n : 0..MaxSecret]]
         /\ \A f \in Families : Closed(reason)[f].status = "unused" => family[f].status = "unused"
<1> DEFINE Rows == [status : {"unused", "live", "logout", "reuse", "password", "admin", "aged"},
                    n : 0..MaxSecret]
<1>1. family \in [Families -> Rows]
  BY DEF IInv, TypeOK
<1>2. \A f \in Families : /\ Closed(reason)[f] \in Rows
                          /\ Closed(reason)[f].status = "unused" => family[f].status = "unused"
  BY <1>1 DEF Closed
<1> QED  BY <1>2 DEF Closed

LEMMA ServeFormSticks ==
  ASSUME IInv, Sticky, NEW i \in All, exchange[i] # None,
         ServeLogin(i) \/ ServeCall(i) \/ ServePassword(i)
  PROVE  Sticky'
<1>1. /\ family \in [Families -> [status : {"unused", "live", "logout", "reuse", "password",
                                            "admin", "aged"}, n : 0..MaxSecret]]
      /\ epoch \in Nat /\ epoch + 1 \in Nat
  BY DEF IInv, TypeOK
<1>2. CASE /\ exchange[i].op = "login"
           /\ \/ Opens(i, exchange[i], family, epoch)
              \/ UNCHANGED family /\ Answers(i, [exchange[i] EXCEPT !.answer = "refused"])
  BY <1>1, <1>2, OpensStick, SaysStick DEF Openings
<1>3. CASE ServeCall(i)
  <2>1. PICK a \in {"ok", "refused", "expired", "invalid", "error"} :
          Answers(i, [exchange[i] EXCEPT !.answer = a])
    BY <1>3, VerdictsAreAnswers DEF ServeCall
  <2>2. exchange[i].op = "call" /\ UNCHANGED family
    BY <1>3 DEF ServeCall, server
  <2> QED  BY <2>1, <2>2, SaysStick DEF Openings
<1>4. CASE /\ exchange[i].op \in {"password", "reset"}
           /\ Opens(i, exchange[i], Closed("password"), epoch + 1)
  <2>1. PICK now, former : now = epoch + 1 /\ former = Closed("password")
    OBVIOUS
  <2> QED  BY <1>1, <1>4, <2>1, ClosedStays, OpensStick DEF Openings
<1>5. CASE /\ exchange[i].op \in {"password", "reset"} /\ UNCHANGED server
           /\ \E a \in {"refused", "expired", "invalid", "error"} :
                Answers(i, [exchange[i] EXCEPT !.answer = a])
  BY <1>5, SaysStick DEF server
<1>6. CASE ServePassword(i)
  BY <1>4, <1>5, <1>6, VerdictsAreAnswers DEF ServePassword
<1> QED  BY <1>2, <1>3, <1>6 DEF ServeLogin

LEMMA DecideSticks ==
  ASSUME IInv, Sticky, Decide
  PROVE  Sticky'
<1>1. /\ UNCHANGED <<cookie, tab, exchange, left, overlapped>>
      /\ \A f \in Families : family'[f].status = "unused" => family[f].status = "unused"
  BY ClosedStays DEF Decide
<1>2. left' \in [Tabs -> SUBSET Families]
  BY <1>1 DEF IInv, TypeOK
<1> QED  BY <1>1, <1>2, NothingTaken DEF Holds, InCookie

LEMMA LossSticks ==
  ASSUME IInv, Sticky, NEW i \in All, Drop(i) \/ Lose(i)
  PROVE  Sticky'
<1>1. PICK o \in Exchange : o = exchange[i] /\ exchange[i] # None
  BY DEF IInv, TypeOK, All, Drop, Lose
<1>2. PICK p : p = [o EXCEPT !.at = "back", !.answer = "error", !.secret = None, !.token = None]
  OBVIOUS
<1>3. p.op = o.op /\ p.secret = None /\ p.answer = "error"
  BY <1>2 DEF Exchange
<1>4. exchange' = [exchange EXCEPT ![i] = None] \/ exchange' = [exchange EXCEPT ![i] = p]
  BY <1>1, <1>2 DEF Drop, Lose
<1>5. \A j \in All : exchange'[j] = exchange[j] \/ (j = i /\ exchange'[j] \in {None, p})
  BY <1>4 DEF IInv, TypeOK, All
<1>6. Matched(p)
  BY <1>3 DEF Matched
<1>7. \A j \in All : exchange'[j] # None =>
        \/ exchange'[j] = exchange[j]
        \/ exchange[j] # None /\ exchange'[j].op = exchange[j].op /\ Matched(exchange'[j])
  BY <1>1, <1>3, <1>5, <1>6
<1>8. \A j \in All, f \in Families : Has(exchange'[j], f) =>
        Has(exchange[j], f) /\ exchange'[j].op = exchange[j].op
  BY <1>3, <1>5 DEF Has
<1>9. UNCHANGED <<family, cookie, tab, left, overlapped>>
  BY DEF Drop, Lose, server
<1>10. left' \in [Tabs -> SUBSET Families]
  BY <1>9 DEF IInv, TypeOK
<1> QED  BY <1>7, <1>8, <1>9, <1>10, NothingTaken DEF Holds, InCookie

\* An answer that ends its exchange and starts nothing from the cookie.
LEMMA HeardSticks ==
  ASSUME IInv, Sticky, NEW i \in All, exchange[i] # None, exchange[i].at = "back",
         cookie' = Stored(exchange[i]), UNCHANGED <<family, overlapped>>, exchange'[i] = None,
         \A j \in All \ {i} : exchange'[j] # None =>
           \/ exchange'[j] = exchange[j]
           \/ /\ exchange[j] # None /\ exchange'[j].op = exchange[j].op
              /\ exchange'[j].secret = None /\ exchange'[j].at = "out",
         \A t \in Tabs :
           \/ tab'[t].token \in {tab[t].token, None}
           \/ /\ tab'[t].token = exchange[i].token /\ exchange[i].answer = "ok"
              /\ exchange[i].op \in Openings \cup {"refresh"},
         left' \in [Tabs -> SUBSET Families],
         \A t \in Tabs, f \in Families : f \in left'[t] =>
           \/ f \in left[t]
           \/ /\ Holds(t, f) /\ tab'[t].token = None
              /\ exchange[i].op = "logout" /\ exchange[i].answer = "ok"
  PROVE  Sticky'
<1>1. Matched(exchange[i])
  BY DEF Sticky
<1>2. \A j \in All : exchange'[j] # None =>
        \/ exchange'[j] = exchange[j]
        \/ exchange[j] # None /\ exchange'[j].op = exchange[j].op /\ Matched(exchange'[j])
  BY DEF Matched
<1>3. \A j \in All, f \in Families : Has(exchange'[j], f) =>
        Has(exchange[j], f) /\ exchange'[j].op = exchange[j].op
  BY DEF Has
<1>4. ASSUME NEW t \in Tabs, NEW f \in Families, Holds(t, f)', ~Holds(t, f)
      PROVE  Has(exchange[i], f)
  <2>1. tab'[t].token # None /\ tab'[t].token.family = f
    BY <1>4 DEF Holds
  <2>2. /\ exchange[i].token # None /\ exchange[i].token.family = f /\ exchange[i].answer = "ok"
        /\ exchange[i].op \in Openings \cup {"refresh"}
    BY <1>4, <2>1 DEF Holds
  <2> QED  BY <1>1, <2>2 DEF Matched, Has
<1>5. ASSUME NEW f \in Families, InCookie(f)', ~InCookie(f)
      PROVE  Has(exchange[i], f)
  BY <1>5 DEF Stored, InCookie, Has
<1>6. ASSUME NEW t \in Tabs, NEW f \in Families, f \in left'[t], f \notin left[t]
      PROVE  /\ Holds(t, f) /\ ~Holds(t, f)' /\ ~InCookie(f)'
             /\ exchange[i].op = "logout"
  <2>1. /\ Holds(t, f) /\ tab'[t].token = None
        /\ exchange[i].op = "logout" /\ exchange[i].answer = "ok"
    BY <1>6
  <2>2. cookie' = None
    BY <2>1 DEF Stored
  <2> QED  BY <2>1, <2>2 DEF Holds, InCookie
<1> QED  BY <1>2, <1>3, <1>4, <1>5, <1>6, NothingTaken

LEMMA TokensOfTabs ==
  ASSUME TypeOK, NEW t \in Tabs, NEW e \in Exchange
  PROVE  /\ \A u \in Tabs : Cleared(t)[u].token = IF u = t THEN None ELSE tab[u].token
         /\ \A u \in Tabs : SessionOf(t, e)[u].token = IF u = t THEN e.token ELSE tab[u].token
         /\ \A u \in Tabs : Cleared(t)[u] \in Tab /\ SessionOf(t, e)[u] \in Tab
<1>1. e.token \in Token \cup {None} /\ tab \in [Tabs -> Tab]
  BY DEF TypeOK, Exchange
<1>2. PICK k \in Token \cup {None} : k = e.token
  BY <1>1
<1>3. \A u \in Tabs : /\ [tab EXCEPT ![t].token = k][u].token = IF u = t THEN k ELSE tab[u].token
                      /\ [tab EXCEPT ![t].token = k][u] \in Tab
  BY <1>1 DEF Tab
<1>4. \A u \in Tabs : /\ [tab EXCEPT ![t].token = None][u].token = IF u = t THEN None ELSE tab[u].token
                      /\ [tab EXCEPT ![t].token = None][u] \in Tab
  BY <1>1 DEF Tab
<1> QED  BY <1>2, <1>3, <1>4 DEF Cleared, SessionOf

LEMMA HearRefreshSticks ==
  ASSUME IInv, Sticky, NEW i \in All, exchange[i] # None, exchange[i].tab # None,
         exchange[i].at = "back", cookie' = Stored(exchange[i]), UNCHANGED server, HearRefresh(i)
  PROVE  Sticky'
<1>1. exchange \in [All -> Exchange \cup {None}] /\ tab \in [Tabs -> Tab]
  BY DEF IInv, TypeOK, All
<1>2. PICK e \in Exchange, t \in Tabs : e = exchange[i] /\ e.op = "refresh" /\ e.tab = t
  BY <1>1 DEF Exchange, HearRefresh
<1>3. /\ exchange' = [Resumed(t, e) EXCEPT ![i] = None]
      /\ tab' = [(IF e.answer = "ok" THEN SessionOf(t, e) ELSE Cleared(t))
                    EXCEPT ![t].rotation = None, ![t].page = "open"]
      /\ UNCHANGED <<left, overlapped>>
  BY <1>2 DEF HearRefresh
<1>4. PICK memory : memory = IF e.answer = "ok" THEN SessionOf(t, e) ELSE Cleared(t)
  OBVIOUS
<1>5. \A u \in Tabs :
        /\ memory[u] \in Tab
        /\ memory[u].token = IF u # t THEN tab[u].token ELSE IF e.answer = "ok" THEN e.token ELSE None
  BY <1>4, TokensOfTabs DEF IInv
<1>6. DOMAIN memory = Tabs
  BY <1>1, <1>4 DEF SessionOf, Cleared
<1>7. \A u \in Tabs : tab'[u].token = memory[u].token
  <2>1. tab' = [memory EXCEPT ![t].rotation = None, ![t].page = "open"]
    BY <1>3, <1>4
  <2> QED  BY <1>5, <1>6, <2>1 DEF Tab
<1>8. \A u \in Tabs :
        \/ tab'[u].token \in {tab[u].token, None}
        \/ /\ tab'[u].token = exchange[i].token /\ exchange[i].answer = "ok"
           /\ exchange[i].op \in Openings \cup {"refresh"}
  BY <1>2, <1>5, <1>7
<1>9. exchange'[i] = None /\ \A j \in All \ {i} : exchange'[j] = Resumed(t, e)[j]
  BY <1>1, <1>3 DEF Resumed
<1>10. ASSUME NEW j \in All \ {i}, exchange'[j] # None
       PROVE  \/ exchange'[j] = exchange[j]
              \/ /\ exchange[j] # None /\ exchange'[j].op = exchange[j].op
                 /\ exchange'[j].secret = None /\ exchange'[j].at = "out"
  <2>1. CASE Under(t, j) /\ exchange[j].at = "waits"
    <3>1. PICK o \in Exchange : o = exchange[j] /\ o # None /\ o.secret = None
      BY <1>1, <2>1 DEF Under, IInv, Shaped
    <3>2. exchange'[j] = [o EXCEPT !.at = "out", !.token = e.token, !.retried = TRUE]
      BY <1>1, <1>9, <1>10, <2>1, <3>1 DEF Resumed
    <3> QED  BY <3>1, <3>2 DEF Exchange
  <2>2. CASE ~(Under(t, j) /\ exchange[j].at = "waits")
    BY <1>1, <1>9, <2>2 DEF Resumed
  <2> QED  BY <2>1, <2>2
<1>11. left' \in [Tabs -> SUBSET Families] /\ left' = left /\ UNCHANGED <<family, overlapped>>
  BY <1>3 DEF IInv, TypeOK, server
<1> QED  BY <1>8, <1>9, <1>10, <1>11, HeardSticks

LEMMA HearEndSticks ==
  ASSUME IInv, Sticky, NEW i \in All, exchange[i] # None, exchange[i].tab # None,
         exchange[i].at = "back", cookie' = Stored(exchange[i]), UNCHANGED server,
         HearLogout(i) \/ HearSession(i) \/ HearCall(i) \/ GiveUp(i)
  PROVE  Sticky'
<1>1. /\ exchange \in [All -> Exchange \cup {None}] /\ tab \in [Tabs -> Tab]
      /\ left \in [Tabs -> SUBSET Families]
  BY DEF IInv, TypeOK, All
<1>2. PICK e \in Exchange, t \in Tabs : e = exchange[i] /\ e.tab = t
  BY <1>1 DEF Exchange
<1>3. exchange' = [exchange EXCEPT ![i] = None] /\ UNCHANGED <<family, overlapped>>
  BY DEF HearLogout, HearSession, HearCall, GiveUp, server
<1>4. \/ tab' \in {tab, Cleared(t)}
      \/ tab' = SessionOf(t, e) /\ e.answer = "ok" /\ e.op \in Openings
  BY <1>2 DEF HearLogout, HearSession, HearCall, GiveUp, Openings
<1>5. \/ left' = left
      \/ /\ e.op = "logout" /\ tab' = Cleared(t)
         /\ left' = [left EXCEPT ![t] = @ \cup {f \in Families : /\ e.answer = "ok"
                                                                /\ tab[t].token # None
                                                                /\ tab[t].token.family = f}]
  BY <1>2 DEF HearLogout, HearSession, HearCall, GiveUp
<1>6. \A u \in Tabs :
        \/ tab'[u].token \in {tab[u].token, None}
        \/ /\ tab'[u].token = exchange[i].token /\ exchange[i].answer = "ok"
           /\ exchange[i].op \in Openings \cup {"refresh"}
  BY <1>2, <1>4, TokensOfTabs DEF IInv
<1>7. exchange'[i] = None /\ \A j \in All \ {i} : exchange'[j] = exchange[j]
  BY <1>1, <1>3
<1>8. left' \in [Tabs -> SUBSET Families]
  BY <1>1, <1>5
<1>9. ASSUME NEW u \in Tabs, NEW f \in Families, f \in left'[u], f \notin left[u]
      PROVE  /\ Holds(u, f) /\ tab'[u].token = None
             /\ exchange[i].op = "logout" /\ exchange[i].answer = "ok"
  <2>1. /\ e.op = "logout" /\ e.answer = "ok" /\ tab' = Cleared(t) /\ u = t
        /\ tab[t].token # None /\ tab[t].token.family = f
    BY <1>1, <1>5, <1>9
  <2> QED  BY <1>2, <2>1, TokensOfTabs DEF Holds, IInv
<1> QED  BY <1>3, <1>6, <1>7, <1>8, <1>9, HeardSticks

LEMMA RefreshSharedSticks ==
  ASSUME IInv, Sticky, NEW i \in All, exchange[i] # None, exchange[i].tab # None,
         cookie' = Stored(exchange[i]), UNCHANGED server, RefreshShared(i)
  PROVE  Sticky'
<1>1. /\ exchange \in [All -> Exchange \cup {None}] /\ tab \in [Tabs -> Tab] /\ DOMAIN exchange = All
      /\ left \in [Tabs -> SUBSET Families]
  BY DEF IInv, TypeOK, All
<1>2. PICK o \in Exchange, t \in Tabs : o = exchange[i] /\ o.tab = t /\ o.answer = "expired"
  BY <1>1 DEF Exchange, RefreshShared
<1>3. o.secret = None /\ o.op \in {"call", "login", "password", "reset"}
  BY <1>2 DEF IInv, Shaped, Exchange, Operations
<1>4. cookie' = cookie
  BY <1>2, <1>3 DEF Stored
<1>5. PICK w : /\ w = [o EXCEPT !.at = "waits"] /\ w.at = "waits"
               /\ w.op = o.op /\ w.secret = None
  <2> DEFINE waits == [o EXCEPT !.at = "waits"]
  <2>1. waits.at = "waits" /\ waits.op = o.op /\ waits.secret = o.secret
    BY DEF Exchange
  <2> QED  BY <1>3, <2>1
<1>6. PICK others : others = [exchange EXCEPT ![i] = w]
  OBVIOUS
<1>7. /\ DOMAIN others = All
      /\ \A j \in All : others[j] = IF j = i THEN w ELSE exchange[j]
  BY <1>1, <1>6
<1>8. Matched(w)
  BY <1>5 DEF Matched
<1>9. CASE /\ exchange' = [exchange EXCEPT ![i].at = "waits"] /\ UNCHANGED <<tab, overlapped, left>>
  <2>1. \A j \in All : exchange'[j] = IF j = i THEN w ELSE exchange[j]
    BY <1>1, <1>2, <1>5, <1>9
  <2>2. \A j \in All : exchange'[j] # None =>
          \/ exchange'[j] = exchange[j]
          \/ exchange[j] # None /\ exchange'[j].op = exchange[j].op /\ Matched(exchange'[j])
    BY <1>2, <1>5, <1>8, <2>1
  <2>3. \A j \in All, f \in Families : Has(exchange'[j], f) =>
          Has(exchange[j], f) /\ exchange'[j].op = exchange[j].op
    BY <1>5, <2>1 DEF Has
  <2>4. /\ left' \in [Tabs -> SUBSET Families] /\ UNCHANGED <<family, left, overlapped>>
        /\ \A u \in Tabs, f \in Families : Holds(u, f)' => Holds(u, f)
        /\ \A f \in Families : InCookie(f)' => InCookie(f)
    BY <1>1, <1>4, <1>9 DEF server, Holds, InCookie
  <2> QED  BY <2>2, <2>3, <2>4, NothingTaken
<1>10. CASE /\ Free(Rotations) # {}
            /\ LET r == CHOOSE r \in Free(Rotations) : TRUE
               IN /\ exchange' = [exchange EXCEPT ![i].at = "waits", ![r] = Sent("refresh", t)]
                  /\ tab' = [tab EXCEPT ![t].rotation = r]
            /\ overlapped' = overlapped \cup Overlaps(Sent("refresh", t), exchange)
            /\ UNCHANGED left
  <2>1. PICK e \in Exchange :
          /\ e = Sent("refresh", t) /\ e # None
          /\ e.op = "refresh" /\ e.at = "out" /\ e.secret = cookie
    BY SentIsAnExchange DEF IInv
  <2>2. PICK r \in Rotations :
          /\ exchange[r] = None
          /\ exchange' = [exchange EXCEPT ![i].at = "waits", ![r] = e]
          /\ tab' = [tab EXCEPT ![t].rotation = r]
    <3>1. (CHOOSE r \in Free(Rotations) : TRUE) \in Free(Rotations)
      BY <1>10
    <3> QED  BY <1>10, <2>1, <3>1 DEF Free
  <2>3. r \in All /\ r # i
    BY <2>2 DEF All
  <2>4. exchange' = [others EXCEPT ![r] = e]
    BY <1>1, <1>2, <1>5, <1>6, <1>7, <2>2, <2>3
  <2>5. \A j \in All : exchange'[j] = IF j = r THEN e ELSE others[j]
    BY <1>7, <2>4
  <2>6. \A j \in All : others[j] # None =>
          /\ exchange[j] # None /\ Matched(others[j])
          /\ others[j].op = exchange[j].op /\ others[j].secret = exchange[j].secret
    BY <1>2, <1>3, <1>5, <1>7, <1>8 DEF Sticky
  <2>7. \A j \in All :
          /\ others[j] # None /\ others[j].op # "call" /\ e.op \in {"refresh", "logout"}
          /\ others[j].op = "logout" \/ e.op = "logout"
          => FamilyOf(e) \cup FamilyOf(others[j]) \subseteq overlapped'
    <3> SUFFICES ASSUME NEW j \in All, others[j] # None, others[j].op = "logout"
                 PROVE  FamilyOf(e) \cup FamilyOf(others[j]) \subseteq overlapped'
      BY <2>1
    <3>1. others[j] = exchange[j]
      BY <1>3, <1>5, <1>7
    <3>2. FamilyOf(e) \cup FamilyOf(exchange[j]) \subseteq Overlaps(e, exchange)
      BY <1>1, <3>1, OverlapsMeetBoth
    <3> QED  BY <1>10, <2>1, <3>1, <3>2
  <2>8. \A u \in Tabs, f \in Families : Holds(u, f)' => Holds(u, f)
    <3>1. \A u \in Tabs : tab'[u].token = tab[u].token
      BY <1>1, <2>2 DEF Tab
    <3> QED  BY <3>1 DEF Holds
  <2>9. UNCHANGED <<family, cookie, left>> /\ overlapped \subseteq overlapped'
    BY <1>4, <1>10 DEF server
  <2> QED  BY <2>1, <2>3, <2>5, <2>6, <2>7, <2>8, <2>9, SomethingTaken
<1> QED  BY <1>2, <1>9, <1>10 DEF RefreshShared

LEMMA NextSticks ==
  IInv /\ Sticky /\ [Next]_vars => Sticky'
<1> SUFFICES ASSUME IInv, Sticky, [Next]_vars  PROVE Sticky'
  OBVIOUS
<1>1. CASE UNCHANGED vars
  BY <1>1 DEF vars, Sticky, UntoldYet, Untold, Met, Gone, Matched, Holds, InCookie, Has
<1>2. ASSUME NEW t \in Tabs, Open(t) \/ Use(t)
      PROVE  Sticky'
  BY <1>2, OpenSticks, UseSticks
<1>3. ASSUME NEW i \in All, Serve(i)
      PROVE  Sticky'
  BY <1>3, ServeRefreshSticks, ServeLogoutSticks, ServeFormSticks DEF Serve
<1>4. ASSUME NEW i \in All, Deliver(i)
      PROVE  Sticky'
  <2>1. /\ exchange[i] # None /\ exchange[i].tab # None /\ exchange[i].at = "back"
        /\ cookie' = Stored(exchange[i]) /\ UNCHANGED server /\ Hear(i)
    BY <1>4 DEF Deliver
  <2> QED  BY <2>1, HearRefreshSticks, HearEndSticks, RefreshSharedSticks DEF Hear
<1>5. ASSUME NEW i \in All, Drop(i) \/ Lose(i)
      PROVE  Sticky'
  BY <1>5, LossSticks
<1> QED  BY <1>1, <1>2, <1>3, <1>4, <1>5, DecideSticks DEF Next, All

\* A page whose logout was answered has the session back only if the logout met another exchange
\* on the way (auth.service.ts:78-82, dashboard.ts:121-130, endpoints/auth.py:218-225).
THEOREM LogoutsStick ==
  Spec => []LogoutSticks
<1>1. Init => Sticky
  <2> SUFFICES ASSUME Init  PROVE Sticky
    OBVIOUS
  <2>1. /\ \A i \in All : exchange[i] = None
        /\ \A t \in Tabs : left[t] = {} /\ tab[t].token = None
        /\ cookie = None
    BY DEF Init, All
  <2> QED  BY <2>1 DEF Sticky, UntoldYet, Untold, Met, Gone, Has, Holds, InCookie
<1>2. IInv /\ Sticky => LogoutSticks
  <2> SUFFICES ASSUME IInv, Sticky, NEW t \in Tabs, tab[t].token # None,
                      tab[t].token.family \in left[t]
               PROVE  tab[t].token.family \in overlapped
    BY DEF LogoutSticks
  <2> QED  BY DEF Sticky, Gone, Holds
<1> QED  BY <1>1, <1>2, InvariantHolds, NextSticks, PTL DEF Spec
=============================================================================
