---------------------------- MODULE BrowserSession -----------------------------
(***************************************************************************)
(* The session of one account in one browser: each tab keeps an access     *)
(* token in memory (auth.service.ts), the tabs share the cookie of the     *)
(* refresh secret, and the interceptor renews a token that is refused, by  *)
(* one rotation for all the calls of its tab.  Requests and answers travel *)
(* in any order, may be lost, and outlive the page that has sent them.     *)
(* An operation of the server is one step here; RefreshSessions has its    *)
(* statements.                                                             *)
(***************************************************************************)
EXTENDS Naturals, FiniteSets, FiniteSetsExt

CONSTANTS Tabs,
          Families,     \* the sessions that may be opened
          MaxSecret,    \* rotations of a session, counted from 1
          Slots,        \* exchanges of the users' doing under way
          Rotations,    \* rotations under way
          Mixes,        \* a behaviour draws one: what the users do, in which tabs, and how many
                        \* uses, reloads, losses and decisions of an admin it has
          None

Operations == {"call", "login", "logout", "password", "reset"}

ASSUME BrowserAssumption ==
  /\ MaxSecret \in Nat \ {0} /\ Slots \cap Rotations = {}
  /\ Mixes \subseteq [users : SUBSET Operations, tabs : SUBSET Tabs, uses : Nat, reloads : Nat,
                      losses : Nat, decisions : Nat]

VARIABLES family,      \* of each session: the state of its row and the number of its last secret
          epoch,       \* changes of role or password so far
          active,      \* the account is active
          cookie,      \* the refresh secret the browser holds
          tab,         \* page and memory of each tab
          exchange,    \* requests and answers under way
          left,        \* sessions each tab has logged out of, and been told so
          overlapped,  \* sessions whose secret was sent, set or dropped by two exchanges at once
          troubled,    \* sessions whose new secret or logout was lost
          spent, mix

server == <<family, epoch, active>>
vars == <<family, epoch, active, cookie, tab, exchange, left, overlapped, troubled, spent, mix>>

Secret == [family : Families, n : 1..MaxSecret]
Token == [family : Families, epoch : Nat]

\* rotation is rotation$: the rotation under way, shared by the calls of the tab.
\* The pages of a session are shown to whoever has a token, those of guests to everybody.
Tab == [page : {"closed", "starting", "open"}, token : Token \cup {None},
        rotation : Rotations \cup {None}]

\* tab is None once the page is gone: nobody hears the answer.
Exchange == [op : Operations \cup {"refresh"}, tab : Tabs \cup {None}, at : {"out", "back", "waits"},
             secret : Secret \cup {None}, token : Token \cup {None}, retried : BOOLEAN,
             answer : {"none", "ok", "refused", "expired", "invalid", "error"}]

ASSUME NoneAssumption ==
  None \notin Tabs \cup Families \cup Slots \cup Rotations \cup Secret \cup Token \cup Exchange

Init ==
  /\ family = [f \in Families |-> [status |-> "unused", n |-> 0]]
  /\ epoch = 0 /\ active = TRUE
  /\ cookie = None
  /\ tab = [t \in Tabs |-> [page |-> "closed", token |-> None, rotation |-> None]]
  /\ exchange = [i \in Slots \cup Rotations |-> None]
  /\ left = [t \in Tabs |-> {}]
  /\ overlapped = {} /\ troubled = {}
  /\ mix \in Mixes
  /\ spent = [uses |-> 0, reloads |-> 0, losses |-> 0, decisions |-> 0]

Free(slots) == {i \in slots : exchange[i] = None}

Under(t, i) == exchange[i] # None /\ exchange[i].tab = t

FamilyOf(e) == IF e.secret = None THEN {} ELSE {e.secret.family}

Spend(what) == spent[what] < mix[what] /\ spent' = [spent EXCEPT ![what] = @ + 1]

-----------------------------------------------------------------------------
(* Sending *)

Sent(op, t) ==
  [op |-> op, tab |-> t, at |-> "out", retried |-> FALSE, answer |-> "none",
   secret |-> IF op \in {"refresh", "logout"} THEN cookie ELSE None,
   token |-> IF op \in {"login", "refresh"} THEN None ELSE tab[t].token]

\* Whatever works on the cookie, but two rotations of one tab.
Overlaps(e, all) ==
  UNION {FamilyOf(e) \cup FamilyOf(all[i]) :
           i \in {i \in DOMAIN all : /\ all[i] # None /\ all[i].op # "call"
                                     /\ ~(/\ e.op = "refresh" /\ all[i].op = "refresh"
                                          /\ all[i].tab = e.tab)}}

\* A tab is opened or reloaded: its memory is lost, what it has sent goes on without it, and the
\* session is restored before anything is shown.
Open(t) ==
  LET dropped == {i \in DOMAIN exchange : Under(t, i) /\ exchange[i].at # "out"}
      others == [i \in DOMAIN exchange |-> IF i \in dropped THEN None
                                           ELSE IF Under(t, i) THEN [exchange[i] EXCEPT !.tab = None]
                                           ELSE exchange[i]]
      e == Sent("refresh", t)
  IN /\ t \in mix.tabs
     /\ IF tab[t].page = "closed" THEN UNCHANGED spent ELSE Spend("reloads")
     /\ LET free == {i \in Rotations : others[i] = None}
            r == CHOOSE r \in free : TRUE
        IN /\ free # {}
           /\ exchange' = [others EXCEPT ![r] = e]
           /\ tab' = [tab EXCEPT ![t] = [page |-> "starting", token |-> None, rotation |-> r]]
     /\ overlapped' = overlapped \cup Overlaps(e, others)
     /\ troubled' = troubled \cup UNION {FamilyOf(exchange[i]) : i \in dropped}
     /\ UNCHANGED <<server, cookie, left, mix>>

Puts(e) ==
  /\ Free(Slots) # {} /\ Spend("uses")
  /\ exchange' = [exchange EXCEPT ![CHOOSE i \in Free(Slots) : TRUE] = e]
  /\ overlapped' = IF e.op = "call" THEN overlapped ELSE overlapped \cup Overlaps(e, exchange)
  /\ UNCHANGED <<server, cookie, tab, left, troubled, mix>>

\* A form that waits for its answer is not sent again.
Idle(t) == \A i \in Slots : Under(t, i) => exchange[i].op \notin {"login", "password", "reset"}

Login(t) == tab[t].page = "open" /\ Idle(t) /\ Puts(Sent("login", t))

ResetPassword(t) == tab[t].page = "open" /\ Idle(t) /\ Puts(Sent("reset", t))

ChangePassword(t) == tab[t].token # None /\ Idle(t) /\ Puts(Sent("password", t))

Call(t) == tab[t].token # None /\ Puts(Sent("call", t))

\* Mutant: the page forgets its token and tells nobody.
LogoutHereOnly(t) ==
  /\ tab[t].token # None /\ Spend("uses")
  /\ left' = [left EXCEPT ![t] = @ \cup {tab[t].token.family}]
  /\ tab' = [tab EXCEPT ![t].token = None]
  /\ UNCHANGED <<server, cookie, exchange, overlapped, troubled, mix>>

Logout(t) == tab[t].token # None /\ Puts(Sent("logout", t))

Use(t) == \/ "login" \in mix.users /\ Login(t)
          \/ "reset" \in mix.users /\ ResetPassword(t)
          \/ "call" \in mix.users /\ Call(t)
          \/ "password" \in mix.users /\ ChangePassword(t)
          \/ "logout" \in mix.users /\ Logout(t)

-----------------------------------------------------------------------------
(* The server *)

Current(s) == family[s.family] = [status |-> "live", n |-> s.n]

Closed(reason) ==
  [f \in Families |-> IF family[f].status = "live" THEN [family[f] EXCEPT !.status = reason]
                      ELSE family[f]]

Answers(i, e) ==
  /\ exchange' = [exchange EXCEPT ![i] = IF e.tab = None /\ FamilyOf(e) = {} THEN None
                                         ELSE [e EXCEPT !.at = "back"]]
  /\ UNCHANGED <<cookie, tab, left, overlapped, troubled, spent, mix>>

Opens(i, e, former, now) ==
  LET unused == {f \in Families : family[f].status = "unused"}
      f == CHOOSE f \in unused : TRUE
  IN /\ unused # {}
     /\ family' = [former EXCEPT ![f] = [status |-> "live", n |-> 1]]
     /\ Answers(i, [e EXCEPT !.answer = "ok", !.secret = [family |-> f, n |-> 1],
                             !.token = [family |-> f, epoch |-> now]])

\* Mutant: a session never gets too old.
NeverTooOld(s) == FALSE

\* The age of a session is absolute: here it ends the session that has used all its secrets.
TooOld(s) == s.n = MaxSecret

\* A secret that is not the last one of a live session closes what is left of its session.
ServeRefresh(i) ==
  LET e == exchange[i]
      s == e.secret
  IN /\ e.op = "refresh"
     /\ UNCHANGED <<epoch, active>>
     /\ \/ /\ s = None
           /\ UNCHANGED family
           /\ Answers(i, [e EXCEPT !.answer = "refused"])
        \/ /\ s # None /\ Current(s) /\ ~TooOld(s)
           /\ family' = [family EXCEPT ![s.family].n = s.n + 1]
           /\ Answers(i, [e EXCEPT !.answer = "ok", !.secret = [s EXCEPT !.n = s.n + 1],
                                   !.token = [family |-> s.family, epoch |-> epoch]])
        \/ /\ s # None /\ ~Current(s)
           /\ family' = [family EXCEPT ![s.family].status = IF @ = "live" THEN "reuse" ELSE @]
           /\ Answers(i, [e EXCEPT !.answer = "refused"])
        \/ /\ s # None /\ Current(s) /\ TooOld(s)
           /\ family' = [family EXCEPT ![s.family].status = "aged"]
           /\ Answers(i, [e EXCEPT !.answer = "refused"])

ServeLogout(i) ==
  LET e == exchange[i]
  IN /\ e.op = "logout"
     /\ family' = [f \in Families |-> IF f \in FamilyOf(e) /\ family[f].status = "live"
                                      THEN [family[f] EXCEPT !.status = "logout"] ELSE family[f]]
     /\ Answers(i, [e EXCEPT !.answer = "ok"])
     /\ UNCHANGED <<epoch, active>>

ServeLogin(i) ==
  LET e == exchange[i]
  IN /\ e.op = "login"
     /\ \/ active /\ Opens(i, e, family, epoch)
        \/ UNCHANGED family /\ Answers(i, [e EXCEPT !.answer = "refused"])
     /\ UNCHANGED <<epoch, active>>

\* What get_current_principal makes of a token.
Verdicts(k) ==
  IF k = None THEN {"error"}
  ELSE {"expired"} \cup (IF ~active THEN {"invalid"} ELSE IF k.epoch < epoch THEN {} ELSE {"ok"})

\* A call may also be refused to the role of the account, or fail.
ServeCall(i) ==
  LET e == exchange[i]
  IN /\ e.op = "call"
     /\ \E a \in Verdicts(e.token) \cup (IF "ok" \in Verdicts(e.token) THEN {"error"} ELSE {}) :
          Answers(i, [e EXCEPT !.answer = a])
     /\ UNCHANGED server

\* A change or a reset of the password closes every session and opens one.
ServePassword(i) ==
  LET e == exchange[i]
  IN \/ /\ \/ e.op = "password" /\ "ok" \in Verdicts(e.token)
           \/ e.op = "reset" /\ active
        /\ Opens(i, e, Closed("password"), epoch + 1)
        /\ epoch' = epoch + 1
        /\ UNCHANGED active
     \/ /\ \/ /\ e.op = "password"
              /\ \E a \in (Verdicts(e.token) \ {"ok"}) \cup {"error"} :
                   Answers(i, [e EXCEPT !.answer = a])
           \/ e.op = "reset" /\ Answers(i, [e EXCEPT !.answer = "refused"])
        /\ UNCHANGED server

Serve(i) ==
  /\ exchange[i] # None /\ exchange[i].at = "out"
  /\ ServeRefresh(i) \/ ServeLogout(i) \/ ServeLogin(i) \/ ServeCall(i) \/ ServePassword(i)

\* An admin changes the role or resets the password, or closes the account.
Decide ==
  /\ Spend("decisions")
  /\ family' = Closed("admin")
  /\ \/ epoch' = epoch + 1 /\ UNCHANGED active
     \/ active' = FALSE /\ UNCHANGED epoch
  /\ UNCHANGED <<cookie, tab, exchange, left, overlapped, troubled, mix>>

-----------------------------------------------------------------------------
(* Answers *)

SessionOf(t, e) == [tab EXCEPT ![t].token = e.token]

Cleared(t) == [tab EXCEPT ![t].token = None]

\* Set-Cookie is for the browser, whoever reads the answer.  A 401 on a request without a cookie
\* does not carry one.
Stored(e) ==
  IF e.op \in {"refresh", "login", "password", "reset"} /\ e.answer = "ok" THEN e.secret
  ELSE IF (e.op = "logout" /\ e.answer = "ok") \/ (e.op = "refresh" /\ e.secret # None) THEN None
  ELSE cookie

\* Mutant: a rotation that fails is told to one call only.
ResumedOne(t, e) ==
  [j \in DOMAIN exchange |->
     IF Under(t, j) /\ exchange[j].at = "waits"
     THEN IF e.answer = "ok"
          THEN [exchange[j] EXCEPT !.at = "out", !.token = e.token, !.retried = TRUE]
          ELSE IF j = CHOOSE k \in DOMAIN exchange : Under(t, k) /\ exchange[k].at = "waits"
               THEN None ELSE exchange[j]
     ELSE exchange[j]]

\* The calls of the tab that wait for the rotation, sent again with its token or given up.
Resumed(t, e) ==
  [j \in DOMAIN exchange |->
     IF Under(t, j) /\ exchange[j].at = "waits"
     THEN IF e.answer = "ok"
          THEN [exchange[j] EXCEPT !.at = "out", !.token = e.token, !.retried = TRUE]
          ELSE None
     ELSE exchange[j]]

HearRefresh(i) ==
  LET e == exchange[i]
      t == e.tab
  IN /\ e.op = "refresh"
     /\ exchange' = [Resumed(t, e) EXCEPT ![i] = None]
     /\ tab' = [(IF e.answer = "ok" THEN SessionOf(t, e) ELSE Cleared(t))
                   EXCEPT ![t].rotation = None, ![t].page = "open"]
     /\ UNCHANGED <<left, overlapped>>

\* The session is over for the page even if the request has failed; the cookie then stays, and
\* the next reload restores the session.
HearLogout(i) ==
  LET e == exchange[i]
      t == e.tab
  IN /\ e.op = "logout"
     /\ exchange' = [exchange EXCEPT ![i] = None]
     /\ left' = [left EXCEPT ![t] = @ \cup {f \in Families : /\ e.answer = "ok"
                                                            /\ tab[t].token # None
                                                            /\ tab[t].token.family = f}]
     /\ tab' = Cleared(t)
     /\ UNCHANGED overlapped

HearSession(i) ==
  LET e == exchange[i]
  IN /\ e.op \in {"login", "password", "reset"} /\ e.answer \in {"ok", "refused"}
     /\ exchange' = [exchange EXCEPT ![i] = None]
     /\ tab' = IF e.answer = "ok" THEN SessionOf(e.tab, e) ELSE tab
     /\ UNCHANGED <<left, overlapped>>

\* A refused token is renewed once; whatever fails afterwards ends the session of the page.
HearCall(i) ==
  LET e == exchange[i]
      t == e.tab
  IN /\ e.op \in {"call", "password", "reset", "login"} /\ e.answer \notin {"expired", "refused"}
     /\ e.op # "call" => e.answer # "ok"
     /\ exchange' = [exchange EXCEPT ![i] = None]
     /\ tab' = IF e.answer = "invalid" \/ (e.retried /\ e.answer # "ok") THEN Cleared(t) ELSE tab
     /\ UNCHANGED <<left, overlapped>>

GiveUp(i) ==
  /\ exchange[i].answer = "expired" /\ exchange[i].retried
  /\ exchange' = [exchange EXCEPT ![i] = None]
  /\ tab' = Cleared(exchange[i].tab)
  /\ UNCHANGED <<left, overlapped>>

\* Mutant: a rotation for each call that is refused.
RefreshEach(i) ==
  LET t == exchange[i].tab
      e == Sent("refresh", t)
  IN /\ exchange[i].answer = "expired" /\ ~exchange[i].retried
     /\ Free(Rotations) # {}
     /\ LET r == CHOOSE r \in Free(Rotations) : TRUE
        IN /\ exchange' = [exchange EXCEPT ![i].at = "waits", ![r] = e]
           /\ tab' = [tab EXCEPT ![t].rotation = r]
     /\ overlapped' = overlapped \cup Overlaps(e, exchange)
     /\ UNCHANGED left

RefreshShared(i) ==
  LET t == exchange[i].tab
      e == Sent("refresh", t)
  IN /\ exchange[i].answer = "expired" /\ ~exchange[i].retried
     /\ \/ /\ tab[t].rotation # None
           /\ exchange' = [exchange EXCEPT ![i].at = "waits"]
           /\ UNCHANGED <<tab, overlapped>>
        \/ /\ tab[t].rotation = None
           /\ Free(Rotations) # {}
           /\ LET r == CHOOSE r \in Free(Rotations) : TRUE
              IN /\ exchange' = [exchange EXCEPT ![i].at = "waits", ![r] = e]
                 /\ tab' = [tab EXCEPT ![t].rotation = r]
           /\ overlapped' = overlapped \cup Overlaps(e, exchange)
     /\ UNCHANGED left

Hear(i) ==
  \/ HearRefresh(i) \/ HearLogout(i) \/ HearSession(i) \/ HearCall(i) \/ GiveUp(i)
  \/ RefreshShared(i)

\* The answer reaches the page.
Deliver(i) ==
  /\ exchange[i] # None /\ exchange[i].at = "back" /\ exchange[i].tab # None
  /\ cookie' = Stored(exchange[i])
  /\ Hear(i)
  /\ UNCHANGED <<server, troubled, spent, mix>>

\* The page is gone: nobody takes the answer.
Drop(i) ==
  /\ exchange[i] # None /\ exchange[i].at = "back" /\ exchange[i].tab = None
  /\ exchange' = [exchange EXCEPT ![i] = None]
  /\ troubled' = troubled \cup FamilyOf(exchange[i])
  /\ UNCHANGED <<server, cookie, tab, left, overlapped, spent, mix>>

\* The request or its answer is lost and the page is told of an error.
Lose(i) ==
  LET e == exchange[i]
  IN /\ e # None /\ e.at \in {"out", "back"} /\ e.tab # None
     /\ Spend("losses")
     /\ exchange' = [exchange EXCEPT ![i] = [e EXCEPT !.at = "back", !.answer = "error",
                                                      !.secret = None, !.token = None]]
     /\ troubled' = troubled \cup FamilyOf(e)
     /\ UNCHANGED <<server, cookie, tab, left, overlapped, mix>>

Next == \/ \E t \in Tabs : Open(t) \/ Use(t)
        \/ \E i \in Slots \cup Rotations : Serve(i) \/ Deliver(i) \/ Drop(i) \/ Lose(i)
        \/ Decide

\* The server answers, and the answers arrive.
Fairness == \A i \in Slots \cup Rotations : WF_vars(Serve(i)) /\ WF_vars(Deliver(i)) /\ WF_vars(Drop(i))

Spec == Init /\ [][Next]_vars /\ Fairness

-----------------------------------------------------------------------------
(* Properties *)

TypeOK ==
  /\ family \in [Families -> [status : {"unused", "live", "logout", "reuse", "password", "admin", "aged"},
                              n : 0..MaxSecret]]
  /\ epoch \in Nat /\ active \in BOOLEAN
  /\ cookie \in Secret \cup {None}
  /\ tab \in [Tabs -> Tab]
  /\ exchange \in [Slots \cup Rotations -> Exchange \cup {None}]
  /\ left \in [Tabs -> SUBSET Families]
  /\ overlapped \subseteq Families /\ troubled \subseteq Families

\* The server takes a session for stolen only when a new secret was lost, or when two exchanges
\* of different tabs or of different kinds worked on it at once: calls that are refused together
\* in one tab never cost it its session (auth.service.ts:65-76, auth-interceptor.ts:72-88).
FamiliesFallForACause ==
  \A f \in Families : family[f].status = "reuse" => f \in overlapped \cup troubled

\* A page whose logout was answered has the session back only if the logout met another exchange
\* on the way (auth.service.ts:78-82, dashboard.ts:121-130, endpoints/auth.py:218-225).
LogoutSticks ==
  \A t \in Tabs : tab[t].token # None /\ tab[t].token.family \in left[t]
                    => tab[t].token.family \in overlapped

\* A call ends, although its token is refused, its rotation fails or the user logs out meanwhile
\* (auth-interceptor.ts:36-92).
CallsSettle ==
  \A i \in Slots : exchange[i] # None ~> exchange[i] = None
=============================================================================
