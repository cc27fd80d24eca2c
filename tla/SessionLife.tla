------------------------------ MODULE SessionLife ------------------------------
(***************************************************************************)
(* What the refresh sessions promise, seen by the clients: a session has   *)
(* at most one usable secret, fresh at the opening and replaced by a fresh *)
(* one at each rotation; all its secrets are of one account and share one  *)
(* deadline; once it has no usable secret it is closed for good, and the   *)
(* fate of a spent secret is never rewritten.  One transaction rotates one *)
(* session, or closes sessions of one account and opens at most one.       *)
(***************************************************************************)

CONSTANTS Secrets,   \* what a client may hold; a session is named after its first one
          Accounts,
          Fates,     \* what may end the life of a secret
          Rotation   \* the fate of a secret that a successor replaces

VARIABLE session  \* each with its owners, deadlines, usable secrets and spent secrets

Unopened == [owners |-> {}, deadlines |-> {}, usable |-> {}, spent |-> [t \in {} |-> Rotation]]

Opened == {f \in Secrets : session[f].owners # {}}

\* Secrets that no session ever had.
Fresh == {t \in Secrets : \A f \in Secrets : /\ t \notin session[f].usable
                                             /\ t \notin DOMAIN session[f].spent}

\* Session s once its usable secret has met its fate, and the secrets next are usable.
Spend(s, fate, next) ==
  [owners |-> s.owners, deadlines |-> s.deadlines, usable |-> next,
   spent |-> [t \in s.usable \cup DOMAIN s.spent |->
                IF t \in s.usable THEN fate ELSE s.spent[t]]]

Keeps(f) == session'[f] = session[f]

\* The fate may be the rotation itself: no successor comes when the account was
\* deactivated.
Closes(f, u) ==
  /\ f \in Opened
  /\ session[f].owners = {u}
  /\ session[f].usable # {}
  /\ \E fate \in Fates : session'[f] = Spend(session[f], fate, {})

\* The deadline is settled at the opening, and is not said here.
Opens(f, u) ==
  /\ f \in Fresh \ Opened
  /\ session'[f].owners = {u}
  /\ \E d \in session'[f].deadlines : session'[f].deadlines = {d}
  /\ session'[f].usable = {f}
  /\ DOMAIN session'[f].spent = {}

Renews(f) ==
  /\ f \in Opened
  /\ session[f].usable # {}
  /\ \E t \in Fresh : session'[f] = Spend(session[f], Rotation, {t})

Init == session = [f \in Secrets |-> Unopened]

\* Logouts, replays, password changes, administration; a login closes nothing.
Close(u) == \A f \in Secrets : Keeps(f) \/ Closes(f, u)

Open(u, f) ==
  /\ Opens(f, u)
  /\ \A g \in Secrets \ {f} : Keeps(g) \/ Closes(g, u)

Renew(f) ==
  /\ Renews(f)
  /\ \A g \in Secrets \ {f} : Keeps(g)

Next ==
  /\ session' = [f \in Secrets |-> session'[f]]
  /\ \/ \E u \in Accounts : Close(u)
     \/ \E u \in Accounts, f \in Secrets : Open(u, f)
     \/ \E f \in Secrets : Renew(f)

Spec == Init /\ [][Next]_session
=============================================================================
