----------------------------- MODULE MCCredentials -----------------------------
(***************************************************************************)
(* Instances of Credentials for TLC.  A behaviour draws one mix: the       *)
(* limits, over two identifiers and two addresses; the links with what     *)
(* changes the account under them; the writers of one password.            *)
(***************************************************************************)
EXTENDS Credentials, TLC

One(S) == {CHOOSE v \in S : TRUE}

Combinations ==
  { [ops |-> {"login"}, emails |-> Emails, ips |-> Ips],
    [ops |-> {"link"}, emails |-> Emails, ips |-> One(Ips)],
    [ops |-> {"link", "confirm", "set_active"}, emails |-> One(Emails), ips |-> One(Ips)],
    [ops |-> {"login", "change_password", "reset_password", "set_active", "create"},
     emails |-> One(Emails), ips |-> One(Ips)] }

Interchangeable == Permutations(Requests) \cup Permutations(Links)
=============================================================================
