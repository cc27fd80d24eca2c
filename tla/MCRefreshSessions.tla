--------------------------- MODULE MCRefreshSessions ---------------------------
(***************************************************************************)
(* Instances of RefreshSessions for TLC.  The secrets are interchangeable, *)
(* and so are the requests.                                                *)
(***************************************************************************)
EXTENDS RefreshSessions, TLC

Interchangeable == Permutations(Tokens) \cup Permutations(Requests)
=============================================================================
