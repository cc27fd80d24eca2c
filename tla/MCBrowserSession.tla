--------------------------- MODULE MCBrowserSession ----------------------------
(***************************************************************************)
(* An instance of BrowserSession for TLC: calls, logins and logouts in one *)
(* tab that is reloaded, in two tabs, and with an answer lost; changes and *)
(* resets of the password, with an admin who decides meanwhile.            *)
(***************************************************************************)
EXTENDS BrowserSession

CONSTANTS a, b

Mix(users, tabs, uses, reloads, losses, decisions) ==
  [users |-> users, tabs |-> tabs, uses |-> uses, reloads |-> reloads, losses |-> losses,
   decisions |-> decisions]

Combinations ==
  {Mix({"login", "call", "logout"}, {a}, 4, 1, 0, 0),
   Mix({"login", "call", "logout"}, {a, b}, 3, 0, 0, 0),
   Mix({"login", "call", "logout"}, {a}, 3, 1, 1, 0),
   Mix({"reset", "login", "password", "call"}, {a}, 4, 0, 0, 1)}
=============================================================================
