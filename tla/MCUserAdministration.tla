------------------------- MODULE MCUserAdministration -------------------------
(***************************************************************************)
(* Instances of UserAdministration for TLC.                                *)
(***************************************************************************)
EXTENDS UserAdministration, TLC

\* A demotion, an activation, a deactivation, and a body that runs both services.
Bodies == {[role |-> "lecteur", active |-> None], [role |-> None, active |-> TRUE],
           [role |-> None, active |-> FALSE], [role |-> "admin", active |-> FALSE]}

Interchangeable == Permutations(Users) \cup Permutations(Requests)
=============================================================================
