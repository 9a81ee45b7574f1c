--------------------------- MODULE MCClientSessions ---------------------------
(***************************************************************************)
(* Model of ClientSessions.                                                *)
(***************************************************************************)
EXTENDS ClientSessions, TLC

Symmetry ==
    Permutations(Homes) \cup Permutations(Joins) \cup Permutations(Logins) \cup Permutations(Events)
=============================================================================
