----------------------------- MODULE MCHomeServer -----------------------------
(***************************************************************************)
(* Model of HomeServer.  Requests are not serialized: every interleaving   *)
(* of the chains, logins, drops and pushes is explored.                    *)
(***************************************************************************)
EXTENDS HomeServer, TLC

Symmetry == Permutations(Profiles) \cup Permutations(Sessions)
              \cup Permutations(Events) \cup Permutations(Lookups)
=============================================================================
