--------------------------- MODULE MCHostedProfiles ---------------------------
(***************************************************************************)
(* Model of HostedProfiles: two profiles, two contents, two requests.      *)
(***************************************************************************)
EXTENDS HostedProfiles, TLC

Symmetry == Permutations(Profiles) \cup Permutations(Contents) \cup Permutations(Requests)
=============================================================================
