------------------------------ MODULE MCPairing ------------------------------
(* Pairing with requests that cross and that are repeated *)
EXTENDS Pairing, TLC

Symmetry == Permutations(Requests) \cup Permutations(Accepts) \cup Permutations(Types)
=============================================================================
