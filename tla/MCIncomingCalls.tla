--------------------------- MODULE MCIncomingCalls ---------------------------
(***************************************************************************)
(* Model of IncomingCalls.                                                 *)
(***************************************************************************)
EXTENDS IncomingCalls
=============================================================================
