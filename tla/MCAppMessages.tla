---------------------------- MODULE MCAppMessages ----------------------------
(* AppMessages with more messages than a channel of a call takes *)
EXTENDS AppMessages
=============================================================================
