----------------------------- MODULE MCServerSink -----------------------------
(***************************************************************************)
(* Model of ServerSink: up to four items and a repeated request for the    *)
(* stream, so that a handover of three items parks at capacity one while   *)
(* others push and the warning is sent.                                    *)
(***************************************************************************)
EXTENDS ServerSink
=============================================================================
