--------------------------- MODULE MCDappSessions ---------------------------
(* Two connections, the administration, and a profile without a signer *)
EXTENDS DappSessions
=============================================================================
