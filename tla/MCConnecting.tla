---------------------------- MODULE MCConnecting ----------------------------
(* Two homes: one with two addresses, the other with one and with a name,   *)
(* which multiaddr_to_socketaddr does not convert                           *)
EXTENDS Connecting, TLC

MCHomeOf == "a1" :> 2 @@ "a2" :> 2 @@ "a3" :> 3 @@ "dns" :> 3
MCInfoLen == 1 :> 2 @@ 2 :> 1 @@ 3 :> 2
=============================================================================
