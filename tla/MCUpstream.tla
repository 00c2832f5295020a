----------------------------- MODULE MCUpstream -----------------------------
(* Instances of Upstream for TLC. *)
EXTENDS Upstream, TLC

CONSTANTS e1, e2, r1, r2, http, socks5

TwoProtocols == e1 :> http @@ e2 :> socks5
=============================================================================
