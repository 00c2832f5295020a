--------------------------- MODULE MCVerification ---------------------------
(* Instances of Verification for TLC. *)
EXTENDS Verification, TLC

CONSTANTS e1, i1, f1, v1, v2, c1

OneEndpoint == e1 :> i1
=============================================================================
