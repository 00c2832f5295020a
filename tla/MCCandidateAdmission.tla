------------------------ MODULE MCCandidateAdmission ------------------------
(* Instances of CandidateAdmission for TLC. *)
EXTENDS CandidateAdmission, TLC

CONSTANTS e1, e2, i1, i2, f1, f2, v1, v2

OneEndpoint  == e1 :> i1
OneAddress   == e1 :> i1 @@ e2 :> i1
OwnAddresses == e1 :> i1 @@ e2 :> i2

Symmetry == Permutations({f1, f2}) \cup Permutations({v1, v2})
=============================================================================
