---------------------------- MODULE MCScheduling ----------------------------
(* Instances of Scheduling for TLC. *)
EXTENDS Scheduling, TLC

CONSTANTS e1, e2, e3, i1, i2, d1

TwoPorts == e1 :> i1 @@ e2 :> i1 @@ e3 :> i2

Symmetry == Permutations({e1, e2})
=============================================================================
