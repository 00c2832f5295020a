-------------------------- MODULE MCRoutineChecks --------------------------
(* Instances of RoutineChecks for TLC. *)
EXTENDS RoutineChecks, TLC

CONSTANTS e1, e2, i1, c1

OneEndpoint == e1 :> i1
OneAddress  == e1 :> i1 @@ e2 :> i1
=============================================================================
