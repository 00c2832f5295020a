---------------------------- MODULE MCProxyPool ----------------------------
(* Instances of ProxyPool, and of its refinement, for TLC. *)
EXTENDS ProxyPoolRefinement, TLC

CONSTANTS e1, e2, i1, i2, w1, w2

SamePort   == e1 :> i1 @@ e2 :> i1     \* two endpoints on one address
OtherIP    == e1 :> i1 @@ e2 :> i2     \* two addresses
TwoBackoff == <<1, 2>>

\* Goroutines are interchangeable, and so are the ports of one address.
SymmetrySamePort == Permutations({e1, e2}) \cup Permutations({w1, w2})

\* hits and promised influence no step: runs that check nothing about them
\* do not tell states apart by them.
WithoutIPHistory ==
    <<now, db, phase, lists, caches, reads, threads, streak>>

\* Two addresses with one endpoint each may be swapped as pairs.
SymmetryOtherIP ==
    {e1 :> e2 @@ e2 :> e1 @@ i1 :> i2 @@ i2 :> i1} \cup Permutations({w1, w2})
=============================================================================
