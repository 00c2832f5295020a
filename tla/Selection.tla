----------------------------- MODULE Selection -----------------------------
(***************************************************************************)
(* Taking the elements of a sequence that pass a test, in the form that    *)
(* proofs can use: SelectSeq of the module Sequences, with the test as a    *)
(* set, and written as a recursive function.  Its facts are proved in      *)
(* SelectionProofs.                                                        *)
(***************************************************************************)
EXTENDS Integers, Sequences

\* The elements of a sequence that are in a set, in their order.
Only(s, S) ==
    LET f[i \in 0 .. Len(s)] ==
            IF i = 0 THEN << >>
            ELSE IF s[i] \in S THEN Append(f[i - 1], s[i]) ELSE f[i - 1]
    IN  f[Len(s)]
=============================================================================
