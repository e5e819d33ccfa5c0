----------------------------- MODULE MCColdRouting -----------------------------
(***************************************************************************)
(* Instances of ColdRouting for TLC.                                       *)
(***************************************************************************)
EXTENDS ColdRouting, Bitwise, TLC

CONSTANTS r1, r2

Caret(a, b) == a ^^ b

\* Two IDs with hashes far apart, and none.
TwoHashes == (r1 :> 9) @@ (r2 :> 28)
NoHashes  == [r \in {} |-> 0]

=============================================================================
