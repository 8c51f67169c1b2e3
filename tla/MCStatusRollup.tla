--------------------------- MODULE MCStatusRollup ---------------------------
(* Instances of StatusRollup for TLC: a document of two pages, and one of    *)
(* one page.                                                                *)
EXTENDS StatusRollup, TLC

CONSTANTS j1, j2, j3, d1, d2

TwoPages == (j1 :> d1) @@ (j2 :> d1)
ThreePages == TwoPages @@ (j3 :> d2)

SessionSymmetry == Permutations(Sessions)
=============================================================================
