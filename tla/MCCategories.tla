---------------------------- MODULE MCCategories ----------------------------
(* Instances of Categories. *)
EXTENDS Categories, TLC
CONSTANTS c1, c2, c3, c4, g1, r1, r2

MCRawOfTwo == g1 :> {r1, r2}
MCRawOfOne == g1 :> {r1}
=============================================================================
