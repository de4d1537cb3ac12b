----------------------------- MODULE MCGallery -----------------------------
(* Instances of Gallery for TLC. *)
EXTENDS Gallery, TLC

\* Cards are interchangeable, and so are the photos without a thumbnail.
Symmetry == Permutations(Products) \cup Permutations(Images \ Thumbed)
=============================================================================
