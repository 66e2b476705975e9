--------------------------- MODULE MCImageReview ---------------------------
(* A small deployment of ImageReview for TLC.                              *)
EXTENDS ImageReview, TLC

Symmetry == Permutations(Generators)
=============================================================================
