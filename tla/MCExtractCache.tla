--------------------------- MODULE MCExtractCache ---------------------------
(* Two builds; releases a1 and a2 share an extractor, b does not; of the two  *)
(* provider platforms one has cyclic groups to merge.                         *)
EXTENDS ExtractCache, TLC

CONSTANTS build1, build2, a1, a2, b, linux, darwin

MCExtractorOf == [r \in Releases |-> IF r = b THEN "extB" ELSE "extA"]
Symmetry == Permutations(Builds)
=============================================================================
