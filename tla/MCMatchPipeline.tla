--------------------------- MODULE MCMatchPipeline ---------------------------
(* Constants of MatchPipeline that a .cfg cannot write. *)
EXTENDS MatchPipeline, TLC

(* Both pipeline ids run the same job; no property tells them apart. *)
McSymmetry == Permutations(Pipelines)
=============================================================================
