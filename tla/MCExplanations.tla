--------------------------- MODULE MCExplanations ---------------------------
(* Two matches, of organizations nothing else tells apart, and two jobs.   *)
EXTENDS Explanations, TLC

Symmetry == Permutations(Matches) \cup Permutations(Jobs)
=============================================================================
