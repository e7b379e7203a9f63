----------------------------- MODULE MCIngestion -----------------------------
(* Constants of Ingestion that a .cfg cannot write. *)
EXTENDS Ingestion, TLC

(* Texts are only ever compared with each other. *)
McSymmetry == Permutations(Texts)
=============================================================================
