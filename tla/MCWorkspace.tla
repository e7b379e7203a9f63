---------------------------- MODULE MCWorkspace ----------------------------
(* Two requests of four overlap; who is who, and which of them is which,   *)
(* makes no difference.                                                    *)
EXTENDS Workspace, TLC

Symmetry == Permutations(Users) \cup Permutations(Slots)
=============================================================================
