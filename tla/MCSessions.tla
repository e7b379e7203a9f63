----------------------------- MODULE MCSessions -----------------------------
(* Two requests of three overlap, and two devices; which is which makes no *)
(* difference.                                                             *)
EXTENDS Sessions, TLC

Symmetry == Permutations(Devices) \cup Permutations(Slots)
=============================================================================
