----------------------------- MODULE MCProfiles -----------------------------
(* A column, a service and a certification.                                *)
EXTENDS Profiles, TLC

Sections == [service |-> "services", iso |-> "certifications"]

Symmetry == Permutations(Slots) \cup Permutations(Values)
=============================================================================
