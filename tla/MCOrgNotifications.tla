-------------------------- MODULE MCOrgNotifications --------------------------
(* Constants of OrgNotifications that a .cfg cannot write. *)
EXTENDS OrgNotifications, TLC

(* "Everything" (the empty list) and a list that leaves the alerts out. *)
McSubscriptions == {{}, {"deadline_reminder"}}

(* Jobs are interchangeable, and so are row ids; no property tells them     *)
(* apart.                                                                  *)
McSymmetry == Permutations(Jobs) \cup Permutations(Rows)
=============================================================================
