----------------------------- MODULE Workspace -----------------------------
(***************************************************************************)
(* What the people of one organization share: its members and invitations, *)
(* its rule set, its decision on one notice.  Requests about any of them   *)
(* overlap, and the right to make one is read from the membership when the *)
(* request begins (app/core/deps.py, get_current_org and                   *)
(* require_org_admin).                                                     *)
(***************************************************************************)
EXTENDS Members, RuleSetVersions, Decisions

vars == <<requests, organization, ruleSet, decisions>>

TypeOK ==
    /\ MembersTypeOK /\ VersionsTypeOK /\ DecisionsTypeOK
    /\ begun \in 0..MaxRequests
    /\ raced \subseteq InFlight /\ crossed \cup failed \subseteq
         {"update", "remove", "invite", "resend", "revoke", "accept",
          "open", "save", "activate", "record", "clear"}

Init == RequestsInit /\ MembersInit /\ VersionsInit /\ DecisionsInit

Membership == MembersNext /\ UNCHANGED <<ruleSet, decisions>>

(* app/modules/rules/router.py: a member may look, an admin may change.    *)
Rules ==
    /\ \/ \E s \in Slots, by \in Users :
            \/ IsMember(by) /\ OpenRead(s, by)
            \/ /\ IsAdmin(by)
               /\ \/ \E definition \in Definitions : SaveRead(s, by, definition)
                  \/ \E number \in 1..MaxRequests : ActivateRead(s, by, number)
       \/ \E s \in InFlight : OpenWrite(s) \/ SaveWrite(s) \/ ActivateWrite(s)
    /\ UNCHANGED <<organization, decisions>>

(* app/modules/decisions/router.py: any member. *)
Deciding ==
    /\ \/ \E s \in Slots, by \in Users :
            /\ IsMember(by)
            /\ \/ \E outcome \in Outcomes : DecideRead(s, by, "record", outcome)
               \/ DecideRead(s, by, "clear", None)
       \/ \E s \in InFlight : Demote(s) \/ RecordWrite(s) \/ ClearWrite(s)
    /\ UNCHANGED <<organization, ruleSet>>

Next == Membership \/ Rules \/ Deciding

Spec == Init /\ [][Next]_vars

-----------------------------------------------------------------------------
(* What is in force is what the last request that was answered asked for:  *)
(* RulesAsAsked of the rule set, LastWordStands of the decision.           *)
AnswersStand == RulesAsAsked /\ LastWordStands
=============================================================================
