----------------------------- MODULE Decisions -----------------------------
(***************************************************************************)
(* The bid decisions of one organization on one notice                     *)
(* (app/modules/decisions/service.py): superseded, never overwritten.      *)
(* The first statement of a request is an UPDATE: it sees the current row  *)
(* of its snapshot, waits for whoever holds it, and looks again.           *)
(***************************************************************************)
EXTENDS Requests

CONSTANT Outcomes  \* bid, hold, skip

(* What a request has read of the trail, and demoted. *)
Rulings == [op : {"record", "clear"}, decision : Outcomes \cup {None},
            seen : SUBSET Nat, demoted : (SUBSET Nat) \cup {None}]

ASSUME DecisionsAssumption == None \notin Rulings

VARIABLES
    trail,     \* tender_decisions, in the order they are committed: [decision, current]
    lastWord   \* history: what the last request that was answered asked for, or None

decisions == <<trail, lastWord>>

TrailRows == 1..Len(trail)

Current == {i \in TrailRows : trail[i].current}

DecisionsTypeOK ==
    /\ trail \in Seq([decision : Outcomes, current : BOOLEAN])
    /\ lastWord \in Outcomes \cup {None}

DecisionsInit == trail = << >> /\ lastWord = None

IsDecision(s) == req[s] # None /\ req[s].op \in {"record", "clear"}

(* Rows a request holds: it has demoted them, and has not ended.           *)
HeldRows == UNION {req[s].demoted : s \in {t \in Slots : IsDecision(t) /\ req[t].demoted # None}}

(* record and clear: the UPDATE starts. *)
DecideRead(s, by, op, decision) ==
    /\ op = "clear" <=> decision = None
    /\ Reads(s, [op |-> op, decision |-> decision, seen |-> Current,
                 demoted |-> None])
    /\ UNCHANGED decisions

(* ... ends, with the rows that still are current when nobody holds them.  *)
Demote(s) ==
    /\ IsDecision(s) /\ req[s].demoted = None
    /\ req[s].seen \cap HeldRows = {}
    /\ ReadsOn(s, [req[s] EXCEPT !.demoted = req[s].seen \cap Current])
    /\ UNCHANGED decisions

(* Fault: what was current stays so. *)
KeptAsTheyWere(s) == trail

Superseded(s) ==
    [i \in TrailRows |-> [trail[i] EXCEPT !.current = @ /\ i \notin req[s].demoted]]

(* The INSERT and the commit; one row at most may be current.              *)
RecordWrite(s) ==
    /\ IsDecision(s) /\ req[s].op = "record" /\ req[s].demoted # None
    /\ IF Current \subseteq req[s].demoted
       THEN /\ trail' = Append(Superseded(s), [decision |-> req[s].decision, current |-> TRUE])
            /\ lastWord' = req[s].decision
            /\ Commits(s)
       ELSE Fails(s) /\ UNCHANGED decisions

ClearWrite(s) ==
    /\ IsDecision(s) /\ req[s].op = "clear" /\ req[s].demoted # None
    /\ trail' = Superseded(s)
    /\ lastWord' = None
    /\ Commits(s)

-----------------------------------------------------------------------------
(* The current decision, which reminders follow, is what the last request  *)
(* that was answered asked for (decisions/service.py:39-95).  The          *)
(* exception: a withdrawal that waited for, or did not see, a decision     *)
(* committed before it finds nothing to withdraw.                          *)
LastWordStands ==
    \/ {trail[i].decision : i \in Current} = (IF lastWord = None THEN {} ELSE {lastWord})
    \/ "clear" \in crossed
=============================================================================
