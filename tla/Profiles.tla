------------------------------ MODULE Profiles ------------------------------
(***************************************************************************)
(* The profile of one organization (app/modules/profiles): the row with    *)
(* its version and completeness, the services, projects and certifications *)
(* under it, edits that overlap, the re-match an edit asks for             *)
(* (schedule_rematch) and the limit on asking for one by hand.             *)
(*                                                                         *)
(* A column or a child row has a value; what the values are, no property   *)
(* looks at.  The row of a certification is named by its code.  What a     *)
(* re-match does with what it reads is module MatchPipeline's.             *)
(***************************************************************************)
EXTENDS Requests, RateLimits

CONSTANTS
    Columns,   \* the sections that are columns of the profile
    RowIds,    \* rows there may be under the profile
    SectionOf, \* the section of each
    Values     \* what a column or a row may say

Weight ==
    [overview |-> 25, services |-> 25, sectors |-> 15, past_projects |-> 15,
     turnover |-> 10, certifications |-> 10]

Opinions == Values \cup {None}

Edits == {"put", "add", "update", "delete"}

Answers == {"queued", "refused", "unreachable"}

ProfileRows ==
    [version : Nat \ {0}, completeness : 0..100, columns : [Columns -> Opinions]]

(* What a request on the profile has read of it, and how far it is; and    *)
(* one for a re-match by hand.                                             *)
EditRequests ==
    [op : Edits \cup {"read"}, target : Columns \cup RowIds \cup {None}, value : Opinions,
     loaded : ProfileRows \cup {None}, found : Opinions,
     step : {"creating", "loaded", "flushed", "touched", "scheduled"},
     locks : BOOLEAN, completeness : 0..100, asked : Answers \cup {None}]

ManualRequests == [op : {"rematch"}, hit : Nat]

ASSUME ProfilesAssumption ==
    /\ SectionOf \in [RowIds -> {"services", "past_projects", "certifications"}]
    /\ Columns \subseteq {"overview", "sectors", "turnover"}
    /\ None \notin Values \cup Answers \cup ProfileRows \cup EditRequests \cup ManualRequests

VARIABLES
    profile,   \* None, or [version, completeness, columns]
    rows,      \* the child rows there are, and what they say
    arq,       \* the job "rematch:<org>": "none", "queued", "running" or "kept" (a result)
    \* history (no code reads these)
    told,      \* what the profile has said under each version
    unread,    \* an edit was committed since a re-match last read the profile
    unasked    \* why no re-match was asked for since

stored == <<profile, rows>>
history == <<told, unread, unasked>>
profileVars == <<stored, arq, history, limits, requests>>

Fresh == [version |-> 1, completeness |-> 0, columns |-> [c \in Columns |-> None]]

Complete(columns, children) ==
    {c \in Columns : columns[c] # None} \cup {SectionOf[i] : i \in DOMAIN children}

(* completeness. *)
Points(section, complete) == IF section \in complete THEN Weight[section] ELSE 0

Completeness(columns, children) ==
    LET complete == Complete(columns, children)
    IN  Points("overview", complete) + Points("services", complete)
        + Points("sectors", complete) + Points("past_projects", complete)
        + Points("turnover", complete) + Points("certifications", complete)

ProfilesTypeOK ==
    /\ profile \in ProfileRows \cup {None}
    /\ DOMAIN rows \subseteq RowIds /\ \A i \in DOMAIN rows : rows[i] \in Values
    /\ profile = None => rows = << >>
    /\ arq \in {"none", "queued", "running", "kept"}
    /\ unread \in BOOLEAN
    /\ unasked \subseteq {"child", "refused", "unreachable", "overtaken"}
    /\ hits \in 0..MaxRequests /\ timed \in BOOLEAN /\ untimed \in BOOLEAN

ProfilesInit ==
    /\ profile = None /\ rows = << >> /\ arq = "none"
    /\ told = {} /\ unread = FALSE /\ unasked = {}
    /\ LimitsInit /\ RequestsInit

-----------------------------------------------------------------------------
(* Requests on the profile.                                                *)

OnProfile == {s \in InFlight : req[s].op # "rematch"}

At(s, step) == s \in OnProfile /\ req[s].step = step

IsCertification(i) == SectionOf[i] = "certifications"

(* A service or a project is a new row each time, with an id of its own.   *)
IsNew(i) == i \notin DOMAIN rows /\ \A s \in OnProfile : req[s].op = "add" => req[s].target # i

(* What a request may ask: a column and its value, or a child row and its; *)
(* a row that is not there is "not found".                                 *)
Asks(op, target, value) ==
    \/ (op = "read" /\ target = None /\ value = None)
    \/ (op = "put" /\ target \in Columns)
    \/ (op = "add" /\ target \in RowIds /\ value # None
          /\ (IsCertification(target) \/ IsNew(target)))
    \/ (op = "update" /\ target \in DOMAIN rows /\ value # None /\ ~IsCertification(target))
    \/ (op = "delete" /\ target \in DOMAIN rows /\ value = None)

(* get_or_create_profile, and the row the request names.  A read of a      *)
(* profile there is changes nothing, and is left out.                      *)
Begin(s, op, target, value) ==
    /\ Asks(op, target, value)
    /\ op = "read" => profile = None
    /\ Reads(s, [op |-> op, target |-> target, value |-> value, loaded |-> profile,
                 found |-> IF target \in DOMAIN rows THEN rows[target] ELSE None,
                 step |-> IF profile = None THEN "creating" ELSE "loaded",
                 locks |-> FALSE, completeness |-> 0, asked |-> None])
    /\ UNCHANGED <<stored, arq, history, limits>>

(* The INSERT of a first profile, which waits for another one that has     *)
(* been made and is not committed, and fails when it is.                   *)
Create(s) ==
    /\ At(s, "creating") /\ profile = None
    /\ \A t \in OnProfile : req[t].step = "creating"
    /\ ReadsOn(s, [req[s] EXCEPT !.loaded = Fresh, !.step = "loaded"])
    /\ UNCHANGED <<stored, arq, history, limits>>

CreateCollides(s) ==
    /\ At(s, "creating") /\ profile # None
    /\ Fails(s)
    /\ UNCHANGED <<stored, arq, history, limits>>

-----------------------------------------------------------------------------
(* The unit of work.                                                       *)

(* The request changes a value it has loaded: only then is there a         *)
(* statement.                                                              *)
ChangesValue(r) ==
    CASE r.op = "put" -> r.value # r.loaded.columns[r.target]
      [] r.op \in {"add", "update", "delete"} -> r.value # r.found
      [] OTHER -> FALSE

WritesRow(r) == r.op \in Edits \ {"put"} /\ ChangesValue(r)

(* Fault: a row that is deleted stays as an empty one. *)
WithEmptyRow(r, children) ==
    [i \in DOMAIN children \cup (IF WritesRow(r) THEN {r.target} ELSE {}) |->
        IF WritesRow(r) /\ i = r.target THEN r.value ELSE children[i]]

(* The child rows with what the request does to them.                      *)
WithRow(r, children) ==
    [i \in (DOMAIN children \cup (IF WritesRow(r) THEN {r.target} ELSE {}))
           \ (IF r.op = "delete" THEN {r.target} ELSE {}) |->
        IF WritesRow(r) /\ i = r.target THEN r.value ELSE children[i]]

WithColumn(r, columns) ==
    IF r.op = "put" /\ ChangesValue(r) THEN [columns EXCEPT ![r.target] = r.value] ELSE columns

(* The row of a child is locked by who has written it, that of the profile *)
(* by who has written to it.                                               *)
RowIsFree(s) ==
    \A t \in OnProfile \ {s} :
        req[t].step \in {"flushed", "touched", "scheduled"} /\ WritesRow(req[t]) =>
            req[t].target # req[s].target

ProfileIsFree(s) == \A t \in OnProfile \ {s} : ~req[t].locks

(* A code that is there by now, or a row that is gone: a unique constraint *)
(* or a stale row.  A row that is gone need not be deleted.                *)
Breaks(r) ==
    /\ WritesRow(r)
    /\ \/ r.found = None /\ r.target \in DOMAIN rows
       \/ r.found # None /\ r.op # "delete" /\ r.target \notin DOMAIN rows

(* Fault: the children are loaded before the edit is flushed. *)
ChildrenBefore(r) == rows

(* touch_profile: load_children flushes the edit and reads the rows ...    *)
ChildrenOf(r) == WithRow(r, rows)

Flush(s) ==
    /\ At(s, "loaded") /\ req[s].op \in Edits
    /\ WritesRow(req[s]) => RowIsFree(s)
    /\ req[s].op = "put" /\ ChangesValue(req[s]) => ProfileIsFree(s)
    /\ IF Breaks(req[s])
       THEN Fails(s)
       ELSE ReadsOn(s, [req[s] EXCEPT
                !.completeness = Completeness(WithColumn(req[s], req[s].loaded.columns),
                                              ChildrenOf(req[s])),
                !.locks = (req[s].op = "put" /\ ChangesValue(req[s])),
                !.step = "flushed"])
    /\ UNCHANGED <<stored, arq, history, limits>>

(* ... and completeness and version are written.                           *)
Touch(s) ==
    /\ At(s, "flushed")
    /\ ProfileIsFree(s)
    /\ ReadsOn(s, [req[s] EXCEPT !.locks = TRUE, !.step = "touched"])
    /\ UNCHANGED <<stored, arq, history, limits>>

(* Fault: a profile that is as complete as before need not be matched.     *)
SchedulesIfCompleteness(r) == r.op = "put" /\ r.completeness # r.loaded.completeness

(* update_profile is the one handler that schedules a re-match.            *)
Schedules(r) == r.op = "put"

(* schedule_rematch: enqueue_job refuses while a job of this id is queued  *)
(* (the debounce), runs, or has left a result that is kept; Redis may not  *)
(* answer.                                                                 *)
ScheduleRematch(asked) ==
    \/ asked = "queued" /\ arq \in {"none", "queued"} /\ arq' = "queued"
    \/ asked = "refused" /\ arq \in {"running", "kept"} /\ UNCHANGED arq
    \/ asked = "unreachable" /\ UNCHANGED arq

(* The handler does so before the commit, and answers alike.               *)
Schedule(s) ==
    /\ At(s, "touched") /\ Schedules(req[s])
    /\ \E asked \in Answers :
          /\ ScheduleRematch(asked)
          /\ ReadsOn(s, [req[s] EXCEPT !.step = "scheduled", !.asked = asked])
    /\ UNCHANGED <<stored, history, limits>>

(* Fault: a certification that is replaced does not touch the profile. *)
NextVersionUnlessReplaced(r) ==
    r.loaded.version + (IF r.op = "add" /\ r.found # None THEN 0 ELSE 1)

NextVersion(r) == r.loaded.version + 1

(* What the request leaves of the profile: each UPDATE carries the columns *)
(* whose value differs from the one loaded.                                *)
WrittenProfile(r) ==
    LET current == IF profile = None THEN Fresh ELSE profile
    IN  IF r.op \notin Edits THEN current ELSE
        [version |-> NextVersion(r),
         completeness |-> Column(r.completeness, r.loaded.completeness, current.completeness),
         columns |-> WithColumn(r, current.columns)]

(* Why the edit is not sure to be read by a re-match. *)
Unasked(r) ==
    IF r.op # "put" THEN {"child"}
    ELSE ({r.asked} \cap {"refused", "unreachable"})
         \cup (IF r.asked = "queued" /\ arq # "queued" THEN {"overtaken"} ELSE {})

Done(r) ==
    \/ r.op = "read" /\ r.step = "loaded"
    \/ r.step = "touched" /\ ~Schedules(r)
    \/ r.step = "scheduled"

Commit(s) ==
    /\ s \in OnProfile /\ Done(req[s])
    /\ profile' = WrittenProfile(req[s])
    /\ rows' = WithRow(req[s], rows)
    /\ told' = told \cup {<<profile'.version, profile'.columns, rows'>>}
    /\ IF req[s].op \in Edits
       THEN unread' = TRUE /\ unasked' = unasked \cup Unasked(req[s])
       ELSE UNCHANGED <<unread, unasked>>
    /\ Commits(s)
    /\ UNCHANGED <<arq, limits>>

-----------------------------------------------------------------------------
(* The re-match, and asking for one by hand.                               *)

(* rematch_org reads the profile first. *)
StartRematch ==
    /\ arq = "queued"
    /\ arq' = "running"
    /\ unread' = FALSE /\ unasked' = {}
    /\ UNCHANGED <<stored, told, limits, requests>>

FinishRematch ==
    /\ arq = "running"
    /\ arq' = "kept"
    /\ UNCHANGED <<stored, history, limits, requests>>

ExpireResult ==
    /\ arq = "kept"
    /\ arq' = "none"
    /\ UNCHANGED <<stored, history, limits, requests>>

(* trigger_rematch: the request is counted ... *)
TriggerRematch(s) ==
    /\ Reads(s, [op |-> "rematch", hit |-> hits + 1])
    /\ Hit
    /\ UNCHANGED <<stored, arq, history>>

(* ... opens the window when it is the first in it, and is refused (429)   *)
(* or schedules the re-match.                                              *)
AnswerRematch(s) ==
    /\ req[s] # None /\ req[s].op = "rematch"
    /\ Expires(req[s].hit) \/ NeverExpires(req[s].hit)
    /\ IF Exceeds(req[s].hit)
       THEN UNCHANGED arq
       ELSE \E asked \in Answers : ScheduleRematch(asked)
    /\ Ends(s)
    /\ UNCHANGED <<stored, history>>

NextWindow ==
    /\ WindowCloses
    /\ UNCHANGED <<stored, arq, history, requests>>

ProfilesNext ==
    \/ \E s \in Slots :
        \/ \E op \in Edits \cup {"read"}, target \in Columns \cup RowIds \cup {None},
              value \in Opinions : Begin(s, op, target, value)
        \/ Create(s) \/ CreateCollides(s)
        \/ Flush(s) \/ Touch(s) \/ Schedule(s) \/ Commit(s)
        \/ TriggerRematch(s) \/ AnswerRematch(s)
    \/ StartRematch \/ FinishRematch \/ ExpireResult \/ NextWindow

ProfilesSpec == ProfilesInit /\ [][ProfilesNext]_profileVars

-----------------------------------------------------------------------------
(* "The version is what a stored match records, so bumping it is precisely *)
(* what tells the matcher ``your inputs moved''" (profiles/service.py:3):  *)
(* the profile never says two things under one version.  The exception: an *)
(* edit that was committed over another one, for both write the version    *)
(* they loaded plus one.                                                   *)
VersionsTellApart ==
    crossed \cap Edits = {} =>
        \A a, b \in told : a[1] = b[1] => a = b

(* The stored completeness is that of what the profile says, whatever      *)
(* edits and creations came in which order and failed; two that overlap    *)
(* each leave the other's rows out (profiles/service.py:179-189).          *)
CompletenessFits ==
    profile # None /\ crossed \cap Edits = {} =>
        profile.completeness = Completeness(profile.columns, rows)

(* Edits add up: the row stands for what the profile says by its version   *)
(* and its completeness (profiles/service.py:187-197).                     *)
EditsAddUp == VersionsTellApart /\ CompletenessFits

(* "Every write schedules a re-match" (profiles/router.py:4): an edit no   *)
(* re-match has read is followed by one.  The exceptions: edits of the     *)
(* rows under the profile, whose handlers schedule none; an edit whose     *)
(* request was refused because the last one runs or has left a result, or  *)
(* did not reach Redis; and one the re-match it relied on has overtaken.   *)
EditsAreFollowed == unread => arq = "queued" \/ unasked # {}

(* "The worst case of denying is an outage" (core/rate_limit.py:16): a     *)
(* counter that stands is going to be dropped, unless the second command   *)
(* was lost, or is still to come.                                          *)
LimitLifts ==
    \/ hits = 0 \/ timed \/ untimed
    \/ \E s \in InFlight : req[s].op = "rematch" /\ req[s].hit = 1
=============================================================================
