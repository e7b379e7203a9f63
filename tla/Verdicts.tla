------------------------------ MODULE Verdicts ------------------------------
(***************************************************************************)
(* The stored verdict of one organization on one notice while everything   *)
(* it was reached from goes on moving: the portal's fields, what the model *)
(* read in the notice, the profile, the rule set, a teammate's answers,    *)
(* the exchange rates and the clock (app/modules/matching/service.py and   *)
(* scoring.py, app/modules/rules, app/jobs/tasks/maintenance.py).          *)
(*                                                                         *)
(* What the rules say is computed with the operators of RulesEngine.  A    *)
(* run that scores is one step here, and stores the verdict alone: module  *)
(* MatchPipeline takes it apart, and Explanations has what else it stores. *)
(* Time is counted in days.                                                *)
(***************************************************************************)
EXTENDS RulesEngine

CONSTANTS
    None,
    RuleSets,       \* the rule sets the organization may save
    Contents,       \* what the portal may say: [value, deadline]
    Readings,       \* what the model may read: [min_annual_turnover, estimated_value, sure]
    Profiles,       \* what the profile may say: functions on some of its fields
    Currency,       \* the currency of the notice
    Rates,          \* the exchange rates there may be
    MaxTime,        \* bound: days that pass
    MaxChanges      \* bound: changes of what the verdict is reached from

ASSUME VerdictsAssumption ==
    /\ \A rules \in RuleSets : IsRuleSet(rules)
    /\ \A p \in Profiles : \A f \in DOMAIN p : p[f].kind # "range"
    /\ MaxTime \in Nat /\ MaxChanges \in Nat

VARIABLES
    rules,       \* the rule set in force
    content,     \* tenders: [value, deadline], either may be None
    open,        \* tenders.status is OPEN
    extraction,  \* None, or what the model read
    profile,
    rates,       \* fx_rates: the currencies that have one
    answers,     \* rule_overrides for this notice: a verdict for some rule ids
    now,
    match,       \* None, or [verdict, print]: what was stored, and its fingerprint
    \* bounds and history (no code reads these)
    changes,
    seen         \* the rates, answers and time of the last scoring

inputs == <<rules, content, extraction, profile>>
vars == <<rules, content, open, extraction, profile, rates, answers, now, match, changes,
          seen>>

Opt(S) == S \cup {None}

Known(record, fields) == {f \in fields : record[f] # None}

(* The notice as the rules engine sees it at time t, from the portal's      *)
(* fields c and the extraction e.                                          *)
NoticeOf(c, e, t) ==
    [currency |-> Currency,
     portal |->
        [f \in (IF c.value # None THEN {"estimated_value"} ELSE {}) \cup
               (IF c.deadline # None THEN {"deadline_at"} ELSE {}) |->
            IF f = "deadline_at" THEN Moment(c.deadline - t)
            ELSE Money(c.value, Currency)],
     extracted |->
        IF e = None THEN << >>
        ELSE [f \in Known(e, {"min_annual_turnover", "estimated_value"}) |->
                Money(e[f], NoCurrency)],
     confidence |->
        IF e = None THEN << >>
        ELSE [f \in {"min_annual_turnover", "estimated_value"} |-> e.sure]]

Notice == NoticeOf(content, extraction, now)

(* evaluate_for_tender, on what is stored now. *)
CurrentVerdict == Verdict(rules, Notice, profile, rates, answers)

Statuses == {"eligible", "needs_verification", "ineligible"}

(* Fault: the fingerprint leaves out what the model read. *)
FingerprintWithoutExtraction == <<profile, rules, None, content>>

(* inputs_fingerprint.  Versions and ids are told apart by what they name. *)
Fingerprint == <<profile, rules, extraction, content>>

TypeOK ==
    /\ rules \in RuleSets /\ content \in Contents /\ open \in BOOLEAN
    /\ extraction \in Opt(Readings) /\ profile \in Profiles /\ rates \in Rates
    /\ DOMAIN answers \subseteq {r.id : r \in UNION RuleSets}
    /\ \A id \in DOMAIN answers : answers[id] \in {"pass", "fail"}
    /\ now \in 0..MaxTime /\ changes \in 0..MaxChanges
    /\ match # None => match.verdict \in Statuses
    /\ CurrentVerdict \in Statuses

(* The portal publishes a notice, and its first run has not come yet.      *)
Init ==
    /\ rules \in RuleSets /\ profile \in Profiles /\ rates \in Rates
    /\ content \in Contents
    /\ open = TRUE /\ extraction = None /\ answers = << >> /\ now = 0 /\ match = None
    /\ changes = 0 /\ seen = None

-----------------------------------------------------------------------------
(* What a verdict is reached from.                                         *)

Change == changes < MaxChanges /\ changes' = changes + 1

(* save_current and activate: another rule set in force. *)
SaveRules ==
    /\ Change
    /\ rules' \in RuleSets \ {rules}
    /\ UNCHANGED <<content, open, extraction, profile, rates, answers, now, match, seen>>

(* upsert_tender: the portal's listing has moved, and says the notice is open. *)
Amend ==
    /\ Change
    /\ content' \in Contents \ {content}
    /\ open' = TRUE
    /\ UNCHANGED <<rules, extraction, profile, rates, answers, now, match, seen>>

EditProfile ==
    /\ Change
    /\ profile' \in Profiles \ {profile}
    /\ UNCHANGED <<rules, content, open, extraction, rates, answers, now, match, seen>>

(* refresh_fx_rates: a currency keeps its last rate, whatever a run brings. *)
RefreshRates ==
    /\ Change
    /\ rates' \in Rates \ {rates}
    /\ DOMAIN rates \subseteq DOMAIN rates'
    /\ UNCHANGED <<rules, content, open, extraction, profile, answers, now, match, seen>>

(* A teammate rules on a rule of this notice.                              *)
Ruled(id, answer) ==
    /\ Change
    /\ answers' = [i \in DOMAIN answers \cup {id} |-> IF i = id THEN answer ELSE answers[i]]
    /\ UNCHANGED <<rules, content, open, extraction, profile, rates, now, match, seen>>

Tick ==
    /\ now < MaxTime
    /\ now' = now + 1
    /\ UNCHANGED <<rules, content, open, extraction, profile, rates, answers, match, changes,
                   seen>>

-----------------------------------------------------------------------------
(* Runs and sweeps.                                                        *)

(* match_tender_for_org: with a fingerprint that has not moved the verdict *)
(* stays, and the rates, the answers and the clock are not looked at;      *)
(* otherwise, or by force, it is reached again.                            *)
Score ==
    /\ match' = [verdict |-> CurrentVerdict, print |-> Fingerprint]
    /\ seen' = [rates |-> rates, answers |-> answers, now |-> now]

Skips(force) == match # None /\ match.print = Fingerprint /\ ~force

(* rematch_org, on a notice of the open pool. *)
Rematch(force) ==
    /\ open
    /\ content.deadline # None => content.deadline > now
    /\ IF Skips(force) THEN UNCHANGED <<match, seen>> ELSE Score
    /\ UNCHANGED <<inputs, open, rates, answers, now, changes>>

(* process_tender up to the commit of what the model read; an attempt that *)
(* is not needed, or fails, leaves the extraction there was.               *)
Extract ==
    /\ Change
    /\ extraction' \in Readings \ {extraction}
    /\ UNCHANGED <<rules, content, open, profile, rates, answers, now, match, seen>>

(* ... and the match: every organization's, whatever became of the notice. *)
ProcessTender ==
    /\ IF Skips(FALSE) THEN UNCHANGED <<match, seen>> ELSE Score
    /\ UNCHANGED <<inputs, open, rates, answers, now, changes>>

(* close_expired_tenders. *)
CloseExpired ==
    /\ open /\ content.deadline # None /\ content.deadline < now
    /\ open' = FALSE
    /\ UNCHANGED <<inputs, rates, answers, now, match, changes, seen>>

Next ==
    \/ SaveRules \/ Amend \/ EditProfile \/ RefreshRates \/ Extract
    \/ \E r \in rules, answer \in {"pass", "fail"} : Ruled(r.id, answer)
    \/ Tick
    \/ \E force \in BOOLEAN : Rematch(force)
    \/ ProcessTender
    \/ CloseExpired

Spec == Init /\ [][Next]_vars

-----------------------------------------------------------------------------
(* Properties.                                                             *)

(* A hard rule that the notice itself answers with no: in a field of the   *)
(* portal, or in one the model read and was sure of.                       *)
SaysNo(r) ==
    /\ Outcome(r, Notice, profile, rates) = "no"
    /\ r.attribute \in DOMAIN Notice.portal \/ Confidence(Notice, r.attribute) # "low"

(* The exception: the catalogue calls the value of a contract a field of   *)
(* the portal, so the floor is not applied to one the model read.          *)
GuessedValue(r) ==
    /\ r.attribute = "estimated_value" /\ content.value = None
    /\ Outcome(r, Notice, profile, rates) = "no"

(* A notice is never rejected because something could not be read, or was  *)
(* read with low confidence: one of the hard rules has got a no, or its    *)
(* author, or a teammate, asked for the rejection (engine.py:1-8,          *)
(* engine.py:379-395).                                                     *)
NeverRejectedUnread ==
    CurrentVerdict = "ineligible" =>
        \E r \in Active(rules) :
            /\ r.severity = "hard"
            /\ \/ SaysNo(r) \/ GuessedValue(r)
               \/ r.on_missing = "fail"
               \/ r.id \in DOMAIN answers /\ answers[r.id] = "fail"

Extends(f, g) == DOMAIN f \subseteq DOMAIN g /\ \A x \in DOMAIN f : f[x] = g[x]

(* A step that brings what was not known, and takes back nothing.          *)
Learns ==
    /\ rules' = rules /\ now' = now
    /\ Extends(profile, profile') /\ Extends(rates, rates')
    /\ Extends(Notice.portal, Notice'.portal)
    /\ Extends(Notice.extracted, Notice'.extracted)
    /\ (DOMAIN Notice'.portal \ DOMAIN Notice.portal) \cap DOMAIN Notice.extracted = {}
    /\ extraction # None => extraction.sure \in {"low", extraction'.sure}

(* The exception: with a bound that cannot be converted, the other one     *)
(* decides alone, and the yes does not outlive the rate (engine.py:230-237). *)
HalfARange(r) ==
    /\ r.operator = "between" /\ r.value.kind = "range"
    /\ Outcome(r, Notice, profile, rates) = "yes"
    /\ LET v == TenderValue(Notice, r.attribute)
       IN  \E bound \in {r.value.min, r.value.max} : Pair(v, bound, rates) = {}

(* Learning a rate, a field of the profile or of the notice may decide a   *)
(* rule, and never turns round what the engine had decided: what is not    *)
(* known is never guessed (engine.py:41-47, engine.py:153-159).            *)
LearningNeverFlips ==
    [][Learns =>
        \A r \in Active(rules) :
            \/ Outcome(r, Notice, profile, rates) = "undecided"
            \/ Outcome(r, Notice, profile, rates)' = Outcome(r, Notice, profile, rates)
            \/ HalfARange(r)]_vars

(* What a verdict depends on and the fingerprint does not.                 *)
OutsideTheFingerprint ==
    \/ seen.rates # rates
    \/ seen.answers # answers
    \/ seen.now # now /\ \E r \in Active(rules) : r.attribute = "deadline_at"

(* "If this is unchanged the match cannot have changed" (scoring.py:217):  *)
(* a stored verdict whose fingerprint matches is what the rules say now,   *)
(* unless a rate, an answer or a deadline rule has moved since.            *)
VerdictIsCurrent ==
    match # None /\ match.print = Fingerprint =>
        match.verdict = CurrentVerdict \/ OutsideTheFingerprint

=============================================================================
