--------------------------- MODULE VerdictsProofs ---------------------------
(***************************************************************************)
(* Theorems about module Verdicts, for every rule set, profile, reading    *)
(* and rate: a stored verdict is the rules' on the inputs its fingerprint  *)
(* names and on the rates, answers and time it was reached at; so it is    *)
(* current while none of these has moved.  What the rules say of one       *)
(* notice is a matter of constants alone, and is proved as lemmas first.   *)
(***************************************************************************)
EXTENDS Verdicts, TLAPS

-----------------------------------------------------------------------------
(* The operators of the rules engine.                                      *)

Outcomes == {"yes", "no", "undecided"}

LEMMA TypeOfType ==
    ASSUME NEW a \in Attributes
    PROVE  /\ TypeOf[a] \in {"money", "integer", "list", "enum", "boolean", "text", "datetime"}
           /\ TypeOf[a] \in {"list", "enum"} =>
                Operators[TypeOf[a]] \subseteq {"in", "not_in", "intersects", "subset_of"}
<1>1. TypeOf[a] \in {"money", "integer", "list", "enum", "boolean", "text", "datetime"}
  BY DEF Attributes, TypeOf
<1>2. /\ Operators["list"] = {"in", "not_in", "intersects", "subset_of"}
      /\ Operators["enum"] = {"in", "not_in"}
  BY DEF Operators
<1>3. QED
  BY <1>1, <1>2

LEMMA AnswerType == ASSUME NEW b PROVE Answer(b) \in Outcomes
BY DEF Answer, Outcomes

LEMMA CompareType ==
    ASSUME NEW r, IsRule(r), NEW v, NEW e, NEW fx
    PROVE  Compare(r.operator, TypeOf[r.attribute], v, e, fx) \in Outcomes
<1> DEFINE op == r.operator
           type == TypeOf[r.attribute]
<1>1. /\ type \in {"money", "integer", "list", "enum", "boolean", "text", "datetime"}
      /\ type \in {"list", "enum"} => op \in {"in", "not_in", "intersects", "subset_of"}
  BY TypeOfType DEF IsRule
<1> HIDE DEF op, type
<1>2. CompareAmounts(op, type, v, e, fx) \in Outcomes
  BY AnswerType DEF CompareAmounts, Between, Outcomes
<1>3. type \in {"list", "enum"} => CompareLists(op, v, e) \in Outcomes
  BY <1>1, AnswerType DEF CompareLists, Outcomes
<1>4. CompareFlags(v, e) \in Outcomes /\ CompareTexts(op, v, e) \in Outcomes
  BY AnswerType DEF CompareFlags, CompareTexts, Outcomes
<1>5. CompareMoments(op, v, e) \in Outcomes
  BY AnswerType DEF CompareMoments, Outcomes
<1>6. Compare(op, type, v, e, fx) \in Outcomes
  BY <1>1, <1>2, <1>3, <1>4, <1>5 DEF Compare
<1>7. QED
  BY <1>6 DEF op, type

(* evaluate_rule always comes to one of three outcomes (engine.py:370).    *)
LEMMA OutcomeType ==
    ASSUME NEW r, IsRule(r), NEW notice, NEW p, NEW fx
    PROVE  Outcome(r, notice, p, fx) \in Outcomes
<1>1. Compare(r.operator, TypeOf[r.attribute], TenderValue(notice, r.attribute),
              Expected(r, p), fx) \in Outcomes
  BY CompareType
<1>2. QED
  BY <1>1 DEF Outcome, Outcomes

(* A rule that does not fail by its outcome fails by its on_missing.       *)
LEMMA WhyItFails ==
    ASSUME NEW r, IsRule(r), NEW notice, NEW p, NEW fx,
           RuleStatus(r, notice, p, fx) = "fail"
    PROVE  Outcome(r, notice, p, fx) = "no" \/ r.on_missing = "fail"
<1>1. CASE Outcome(r, notice, p, fx) = "yes"
  BY <1>1 DEF RuleStatus
<1>2. CASE Outcome(r, notice, p, fx) = "undecided"
  <2>1. UnknownStatus(r) = "fail"
    BY <1>2 DEF RuleStatus
  <2>2. r.on_missing \in {"verify", "pass", "fail"}
    BY DEF IsRule
  <2>3. QED
    BY <2>1, <2>2 DEF UnknownStatus
<1>3. QED
  BY <1>1, <1>2, OutcomeType DEF Outcomes

LEMMA StatusType == ASSUME NEW evaluation PROVE Status(evaluation) \in Statuses
BY DEF Status, Statuses

LEMMA VerdictType ==
    ASSUME NEW rs, NEW notice, NEW p, NEW fx, NEW an
    PROVE  Verdict(rs, notice, p, fx, an) \in Statuses
BY StatusType DEF Verdict

-----------------------------------------------------------------------------
(* The notice, and time.                                                   *)

(* Only a rule about the deadline sees the clock (engine.py:310).          *)
LEMMA ClocklessRule ==
    ASSUME NEW r, r.attribute # "deadline_at", NEW c, NEW e, NEW t, NEW u, NEW p, NEW fx
    PROVE  RuleStatus(r, NoticeOf(c, e, t), p, fx) = RuleStatus(r, NoticeOf(c, e, u), p, fx)
<1> DEFINE a == r.attribute
           n(x) == NoticeOf(c, e, x)
<1>1. /\ DOMAIN n(t).portal = DOMAIN n(u).portal
      /\ a \in DOMAIN n(t).portal => n(t).portal[a] = n(u).portal[a]
  BY DEF NoticeOf
<1>2. /\ n(t).extracted = n(u).extracted /\ n(t).confidence = n(u).confidence
      /\ n(t).currency = n(u).currency
  BY DEF NoticeOf
<1> HIDE DEF n
<1>3. TenderValue(n(t), a) = TenderValue(n(u), a)
  BY <1>1, <1>2 DEF TenderValue, InCurrencyOf
<1>4. Confidence(n(t), a) = Confidence(n(u), a)
  BY <1>2 DEF Confidence
<1>5. Outcome(r, n(t), p, fx) = Outcome(r, n(u), p, fx)
  BY <1>3, <1>4 DEF Outcome, Unusable
<1>6. QED
  BY <1>5 DEF RuleStatus, n

LEMMA ClocklessVerdict ==
    ASSUME NEW rs, NEW c, NEW e, NEW t, NEW u, NEW p, NEW fx, NEW an,
           \A r \in Active(rs) : r.attribute # "deadline_at"
    PROVE  Verdict(rs, NoticeOf(c, e, t), p, fx, an) = Verdict(rs, NoticeOf(c, e, u), p, fx, an)
<1>1. \A r \in Active(rs) :
        RuleStatus(r, NoticeOf(c, e, t), p, fx) = RuleStatus(r, NoticeOf(c, e, u), p, fx)
  BY ClocklessRule
<1>2. Evaluate(rs, NoticeOf(c, e, t), p, fx) = Evaluate(rs, NoticeOf(c, e, u), p, fx)
  BY <1>1 DEF Evaluate
<1>3. QED
  BY <1>2 DEF Verdict

-----------------------------------------------------------------------------
(* What is stored.                                                         *)

(* What a run stores is the verdict on what its fingerprint names, with    *)
(* the rates, the answers and the time it was reached at.                  *)
Stored ==
    match # None =>
        match.verdict = Verdict(match.print[2],
                                NoticeOf(match.print[4], match.print[3], seen.now),
                                match.print[1], seen.rates, seen.answers)

IInv == TypeOK /\ Stored

LEMMA InitIInv == ASSUME Init PROVE IInv
<1>1. TypeOK
  <2>1. CurrentVerdict \in Statuses
    BY VerdictType DEF CurrentVerdict
  <2>2. QED
    BY <2>1, VerdictsAssumption DEF Init, TypeOK, Opt
<1>2. QED
  BY <1>1 DEF Init, IInv, Stored

(* A run that scores, and one that skips. *)
LEMMA ScoreStored ==
    ASSUME Stored, Score \/ UNCHANGED <<match, seen>>
    PROVE  Stored' /\ (TypeOK => (match # None => match.verdict \in Statuses)')
<1>1. CASE Score
  <2>1. /\ match'.verdict = Verdict(rules, NoticeOf(content, extraction, now), profile, rates,
                                    answers)
        /\ match'.print = <<profile, rules, extraction, content>>
        /\ seen'.rates = rates /\ seen'.answers = answers /\ seen'.now = now
    BY <1>1 DEF Score, CurrentVerdict, Fingerprint, Notice
  <2>2. QED
    BY <2>1, VerdictType DEF Stored
<1>2. CASE UNCHANGED <<match, seen>>
  BY <1>2 DEF Stored, TypeOK
<1>3. QED
  BY <1>1, <1>2

LEMMA StepIInv == IInv /\ [Next]_vars => IInv'
<1> SUFFICES ASSUME IInv, [Next]_vars PROVE IInv'
  OBVIOUS
<1>1. CurrentVerdict' \in Statuses
  BY VerdictType DEF CurrentVerdict
<1>2. CASE SaveRules
  BY <1>1, <1>2, VerdictsAssumption DEF SaveRules, Change, IInv, TypeOK, Stored
<1>3. CASE Amend
  BY <1>1, <1>3, VerdictsAssumption DEF Amend, Change, IInv, TypeOK, Stored
<1>4. CASE EditProfile
  BY <1>1, <1>4, VerdictsAssumption DEF EditProfile, Change, IInv, TypeOK, Stored
<1>5. CASE RefreshRates
  BY <1>1, <1>5, VerdictsAssumption DEF RefreshRates, Change, IInv, TypeOK, Stored
<1>6. CASE Extract
  BY <1>1, <1>6, VerdictsAssumption DEF Extract, Change, IInv, TypeOK, Stored, Opt
<1>7. ASSUME NEW r \in rules, NEW answer \in {"pass", "fail"}, Ruled(r.id, answer)
      PROVE  IInv'
  <2>1. r.id \in {s.id : s \in UNION RuleSets}
    BY DEF IInv, TypeOK
  <2>2. /\ DOMAIN answers' = DOMAIN answers \cup {r.id}
        /\ \A id \in DOMAIN answers' : answers'[id] \in {"pass", "fail"}
    BY <1>7 DEF Ruled, IInv, TypeOK
  <2>3. QED
    BY <1>1, <1>7, <2>1, <2>2, VerdictsAssumption DEF Ruled, Change, IInv, TypeOK, Stored
<1>8. CASE Tick
  BY <1>1, <1>8, VerdictsAssumption DEF Tick, IInv, TypeOK, Stored
<1>9. CASE ProcessTender \/ \E force \in BOOLEAN : Rematch(force)
  <2>1. /\ Score \/ UNCHANGED <<match, seen>>
        /\ UNCHANGED <<inputs, open, rates, answers, now, changes>>
    BY <1>9 DEF ProcessTender, Rematch
  <2>2. QED
    BY <1>1, <2>1, ScoreStored DEF IInv, TypeOK, inputs
<1>10. CASE CloseExpired
  BY <1>1, <1>10 DEF CloseExpired, inputs, IInv, TypeOK, Stored
<1>11. CASE UNCHANGED vars
  BY <1>1, <1>11 DEF vars, IInv, TypeOK, Stored
<1>12. QED
  BY <1>2, <1>3, <1>4, <1>5, <1>6, <1>7, <1>8, <1>9, <1>10, <1>11 DEF Next

(* A fingerprint that matches names every input but the three.             *)
LEMMA StoredIsCurrent == ASSUME IInv PROVE VerdictIsCurrent
<1> SUFFICES ASSUME match # None, match.print = Fingerprint, ~OutsideTheFingerprint
             PROVE  match.verdict = CurrentVerdict
  BY DEF VerdictIsCurrent
<1>1. match.verdict = Verdict(rules, NoticeOf(content, extraction, seen.now), profile, rates,
                              answers)
  <2>1. /\ match.print[1] = profile /\ match.print[2] = rules
        /\ match.print[3] = extraction /\ match.print[4] = content
    BY DEF Fingerprint
  <2>2. seen.rates = rates /\ seen.answers = answers
    BY DEF OutsideTheFingerprint
  <2>3. QED
    BY <2>1, <2>2 DEF IInv, Stored
<1>2. CASE seen.now = now
  BY <1>1, <1>2 DEF CurrentVerdict, Notice
<1>3. CASE \A r \in Active(rules) : r.attribute # "deadline_at"
  BY <1>1, <1>3, ClocklessVerdict DEF CurrentVerdict, Notice
<1>4. QED
  BY <1>2, <1>3 DEF OutsideTheFingerprint

(* A rejection has a no, or was asked for.                                 *)
LEMMA RejectionHasAReason == ASSUME TypeOK PROVE NeverRejectedUnread
<1> SUFFICES ASSUME CurrentVerdict = "ineligible"
             PROVE  \E r \in Active(rules) :
                        /\ r.severity = "hard"
                        /\ \/ SaysNo(r) \/ GuessedValue(r)
                           \/ r.on_missing = "fail"
                           \/ r.id \in DOMAIN answers /\ answers[r.id] = "fail"
  BY DEF NeverRejectedUnread
<1> DEFINE evaluation == Evaluate(rules, Notice, profile, rates)
           ruled == Overridden(evaluation, answers)
<1>1. PICK r \in Active(rules) : r.severity = "hard" /\ ruled[r] = "fail"
  <2>1. DOMAIN ruled = Active(rules)
    BY DEF Overridden, Evaluate
  <2>2. Status(ruled) = "ineligible"
    BY DEF CurrentVerdict, Verdict
  <2> HIDE DEF ruled
  <2>3. QED
    BY <2>1, <2>2 DEF Status
<1>2. IsRule(r)
  BY <1>1, VerdictsAssumption DEF Active, IsRuleSet, TypeOK
<1>3. \/ r.id \in DOMAIN answers /\ answers[r.id] = "fail"
      \/ RuleStatus(r, Notice, profile, rates) = "fail"
  BY <1>1 DEF Overridden, Evaluate
<1>4. CASE RuleStatus(r, Notice, profile, rates) = "fail" /\ r.on_missing # "fail"
  <2>1. Outcome(r, Notice, profile, rates) = "no"
    BY <1>2, <1>4, WhyItFails
  <2>2. ~Unusable(r, Notice)
    BY <2>1 DEF Outcome
  <2>3. CASE r.attribute \in FromTheModel
    BY <1>1, <2>1, <2>2, <2>3 DEF Unusable, SaysNo
  <2>4. CASE r.attribute \in DOMAIN Notice.portal
    BY <1>1, <2>1, <2>4 DEF SaysNo
  <2>5. CASE r.attribute \notin FromTheModel /\ r.attribute \notin DOMAIN Notice.portal
    <3>1. r.attribute = "estimated_value"
      BY <2>2, <2>5 DEF Unusable, TenderValue, Extractable
    <3>2. content.value = None
      BY <2>5, <3>1 DEF Notice, NoticeOf
    <3>3. QED
      BY <1>1, <2>1, <3>1, <3>2 DEF GuessedValue
  <2>6. QED
    BY <2>3, <2>4, <2>5
<1>5. QED
  BY <1>1, <1>3, <1>4

-----------------------------------------------------------------------------
(* Learning.                                                               *)

(* A pair that can be put on one scale stays on it.                        *)
LEMMA PairStays ==
    ASSUME NEW v, NEW e, NEW fx, NEW gx, Extends(fx, gx), Pair(v, e, fx) # {}
    PROVE  Pair(v, e, gx) = Pair(v, e, fx)
<1>1. CASE v.kind # "money" \/ e.kind # "money"
  BY <1>1 DEF Pair
<1>2. CASE CurrencyOf(v) = CurrencyOf(e)
  BY <1>2 DEF Pair
<1>3. CASE v.kind = "money" /\ e.kind = "money" /\ CurrencyOf(v) # CurrencyOf(e)
  <2>1. Rate(CurrencyOf(v), fx) # 0 /\ Rate(CurrencyOf(e), fx) # 0
    BY <1>3 DEF Pair
  <2>2. /\ Rate(CurrencyOf(v), gx) = Rate(CurrencyOf(v), fx)
        /\ Rate(CurrencyOf(e), gx) = Rate(CurrencyOf(e), fx)
    BY <2>1 DEF Rate, Extends
  <2>3. QED
    BY <2>2 DEF Pair
<1>4. QED
  BY <1>1, <1>2, <1>3

LEMMA ScaledStays ==
    ASSUME NEW type, NEW v, NEW e, NEW fx, NEW gx, Extends(fx, gx), Scaled(type, v, e, fx) # {}
    PROVE  Scaled(type, v, e, gx) = Scaled(type, v, e, fx)
BY PairStays DEF Scaled

(* A no outlives every rate; a yes between two bounds, when both of them   *)
(* were looked at (engine.py:230).                                         *)
LEMMA BetweenStays ==
    ASSUME NEW type, NEW v, NEW e, NEW fx, NEW gx, Extends(fx, gx),
           Between(type, v, e, fx) # "undecided",
           \/ Between(type, v, e, fx) = "no"
           \/ type # "money"
           \/ Pair(v, e.min, fx) # {} /\ Pair(v, e.max, fx) # {}
    PROVE  Between(type, v, e, gx) = Between(type, v, e, fx)
<1> DEFINE low(x) == IF e.kind = "range" THEN Scaled(type, v, e.min, x) ELSE {}
           high(x) == IF e.kind = "range" THEN Scaled(type, v, e.max, x) ELSE {}
<1>1. /\ low(fx) # {} => low(gx) = low(fx)
      /\ high(fx) # {} => high(gx) = high(fx)
  BY ScaledStays
<1>2. CASE Between(type, v, e, fx) = "no"
  <2>1. (\E q \in low(fx) : ~(q[1] >= q[2])) \/ (\E q \in high(fx) : ~(q[1] <= q[2]))
    BY <1>2 DEF Between, Answer
  <2>2. (\E q \in low(gx) : ~(q[1] >= q[2])) \/ (\E q \in high(gx) : ~(q[1] <= q[2]))
    BY <1>1, <2>1
  <2>3. QED
    BY <1>2, <2>2 DEF Between, Answer
<1>3. CASE e.kind # "range"
  BY <1>3 DEF Between
<1>4. CASE type # "money"
  BY <1>4 DEF Between, Scaled
<1>5. CASE e.kind = "range" /\ type = "money" /\ Pair(v, e.min, fx) # {} /\ Pair(v, e.max, fx) # {}
  <2>1. low(gx) = low(fx) /\ high(gx) = high(fx)
    BY <1>1, <1>5 DEF Scaled
  <2>2. QED
    BY <2>1 DEF Between
<1>6. QED
  BY <1>2, <1>3, <1>4, <1>5

LEMMA CompareStays ==
    ASSUME NEW op, NEW type, NEW v, NEW e, NEW fx, NEW gx, Extends(fx, gx),
           type \in {"money", "integer", "list", "enum", "boolean", "text", "datetime"},
           Compare(op, type, v, e, fx) # "undecided",
           ~ /\ op = "between" /\ e.kind = "range" /\ Compare(op, type, v, e, fx) = "yes"
             /\ Pair(v, e.min, fx) = {} \/ Pair(v, e.max, fx) = {}
    PROVE  Compare(op, type, v, e, gx) = Compare(op, type, v, e, fx)
<1>1. CASE type \notin {"money", "integer"}
  BY <1>1 DEF Compare
<1>2. CASE type \in {"money", "integer"}
  <2>1. /\ Compare(op, type, v, e, fx) = CompareAmounts(op, type, v, e, fx)
        /\ Compare(op, type, v, e, gx) = CompareAmounts(op, type, v, e, gx)
    BY <1>2 DEF Compare
  <2>2. CASE op = "between"
    <3>1. CompareAmounts(op, type, v, e, fx) = Between(type, v, e, fx)
          /\ CompareAmounts(op, type, v, e, gx) = Between(type, v, e, gx)
      BY <2>2 DEF CompareAmounts
    <3>2. Between(type, v, e, fx) \in {"yes", "no"}
      BY <2>1, <3>1 DEF Between, Answer
    <3>3. e.kind = "range"
      BY <2>1, <3>1 DEF Between
    <3>4. QED
      BY <2>1, <2>2, <3>1, <3>2, <3>3, BetweenStays
  <2>3. CASE op # "between"
    <3>1. Scaled(type, v, e, fx) # {}
      BY <2>1, <2>3 DEF CompareAmounts
    <3>2. Scaled(type, v, e, gx) = Scaled(type, v, e, fx)
      BY <3>1, ScaledStays
    <3>3. QED
      BY <2>1, <2>3, <3>2 DEF CompareAmounts
  <2>4. QED
    BY <2>2, <2>3
<1>3. QED
  BY <1>1, <1>2

(* What a notice has said of a key, it goes on saying when more is learnt. *)
LEMMA ValueStays ==
    ASSUME NEW n, NEW m, NEW a, n.currency = m.currency,
           Extends(n.portal, m.portal), Extends(n.extracted, m.extracted),
           (DOMAIN m.portal \ DOMAIN n.portal) \cap DOMAIN n.extracted = {},
           TenderValue(n, a) # Unknown
    PROVE  TenderValue(m, a) = TenderValue(n, a)
<1>1. CASE a \in DOMAIN n.portal
  BY <1>1 DEF TenderValue, Extends
<1>2. CASE a \notin DOMAIN n.portal
  <2>1. a \in Extractable \cap DOMAIN n.extracted /\ HasTypeOf(n.extracted[a], a)
    BY <1>2 DEF TenderValue
  <2>2. a \notin DOMAIN m.portal /\ a \in DOMAIN m.extracted /\ m.extracted[a] = n.extracted[a]
    BY <1>2, <2>1 DEF Extends
  <2>3. QED
    BY <1>2, <2>1, <2>2 DEF TenderValue, InCurrencyOf
<1>3. QED
  BY <1>1, <1>2

(* What a rule has decided stays decided.                                  *)
LEMMA LearningStays ==
    ASSUME TypeOK, Learns, NEW r \in Active(rules),
           Outcome(r, Notice, profile, rates) # "undecided", ~HalfARange(r)
    PROVE  Outcome(r, Notice', profile', rates') = Outcome(r, Notice, profile, rates)
<1> DEFINE a == r.attribute
           v == TenderValue(Notice, a)
           e == Expected(r, profile)
<1>1. IsRule(r)
  BY VerdictsAssumption DEF Active, IsRuleSet, TypeOK
<1>2. ~Unusable(r, Notice) /\ v # Unknown /\ e # Unknown
  BY DEF Outcome, Unusable
<1>3. Outcome(r, Notice, profile, rates) = Compare(r.operator, TypeOf[a], v, e, rates)
  BY <1>2 DEF Outcome
<1>4. Expected(r, profile') = e
  BY <1>2 DEF Expected, Learns, Extends
<1>5. TenderValue(Notice', a) = v
  <2>1. Notice.currency = Notice'.currency
    BY DEF Notice, NoticeOf
  <2>2. QED
    BY <1>2, <2>1, ValueStays DEF Learns
<1>6. ~Unusable(r, Notice')
  <2>1. CASE a \notin FromTheModel
    BY <1>2, <1>5, <2>1 DEF Unusable
  <2>2. CASE a \in FromTheModel
    <3>1. Confidence(Notice, a) # "low"
      BY <1>2, <2>2 DEF Unusable
    <3>2. a \notin DOMAIN Notice.portal
      BY <2>2 DEF Notice, NoticeOf, FromTheModel
    <3>3. a \in DOMAIN Notice.extracted
      BY <1>2, <3>2 DEF TenderValue
    <3>4. extraction # None /\ a = "min_annual_turnover"
      BY <2>2, <3>3 DEF Notice, NoticeOf, Known, FromTheModel
    <3>5. Notice.confidence[a] = extraction.sure /\ a \in DOMAIN Notice.confidence
      BY <3>4 DEF Notice, NoticeOf
    <3>6. extraction.sure # "low" /\ extraction'.sure = extraction.sure
      BY <3>1, <3>4, <3>5 DEF Confidence, Learns
    <3>7. a \in DOMAIN Notice'.extracted
      BY <3>3 DEF Learns, Extends
    <3>8. extraction' # None
      BY <3>7 DEF Notice, NoticeOf
    <3>9. Notice'.confidence[a] = extraction'.sure /\ a \in DOMAIN Notice'.confidence
      BY <3>4, <3>8 DEF Notice, NoticeOf
    <3>10. Confidence(Notice', a) # "low"
      BY <3>6, <3>9, <3>4 DEF Confidence
    <3>11. QED
      BY <1>2, <1>5, <3>10 DEF Unusable
  <2>3. QED
    BY <2>1, <2>2
<1>7. Compare(r.operator, TypeOf[a], v, e, rates') = Compare(r.operator, TypeOf[a], v, e, rates)
  <2>1. e.kind = "range" => e = r.value
    BY <1>2, VerdictsAssumption DEF Expected, TypeOK
  <2>2. ~ /\ r.operator = "between" /\ e.kind = "range"
          /\ Compare(r.operator, TypeOf[a], v, e, rates) = "yes"
          /\ Pair(v, e.min, rates) = {} \/ Pair(v, e.max, rates) = {}
    BY <1>3, <2>1 DEF HalfARange
  <2>3. TypeOf[a] \in {"money", "integer", "list", "enum", "boolean", "text", "datetime"}
    BY <1>1, TypeOfType DEF IsRule
  <2>4. Extends(rates, rates')
    BY DEF Learns
  <2>5. Compare(r.operator, TypeOf[a], v, e, rates) # "undecided"
    BY <1>3
  <2> HIDE DEF a, v, e
  <2>6. QED
    BY <2>2, <2>3, <2>4, <2>5, CompareStays
<1>8. QED
  BY <1>2, <1>3, <1>4, <1>5, <1>6, <1>7 DEF Outcome

-----------------------------------------------------------------------------
(* A verdict keeps its inputs, and every variable its type, through edits, *)
(* amendments, extractions, rates, rulings, runs and sweeps.               *)
THEOREM VerdictsInductive == Spec => []IInv
<1>1. Init => IInv
  BY InitIInv
<1>2. IInv /\ [Next]_vars => IInv'
  BY StepIInv
<1>3. QED
  BY <1>1, <1>2, PTL DEF Spec

(* Every variable keeps its type, and a verdict is one of three.           *)
THEOREM VerdictsTypeCorrect == Spec => []TypeOK
<1>1. IInv => TypeOK
  BY DEF IInv
<1>2. QED
  BY <1>1, VerdictsInductive, PTL

(* A stored verdict whose fingerprint matches is what the rules say now,   *)
(* unless a rate, an answer or a deadline rule has moved (scoring.py:217). *)
THEOREM StoredVerdictIsCurrent == Spec => []VerdictIsCurrent
<1>1. IInv => VerdictIsCurrent
  BY StoredIsCurrent
<1>2. QED
  BY <1>1, VerdictsInductive, PTL

(* No notice is rejected for what could not be read (engine.py:1-8).       *)
THEOREM UnreadIsNeverRejected == Spec => []NeverRejectedUnread
<1>1. IInv => NeverRejectedUnread
  BY RejectionHasAReason DEF IInv
<1>2. QED
  BY <1>1, VerdictsInductive, PTL

(* Whatever is learnt of a notice, a profile or a rate, no rule turns its  *)
(* answer round (engine.py:41-47).                                         *)
THEOREM LearningTurnsNothingRound == Spec => LearningNeverFlips
<1>1. IInv /\ [Next]_vars =>
        [Learns => \A r \in Active(rules) :
            \/ Outcome(r, Notice, profile, rates) = "undecided"
            \/ Outcome(r, Notice, profile, rates)' = Outcome(r, Notice, profile, rates)
            \/ HalfARange(r)]_vars
  BY LearningStays DEF IInv
<1>2. QED
  BY <1>1, VerdictsInductive, PTL DEF Spec, LearningNeverFlips

=============================================================================
