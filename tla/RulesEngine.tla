----------------------------- MODULE RulesEngine -----------------------------
(***************************************************************************)
(* Deciding whether a company may bid (app/modules/rules): the catalogue   *)
(* of attributes, what is known of a notice and of a profile (facts.py),   *)
(* one rule applied to both, and the verdict on a whole rule set           *)
(* (engine.py, service.py).  Every definition is a function of its         *)
(* arguments; module Verdicts moves them.                                  *)
(*                                                                         *)
(* A value is a record with its kind.  A list is the set of the comparison *)
(* keys of its members (core/text.py), a text is the set of the terms that *)
(* occur in it, a moment is the number of days from now, a confidence is   *)
(* "low" (below MIN_USABLE_CONFIDENCE), "high" or "unscored".              *)
(***************************************************************************)
EXTENDS Integers, FiniteSets

CONSTANTS
    BaseCurrency,  \* what money is normalised to
    NoCurrency     \* an amount of money that names none

ASSUME CurrencyAssumption == BaseCurrency # NoCurrency

Unknown == [kind |-> "unknown"]   \* we could not find out
Null == [kind |-> "none"]         \* None, which can be a real answer
Money(a, c) == [kind |-> "money", amount |-> a, currency |-> c]
Number(n) == [kind |-> "number", number |-> n]
Flag(b) == [kind |-> "flag", flag |-> b]
List(keys) == [kind |-> "list", keys |-> keys]
Word(w) == [kind |-> "word", word |-> w]
Text(terms) == [kind |-> "text", terms |-> terms]
Moment(days) == [kind |-> "moment", days |-> days]
DaysFromNow(days) == [kind |-> "days_from_now", days |-> days]
Range(min, max) == [kind |-> "range", min |-> min, max |-> max]

-----------------------------------------------------------------------------
(* The catalogue.                                                          *)

Operators ==
    [money |-> {"lte", "gte", "between"}, integer |-> {"lte", "gte", "between"},
     list |-> {"in", "not_in", "intersects", "subset_of"}, enum |-> {"in", "not_in"},
     boolean |-> {"eq"}, text |-> {"contains_any", "not_contains_any"},
     datetime |-> {"within_days", "after"}]

TypeOf ==
    [min_annual_turnover |-> "money", estimated_value |-> "money", bid_security |-> "money",
     required_certifications |-> "list", eligible_countries |-> "list", sectors |-> "list",
     country |-> "enum", procurement_method |-> "enum", procurement_category |-> "enum",
     language |-> "enum", min_years_experience |-> "integer",
     similar_projects_required |-> "integer", jv_allowed |-> "boolean",
     local_registration_required |-> "boolean", full_text |-> "text", title |-> "text",
     procuring_entity |-> "text", deadline_at |-> "datetime"]

Attributes == DOMAIN TypeOf

(* AttributeSource.AI_EXTRACTION. *)
FromTheModel ==
    {"min_annual_turnover", "bid_security", "required_certifications", "eligible_countries",
     "sectors", "min_years_experience", "similar_projects_required", "jv_allowed",
     "local_registration_required"}

(* RuleDefinition and its validator.                                       *)
IsRule(r) ==
    /\ r.attribute \in Attributes
    /\ r.operator \in Operators[TypeOf[r.attribute]]
    /\ r.severity \in {"hard", "soft"}
    /\ r.on_missing \in {"verify", "pass", "fail"}
    /\ r.enabled \in BOOLEAN

(* RuleSetDefinition: at most one rule for an id. *)
IsRuleSet(rules) ==
    /\ \A r \in rules : IsRule(r)
    /\ \A r, s \in rules : r.id = s.id => r = s

Active(rules) == {r \in rules : r.enabled}

-----------------------------------------------------------------------------
(* What is known of a notice.                                              *)

(* What tender_facts reads of an extraction: the keys of the catalogue     *)
(* whose source is the model, and the value of the contract.               *)
Extractable == FromTheModel \cup {"estimated_value"}

(* Money the notice states in no currency is in the notice's own.          *)
InCurrencyOf(notice, v) ==
    IF v.kind = "money" /\ v.currency = NoCurrency
    THEN Money(v.amount, notice.currency) ELSE v

HasTypeOf(v, key) ==
    \/ TypeOf[key] = "money" /\ v.kind = "money"
    \/ TypeOf[key] = "list" /\ v.kind = "list"
    \/ TypeOf[key] = "integer" /\ v.kind = "number"
    \/ TypeOf[key] = "boolean" /\ v.kind = "flag"

(* Portal metadata always wins over extraction, and an extracted value of  *)
(* another shape is not a value.                                           *)
TenderValue(notice, key) ==
    IF key \in DOMAIN notice.portal THEN notice.portal[key]
    ELSE IF /\ key \in Extractable \cap DOMAIN notice.extracted
            /\ HasTypeOf(notice.extracted[key], key)
         THEN InCurrencyOf(notice, notice.extracted[key])
         ELSE Unknown

(* The score of the model, whichever value won: only the four keys of      *)
(* _PORTAL_WINS lose theirs.                                               *)
Confidence(notice, key) ==
    IF key \in DOMAIN notice.confidence \ {"deadline_at", "procurement_method",
                                           "procurement_category", "country"}
    THEN notice.confidence[key] ELSE "unscored"

-----------------------------------------------------------------------------
(* Operators.                                                              *)

Answer(b) == IF b THEN "yes" ELSE "no"

CurrencyOf(v) == IF v.currency = NoCurrency THEN BaseCurrency ELSE v.currency

(* Fault: a currency without a rate is compared raw. *)
RateOrRaw(c, fx) == IF c = BaseCurrency \/ c \notin DOMAIN fx THEN 1 ELSE fx[c]

(* Units of a currency for one of the base; 0 when there is no usable rate. *)
Rate(c, fx) ==
    IF c = BaseCurrency THEN 1 ELSE IF c \in DOMAIN fx THEN fx[c] ELSE 0

(* _comparable_pair: the two amounts on one scale, or nothing.  Both       *)
(* quotients are multiplied by both rates, which no comparison notices.    *)
Pair(v, e, fx) ==
    IF v.kind # "money" \/ e.kind # "money" THEN {}
    ELSE LET left == Rate(CurrencyOf(v), fx)
             right == Rate(CurrencyOf(e), fx)
         IN  IF CurrencyOf(v) = CurrencyOf(e) THEN {<<v.amount, e.amount>>}
             ELSE IF left = 0 \/ right = 0 THEN {}
             ELSE {<<v.amount * right, e.amount * left>>}

(* An integer needs no scale. *)
Plain(v, e) ==
    IF v.kind = "number" /\ e.kind = "number" THEN {<<v.number, e.number>>} ELSE {}

(* The pairs a comparison of two amounts looks at. *)
Scaled(type, v, e, fx) == IF type = "money" THEN Pair(v, e, fx) ELSE Plain(v, e)

(* A bound that is missing, or cannot be put on the scale of the value, is *)
(* no bound; without any there is no answer.                               *)
Between(type, v, e, fx) ==
    LET low == IF e.kind = "range" THEN Scaled(type, v, e.min, fx) ELSE {}
        high == IF e.kind = "range" THEN Scaled(type, v, e.max, fx) ELSE {}
    IN  IF low \cup high = {} THEN "undecided"
        ELSE Answer(/\ \A p \in low : p[1] >= p[2]
                    /\ \A p \in high : p[1] <= p[2])

CompareAmounts(op, type, v, e, fx) ==
    IF op = "between" THEN Between(type, v, e, fx)
    ELSE LET pair == Scaled(type, v, e, fx)
         IN  IF pair = {} THEN "undecided"
             ELSE Answer(\A p \in pair : IF op = "lte" THEN p[1] <= p[2] ELSE p[1] >= p[2])

(* _as_list: None is an empty list, a string a list of one. *)
IsListed(v) == v.kind \in {"none", "word", "list"}

Keys(v) == IF v.kind = "word" THEN {v.word} ELSE IF v.kind = "list" THEN v.keys ELSE {}

(* An empty list of a notice is "unrestricted", and intersects anything. *)
CompareLists(op, v, e) ==
    IF ~IsListed(v) \/ ~IsListed(e) THEN "undecided"
    ELSE CASE op = "in" -> Answer(Keys(v) # {} /\ Keys(v) \subseteq Keys(e))
           [] op = "not_in" -> Answer(Keys(v) \cap Keys(e) = {})
           [] op = "intersects" -> Answer(Keys(v) = {} \/ Keys(v) \cap Keys(e) # {})
           [] op = "subset_of" -> Answer(Keys(v) \subseteq Keys(e))

CompareFlags(v, e) ==
    IF v.kind # "flag" \/ e.kind # "flag" THEN "undecided" ELSE Answer(v.flag = e.flag)

CompareTexts(op, v, e) ==
    IF v.kind # "text" \/ ~IsListed(e) \/ Keys(e) = {} THEN "undecided"
    ELSE Answer((Keys(e) \cap v.terms # {}) = (op = "contains_any"))

CompareMoments(op, v, e) ==
    IF v.kind # "moment" THEN "undecided"
    ELSE CASE op = "within_days" /\ e.kind = "number" -> Answer(v.days \in 0..e.number)
           [] op = "after" /\ e.kind = "days_from_now" -> Answer(v.days >= e.days)
           [] OTHER -> "undecided"

(* _compare. *)
Compare(op, type, v, e, fx) ==
    CASE type \in {"money", "integer"} -> CompareAmounts(op, type, v, e, fx)
      [] type \in {"list", "enum"} -> CompareLists(op, v, e)
      [] type = "boolean" -> CompareFlags(v, e)
      [] type = "text" -> CompareTexts(op, v, e)
      [] type = "datetime" -> CompareMoments(op, v, e)

-----------------------------------------------------------------------------
(* Evaluation.                                                             *)

(* _resolve_expected: a literal, or a field of the profile. *)
Expected(rule, profile) ==
    IF rule.value.kind # "profile" THEN rule.value
    ELSE IF rule.value.field \in DOMAIN profile THEN profile[rule.value.field] ELSE Unknown

(* _unknown_status: what on_missing asks for; a soft rule never asks a human. *)
UnknownStatus(rule) ==
    CASE rule.on_missing = "pass" -> "pass"
      [] rule.on_missing = "fail" -> "fail"
      [] rule.on_missing = "verify" -> IF rule.severity = "soft" THEN "warn" ELSE "unknown"

(* Fault: what the model was unsure about is evidence. *)
UnusableIfUnstated(rule, notice) == TenderValue(notice, rule.attribute) = Unknown

(* The notice does not say, or the model was unsure.  The floor looks at   *)
(* the source the catalogue names, not at where the value came from.       *)
Unusable(rule, notice) ==
    \/ TenderValue(notice, rule.attribute) = Unknown
    \/ /\ rule.attribute \in FromTheModel
       /\ Confidence(notice, rule.attribute) = "low"

(* What the comparison says, "undecided" where it is not made. *)
Outcome(rule, notice, profile, fx) ==
    LET expected == Expected(rule, profile)
    IN  IF Unusable(rule, notice) \/ expected = Unknown THEN "undecided"
        ELSE Compare(rule.operator, TypeOf[rule.attribute],
                     TenderValue(notice, rule.attribute), expected, fx)

(* evaluate_rule. *)
RuleStatus(rule, notice, profile, fx) ==
    CASE Outcome(rule, notice, profile, fx) = "yes" -> "pass"
      [] Outcome(rule, notice, profile, fx) = "no" -> "fail"
      [] Outcome(rule, notice, profile, fx) = "undecided" -> UnknownStatus(rule)

(* evaluate: a status for every active rule. *)
Evaluate(rules, notice, profile, fx) ==
    [r \in Active(rules) |-> RuleStatus(r, notice, profile, fx)]

(* apply_overrides: a person answers what the engine could not. *)
Overridden(evaluation, answers) ==
    [r \in DOMAIN evaluation |->
        IF r.id \in DOMAIN answers /\ evaluation[r] \in {"unknown", "warn"}
        THEN answers[r.id] ELSE evaluation[r]]

(* Fault: the status of the rule that decides is taken for the verdict. *)
StatusOfTheRule(evaluation) ==
    LET hard == {r \in DOMAIN evaluation : r.severity = "hard"}
    IN  IF \E r \in hard : evaluation[r] = "fail" THEN "ineligible"
        ELSE IF \E r \in hard : evaluation[r] = "unknown" THEN "unknown"
        ELSE "eligible"

(* Evaluation.status. *)
Status(evaluation) ==
    LET hard == {r \in DOMAIN evaluation : r.severity = "hard"}
    IN  IF \E r \in hard : evaluation[r] = "fail" THEN "ineligible"
        ELSE IF \E r \in hard : evaluation[r] = "unknown" THEN "needs_verification"
        ELSE "eligible"

(* evaluate_for_tender. *)
Verdict(rules, notice, profile, fx, answers) ==
    Status(Overridden(Evaluate(rules, notice, profile, fx), answers))

(* preview and test_against_tender: a draft, with no answers.              *)
DraftVerdict(rules, notice, profile, fx) == Status(Evaluate(rules, notice, profile, fx))

=============================================================================
