------------------------------- MODULE Scoring -------------------------------
(***************************************************************************)
(* What a similarity and a verdict amount to (app/modules/matching/        *)
(* scoring.py), and which matches are worth a call of the language model   *)
(* (app/ai/explanation.py).  Similarities are in hundredths, thresholds    *)
(* the default ones.                                                       *)
(***************************************************************************)
EXTENDS Integers

Grades == {"S", "A", "B", "C"}
Eligibilities == {"eligible", "needs_verification", "ineligible"}
Urgencies == {"unknown", "expired", "critical", "high", "normal", "low"}
Recommendations == {"bid", "hold", "skip"}

(* grade_for. *)
GradeFor(similarity) ==
    CASE similarity >= 78 -> "S"
      [] similarity \in 70..77 -> "A"
      [] similarity \in 62..69 -> "B"
      [] similarity < 62 -> "C"

(* urgency_for, from the days to the deadline by the organization's clock. *)
UrgencyFor(passed, days) ==
    CASE passed -> "expired"
      [] ~passed /\ days <= 3 -> "critical"
      [] ~passed /\ days \in 4..7 -> "high"
      [] ~passed /\ days \in 8..21 -> "normal"
      [] ~passed /\ days > 21 -> "low"

(* _RECOMMENDATIONS, and the deadline that overrides it. *)
Recommend(grade, eligibility, urgency) ==
    IF urgency = "expired" \/ eligibility = "ineligible" \/ grade = "C" THEN "skip"
    ELSE IF grade \in {"S", "A"} /\ eligibility = "eligible" THEN "bid"
    ELSE "hold"

(* should_use_llm. *)
ShouldUseLlm(grade, eligibility, urgency) ==
    /\ urgency # "expired"
    /\ \/ grade \in {"S", "A"}
       \/ grade = "B" /\ eligibility = "eligible"
=============================================================================
