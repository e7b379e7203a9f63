----------------------------- MODULE MCVerdicts -----------------------------
(* Five rule sets over a demanded turnover, the value of the contract and   *)
(* the deadline; the notice is in BDT, the profile and one bound in USD.   *)
EXTENDS Verdicts

Rule(id, attribute, operator, value, severity, on_missing) ==
    [id |-> id, attribute |-> attribute, operator |-> operator, value |-> value,
     severity |-> severity, on_missing |-> on_missing, enabled |-> TRUE]

(* The preset turnover_within_capacity, and a stricter form of it.         *)
Turnover == Rule("a", "min_annual_turnover", "lte",
                 [kind |-> "profile", field |-> "annual_turnover"], "hard", "verify")
TurnoverOrOut == [Turnover EXCEPT !.on_missing = "fail"]

(* contract_value_in_range as a hard rule, between bounds in two currencies. *)
Worth == Rule("b", "estimated_value", "between",
              Range(Money(2, "BDT"), Money(1, "USD")), "hard", "verify")

(* enough_time_to_bid, as a question and as a note.                        *)
TimeLeft == Rule("c", "deadline_at", "after", DaysFromNow(2), "hard", "verify")
TimeNote == [TimeLeft EXCEPT !.severity = "soft"]

MCRuleSets == {{}, {Turnover, TimeNote}, {TurnoverOrOut, Worth}, {Worth}, {TimeLeft}}
MCProfiles == {<< >>, [annual_turnover |-> Money(1, "USD")]}
MCRates == {<< >>, [BDT |-> 2], [BDT |-> 3]}

Content(value, deadline) == [value |-> value, deadline |-> deadline]
Reading(turnover, value, sure) ==
    [min_annual_turnover |-> turnover, estimated_value |-> value, sure |-> sure]

MCContents == {Content(None, None), Content(3, 2), Content(None, 4)}
MCReadings == {Reading(3, None, "low"), Reading(3, 3, "low"), Reading(3, 3, "high"),
               Reading(None, 1, "high")}
=============================================================================
