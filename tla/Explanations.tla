---------------------------- MODULE Explanations ----------------------------
(***************************************************************************)
(* What a customer reads beside a match: the grade, the verdict, the       *)
(* urgency, the recommendation and the explanation of them, for the        *)
(* matches of one notice while it is scored again, its deadline comes      *)
(* nearer, and generate_explanations rewrites the prose with the language  *)
(* model (app/modules/matching/service.py, app/jobs/tasks/explanations.py, *)
(* app/jobs/tasks/maintenance.py), within a budget of tokens for a day     *)
(* (app/modules/matching/ai_usage.py).                                     *)
(*                                                                         *)
(* A text is [by, grade, eligibility, recommendation]: who wrote it, and   *)
(* what it says.  Every transaction writes the columns it has changed, and *)
(* holds the row from its UPDATE to its commit.                            *)
(***************************************************************************)
EXTENDS Scoring

CONSTANTS
    None,
    Matches,       \* the organizations' matches of the notice
    Jobs,          \* runs of generate_explanations that may overlap
    Similarities,  \* what a scoring may find
    Verdicts,      \* what the rules may say
    Budget,        \* ai_daily_token_budget; 0 is no budget
    Estimate,      \* ESTIMATED_TOKENS_PER_EXPLANATION
    Costs,         \* the tokens a call may take
    MaxAttempts,   \* stop_after_attempt of generate_structured
    Deadline,      \* of the notice, in days
    MaxTime,       \* bound: days that pass
    MaxRuns        \* bound: runs of either kind that start

Rows ==
    [grade : Grades, eligibility : Eligibilities, urgency : Urgencies,
     recommendation : Recommendations, kind : {"templated", "llm"},
     text : [by : {"template", "model"}, grade : Grades, eligibility : Eligibilities,
             recommendation : Recommendations]]

(* What a job has loaded, has still to do, is asking for and has written,  *)
(* and the tokens it has recorded today.                                   *)
Tasks ==
    [loaded : [Matches -> Rows \cup {None}], todo : SUBSET Matches,
     asking : Matches \cup {None}, attempts : 0..(MaxAttempts - 1),
     wrote : SUBSET Matches, own : Nat]

Batch(task) == {m \in Matches : task.loaded[m] # None}

ASSUME ExplanationsAssumption ==
    /\ Verdicts \subseteq Eligibilities
    /\ Similarities \subseteq Int
    /\ Costs \subseteq Nat \ {0}
    /\ {Budget, Estimate, MaxTime, MaxRuns} \subseteq Nat
    /\ MaxAttempts \in Nat \ {0}
    /\ Deadline \in Int
    /\ None \notin Int \cup Matches /\ None \notin Rows /\ None \notin Tasks

VARIABLES
    now,
    match,        \* tender_matches: None, or what the row says
    scoring,      \* the rows that scoring runs have loaded, None before a first match
    job,          \* each job: None, or its task
    spent,        \* ai_usage: tokens recorded today
    \* bounds and history (no code reads these)
    runs,
    crossed,      \* matches written by a run when the row was no longer what it had loaded
    aged,         \* matches whose urgency a sweep has written since a run did
    outdated,     \* matches whose recommendation has moved since their text was written
    caveats,      \* what happened today that the budget does not reckon with
    paid          \* tokens the provider has counted today, up to the first caveat

shown == <<match, crossed, aged, outdated>>
tokens == <<spent, paid, caveats>>
vars == <<now, scoring, job, runs, shown, tokens>>

InProgress == {j \in Jobs : job[j] # None}

TypeOK ==
    /\ now \in 0..MaxTime /\ runs \in 0..MaxRuns
    /\ match \in [Matches -> Rows \cup {None}]
    /\ DOMAIN scoring \subseteq Matches
    /\ \A m \in DOMAIN scoring : scoring[m] \in Rows \cup {None}
    /\ job \in [Jobs -> Tasks \cup {None}]
    /\ \A j \in InProgress :
        /\ job[j].todo \cup job[j].wrote \subseteq Batch(job[j])
        /\ job[j].asking \in job[j].todo \cup {None}
    /\ crossed \cup aged \cup outdated \subseteq Matches
    /\ {spent, paid} \subseteq Nat
    /\ caveats \subseteq {"overlap", "underrated", "unrecorded"}

Text(by, row) ==
    [by |-> by, grade |-> row.grade, eligibility |-> row.eligibility,
     recommendation |-> row.recommendation]

Urgency == UrgencyFor(Deadline <= now, Deadline - now)

(* What a scoring stores: the templated text is always of the verdict. *)
Scored(grade, eligibility) ==
    LET verdict == [grade |-> grade, eligibility |-> eligibility,
                    recommendation |-> Recommend(grade, eligibility, Urgency)]
    IN  [grade |-> grade, eligibility |-> eligibility, urgency |-> Urgency,
         recommendation |-> verdict.recommendation,
         kind |-> "templated", text |-> Text("template", verdict)]

(* The notice may have been matched before. *)
Init ==
    /\ now = 0 /\ runs = 0
    /\ match \in [Matches -> {None} \cup {Scored(GradeFor(similarity), eligibility) :
                                 similarity \in Similarities, eligibility \in Verdicts}]
    /\ scoring = << >>
    /\ job = [j \in Jobs |-> None]
    /\ crossed = {} /\ aged = {} /\ outdated = {}
    /\ spent = 0 /\ paid = 0 /\ caveats = {}

(* Rows a job has written to, it holds until it commits. *)
Held == UNION {job[j].wrote : j \in InProgress}

Starts == runs < MaxRuns /\ runs' = runs + 1

(* A day passes; tokens recorded before midnight are of the day before.    *)
Tick ==
    /\ now < MaxTime
    /\ now' = now + 1
    /\ spent' = 0 /\ paid' = 0
    /\ caveats' = IF \E j, k \in InProgress : j # k THEN {"overlap"} ELSE {}
    /\ job' = [j \in Jobs |-> IF job[j] = None THEN None ELSE [job[j] EXCEPT !.own = 0]]
    /\ UNCHANGED <<scoring, runs, shown>>

-----------------------------------------------------------------------------
(* Scoring.                                                                *)

(* match_tender_for_org loads the row there is ... *)
Load(m) ==
    /\ m \notin DOMAIN scoring
    /\ Starts
    /\ scoring' = [n \in DOMAIN scoring \cup {m} |-> IF n = m THEN match[m] ELSE scoring[n]]
    /\ UNCHANGED <<now, job, shown, tokens>>

(* ... and its transaction ends. *)
Leaves(m) == scoring' = [n \in DOMAIN scoring \ {m} |-> scoring[n]]

(* SQLAlchemy's unit of work writes the columns whose value differs from   *)
(* the one loaded; the others keep what the row says now.                  *)
Updated(new, loaded, current) ==
    IF loaded = None THEN new
    ELSE [c \in DOMAIN new |-> IF new[c] # loaded[c] THEN new[c] ELSE current[c]]

(* A run that writes a row no longer as it was loaded mixes two verdicts;  *)
(* one that writes it as it was leaves a whole one.                        *)
Score(m) ==
    \E similarity \in Similarities, eligibility \in Verdicts :
        LET old == scoring[m]
            new == Scored(GradeFor(similarity), eligibility)
        IN  /\ match' = [match EXCEPT ![m] = Updated(new, old, match[m])]
            /\ crossed' = IF old = match[m] THEN crossed \ {m} ELSE crossed \cup {m}
            /\ aged' = aged \ {m} /\ outdated' = outdated \ {m}

(* Fault: the urgency moves without the recommendation. *)
RereadUrgency(m) ==
    /\ match' = [match EXCEPT ![m] = Updated([scoring[m] EXCEPT !.urgency = Urgency],
                                             scoring[m], match[m])]
    /\ UNCHANGED <<crossed, aged, outdated>>

(* The inputs have not changed: the urgency may have, and takes the        *)
(* recommendation with it, but not the text.                               *)
Reread(m) ==
    LET old == scoring[m]
        new == IF old.urgency = Urgency THEN old
               ELSE [old EXCEPT !.urgency = Urgency,
                        !.recommendation = Recommend(old.grade, old.eligibility, Urgency)]
    IN  /\ match' = [match EXCEPT ![m] = Updated(new, old, match[m])]
        /\ crossed' = IF old = match[m] \/ new = old THEN crossed ELSE crossed \cup {m}
        /\ aged' = IF new = old THEN aged ELSE aged \ {m}
        /\ outdated' = IF new.recommendation = old.recommendation THEN outdated
                       ELSE outdated \cup {m}

Store(m) ==
    /\ m \in DOMAIN scoring \ Held
    /\ Leaves(m)
    /\ Score(m) \/ (scoring[m] # None /\ Reread(m))
    /\ UNCHANGED <<now, job, runs, tokens>>

(* age_match_urgency, for one row of the hour: the urgency alone. *)
AgeUrgency(m) ==
    /\ match[m] # None /\ m \notin Held
    /\ match[m].urgency # Urgency
    /\ match' = [match EXCEPT ![m].urgency = Urgency]
    /\ aged' = aged \cup {m}
    /\ UNCHANGED <<now, scoring, job, runs, crossed, outdated, tokens>>

-----------------------------------------------------------------------------
(* Explaining.                                                             *)

(* A templated text of a match that is worth the tokens. *)
Candidates ==
    {m \in Matches :
        /\ match[m] # None /\ match[m].kind = "templated"
        /\ ShouldUseLlm(match[m].grade, match[m].eligibility, match[m].urgency)}

(* generate_explanations loads the matches, once for all its calls. *)
Begin(j) ==
    /\ job[j] = None
    /\ Starts
    /\ job' = [job EXCEPT ![j] =
        [loaded |-> [m \in Matches |-> IF m \in Candidates THEN match[m] ELSE None],
         todo |-> Candidates, asking |-> None, attempts |-> 0, wrote |-> {}, own |-> 0]]
    /\ caveats' = IF InProgress = {} THEN caveats ELSE caveats \cup {"overlap"}
    /\ UNCHANGED <<now, scoring, shown, spent, paid>>

(* Fault: no room is left for the call itself. *)
WithinBudgetSoFar(j) == Budget = 0 \/ spent + job[j].own < Budget

(* within_budget: what others have committed, what this job has recorded,  *)
(* and room for the call.                                                  *)
WithinBudget(j) == Budget = 0 \/ spent + job[j].own + Estimate < Budget

(* The next match of the job, best first. *)
IsNext(j, m) ==
    /\ job[j] # None /\ job[j].asking = None
    /\ m \in job[j].todo
    /\ \A n \in job[j].todo : job[j].loaded[n].grade = "S" => job[j].loaded[m].grade = "S"

Skip(j, m) ==
    /\ IsNext(j, m) /\ ~WithinBudget(j)
    /\ job' = [job EXCEPT ![j].todo = @ \ {m}]
    /\ UNCHANGED <<now, scoring, runs, shown, tokens>>

Ask(j, m) ==
    /\ IsNext(j, m) /\ WithinBudget(j)
    /\ job' = [job EXCEPT ![j].asking = m]
    /\ UNCHANGED <<now, scoring, runs, shown, tokens>>

(* The provider counts the tokens of a call. *)
Pays(cost, caveat) ==
    /\ caveats' = caveats \cup caveat
    /\ paid' = IF caveats' = {} THEN paid + cost ELSE paid

(* Fault: the attempts of one match are never counted to the last. *)
AttemptFailsAndStays(j) ==
    /\ job[j] # None /\ job[j].asking # None
    /\ job' = [job EXCEPT ![j].attempts = @ + 1]
    /\ \E cost \in Costs \cup {0} :
        Pays(cost, IF cost = 0 THEN {} ELSE {"unrecorded"})
    /\ UNCHANGED <<now, scoring, runs, shown, spent>>

(* An attempt fails: the call, or what it brought is not the JSON asked    *)
(* for, which costs what an answer does and is recorded nowhere.  After    *)
(* the last one the template stays.                                        *)
AttemptFails(j) ==
    /\ job[j] # None /\ job[j].asking # None
    /\ IF job[j].attempts + 1 < MaxAttempts
       THEN job' = [job EXCEPT ![j].attempts = @ + 1]
       ELSE job' = [job EXCEPT ![j].attempts = 0, ![j].asking = None,
                               ![j].todo = @ \ {job[j].asking}]
    /\ \E cost \in Costs \cup {0} :
        Pays(cost, IF cost = 0 THEN {} ELSE {"unrecorded"})
    /\ UNCHANGED <<now, scoring, runs, shown, spent>>

(* _write_one: the answer is written, and its tokens with it; the UPDATE   *)
(* waits for the job that has written to the row before.                   *)
Answer(j) ==
    /\ job[j] # None /\ job[j].asking # None
    /\ job[j].asking \notin Held
    /\ \E cost \in Costs :
        /\ job' = [job EXCEPT ![j].wrote = @ \cup {job[j].asking}, ![j].own = @ + cost,
                              ![j].todo = @ \ {job[j].asking}, ![j].asking = None,
                              ![j].attempts = 0]
        /\ Pays(cost, IF cost > Estimate THEN {"underrated"} ELSE {})
    /\ UNCHANGED <<now, scoring, runs, shown, spent>>

(* The texts of a job are of the rows as it loaded them.                   *)
Commit(j) ==
    /\ job[j] # None /\ job[j].asking = None /\ job[j].todo = {}
    /\ LET loaded == job[j].loaded
       IN  /\ match' = [m \in Matches |->
                IF m \in job[j].wrote
                THEN [match[m] EXCEPT !.kind = "llm", !.text = Text("model", loaded[m])]
                ELSE match[m]]
           /\ crossed' = crossed \cup {m \in job[j].wrote : match[m] # loaded[m]}
           /\ outdated' = outdated \ {m \in job[j].wrote : match[m] = loaded[m]}
    /\ spent' = spent + job[j].own
    /\ job' = [job EXCEPT ![j] = None]
    /\ UNCHANGED <<now, scoring, runs, aged, paid, caveats>>

(* The worker dies, the job is cancelled at job_timeout, or the database   *)
(* ends one of two jobs that wait for each other: nothing is recorded.     *)
Die(j) ==
    /\ job[j] # None
    /\ job' = [job EXCEPT ![j] = None]
    /\ caveats' = IF job[j].own = 0 THEN caveats ELSE caveats \cup {"unrecorded"}
    /\ UNCHANGED <<now, scoring, runs, shown, spent, paid>>

Next ==
    \/ Tick
    \/ \E m \in Matches : Load(m) \/ Store(m) \/ AgeUrgency(m)
    \/ \E j \in Jobs :
        \/ Begin(j) \/ AttemptFails(j) \/ Answer(j) \/ Commit(j) \/ Die(j)
        \/ \E m \in Matches : Skip(j, m) \/ Ask(j, m)

Spec == Init /\ [][Next]_vars

-----------------------------------------------------------------------------
(* Properties.                                                             *)

(* What is shown beside a match belongs together, whichever of scoring,    *)
(* sweep and explaining wrote last: the recommendation follows from the    *)
(* rest, the text says what the row says and whoever is named wrote it     *)
(* ("the explanation then cannot claim anything the scoring did not        *)
(* actually use", ai/explanation.py:9).  The exceptions: the hourly sweep  *)
(* moves the urgency alone, a run that finds nothing new moves the         *)
(* recommendation and not the text, and a run that was overtaken writes    *)
(* over a row it has not read.                                             *)
WhatIsShownFits ==
    \A m \in Matches \ crossed : match[m] # None =>
        LET row == match[m]
        IN  /\ row.recommendation = Recommend(row.grade, row.eligibility, row.urgency)
                  \/ m \in aged
            /\ <<row.text.grade, row.text.eligibility>> = <<row.grade, row.eligibility>>
            /\ row.text.recommendation = row.recommendation \/ m \in outdated
            /\ row.kind = "llm" <=> row.text.by = "model"

(* "Refusing to spend past a cap" (ai_usage.py:1): what the provider has   *)
(* counted today stays below the budget, through failed attempts, deaths   *)
(* and midnight; except that two jobs do not see each other's calls before *)
(* they commit, that a call may take more than the estimate, and that the  *)
(* tokens of a failed attempt or a lost job are in no row.                 *)
BudgetHolds == Budget > 0 /\ caveats = {} => paid < Budget

=============================================================================
