------------------------- MODULE ExplanationsProofs -------------------------
(***************************************************************************)
(* What is shown of a match, and what is spent on it, for any number of    *)
(* matches, jobs, tokens, attempts and days.                               *)
(***************************************************************************)
EXTENDS Explanations, TLAPS

-----------------------------------------------------------------------------
(* Rows.                                                                   *)

LEMMA UrgencyType == ASSUME now \in 0..MaxTime PROVE Urgency \in Urgencies
<1>1. now \in Int /\ Deadline \in Int
  BY ExplanationsAssumption
<1>2. CASE Deadline <= now
  BY <1>1, <1>2 DEF Urgency, UrgencyFor, Urgencies
<1>3. CASE ~(Deadline <= now)
  <2>1. \/ Deadline - now <= 3 \/ Deadline - now \in 4..7
        \/ Deadline - now \in 8..21 \/ Deadline - now > 21
    BY <1>1
  <2>2. QED
    BY <1>1, <1>3, <2>1 DEF Urgency, UrgencyFor, Urgencies
<1>4. QED
  BY <1>2, <1>3

LEMMA GradeType == ASSUME NEW s \in Int PROVE GradeFor(s) \in Grades
BY DEF GradeFor, Grades

LEMMA ScoredIsRow ==
  ASSUME now \in 0..MaxTime, NEW g \in Grades, NEW e \in Eligibilities
  PROVE  Scored(g, e) \in Rows
<1>1. Recommend(g, e, Urgency) \in Recommendations
  BY DEF Recommend, Recommendations
<1>2. QED
  BY <1>1, UrgencyType DEF Scored, Text, Rows

(* An UPDATE leaves a row; the whole new one when the row is as it was     *)
(* loaded, and the old one when nothing has changed.                       *)
LEMMA UpdatedRow ==
  ASSUME NEW new \in Rows, NEW loaded \in Rows, NEW current \in Rows
  PROVE  /\ Updated(new, loaded, current) \in Rows
         /\ loaded = current => Updated(new, loaded, current) = new
         /\ new = loaded => Updated(new, loaded, current) = current
<1>0. loaded # None
  BY ExplanationsAssumption
<1>1. DOMAIN new = {"grade", "eligibility", "urgency", "recommendation", "kind", "text"}
      /\ DOMAIN current = DOMAIN new
  BY DEF Rows
<1>2. Updated(new, loaded, current) =
        [grade |-> IF new.grade # loaded.grade THEN new.grade ELSE current.grade,
         eligibility |-> IF new.eligibility # loaded.eligibility
                         THEN new.eligibility ELSE current.eligibility,
         urgency |-> IF new.urgency # loaded.urgency THEN new.urgency ELSE current.urgency,
         recommendation |-> IF new.recommendation # loaded.recommendation
                            THEN new.recommendation ELSE current.recommendation,
         kind |-> IF new.kind # loaded.kind THEN new.kind ELSE current.kind,
         text |-> IF new.text # loaded.text THEN new.text ELSE current.text]
  BY <1>0, <1>1 DEF Updated
<1>3. Updated(new, loaded, current) \in Rows
  BY <1>2 DEF Rows
<1>4. ASSUME loaded = current PROVE Updated(new, loaded, current) = new
  BY <1>2, <1>4 DEF Rows
<1>5. ASSUME new = loaded PROVE Updated(new, loaded, current) = current
  BY <1>2, <1>5 DEF Rows
<1>6. QED
  BY <1>3, <1>4, <1>5

-----------------------------------------------------------------------------
(* The inductive invariant, in named parts.                                *)

(* Matches are never deleted: what a run has loaded is still there.        *)
LoadedAreThere ==
    /\ \A m \in DOMAIN scoring : scoring[m] # None => match[m] # None
    /\ \A j \in InProgress : \A m \in Batch(job[j]) : match[m] # None

(* While nothing has happened that the budget does not reckon with, one    *)
(* job at most is at work, and what was paid is on record or its own.      *)
Reckoned ==
    caveats = {} =>
        /\ \A j, k \in InProgress : j = k
        /\ InProgress = {} => paid = spent
        /\ \A j \in InProgress : paid = spent + job[j].own

(* Who asks has found room for the call, which midnight can only widen.    *)
AskedWithin ==
    \A j \in InProgress : job[j].asking # None /\ Budget > 0 =>
        /\ Estimate < Budget
        /\ caveats = {} => spent + job[j].own + Estimate < Budget

IInv == TypeOK /\ LoadedAreThere /\ WhatIsShownFits /\ Reckoned /\ AskedWithin /\ BudgetHolds

-----------------------------------------------------------------------------
LEMMA InitIInv == Init => IInv
<1> SUFFICES ASSUME Init PROVE IInv
  OBVIOUS
<1> USE ExplanationsAssumption DEF Init
<1>1. now \in 0..MaxTime /\ runs \in 0..MaxRuns
  OBVIOUS
<1>2. ASSUME NEW m \in Matches, match[m] # None
      PROVE  \E g \in Grades, e \in Eligibilities : match[m] = Scored(g, e)
  BY <1>2, GradeType
<1>3. match \in [Matches -> Rows \cup {None}]
  BY <1>1, <1>2, ScoredIsRow
<1>4. InProgress = {} /\ DOMAIN scoring = {}
  BY DEF InProgress
<1>5. TypeOK
  BY <1>1, <1>3, <1>4 DEF TypeOK
<1>6. LoadedAreThere /\ Reckoned /\ AskedWithin /\ BudgetHolds
  BY <1>4 DEF LoadedAreThere, Reckoned, AskedWithin, BudgetHolds
<1>7. WhatIsShownFits
  BY <1>2 DEF WhatIsShownFits, Scored, Text
<1>8. QED
  BY <1>5, <1>6, <1>7 DEF IInv

LEMMA TickIInv == IInv /\ Tick => IInv'
<1> SUFFICES ASSUME IInv, Tick PROVE IInv'
  OBVIOUS
<1>1. /\ job' = [j \in Jobs |-> IF job[j] = None THEN None ELSE [job[j] EXCEPT !.own = 0]]
      /\ job \in [Jobs -> Tasks \cup {None}]
      /\ UNCHANGED <<scoring, runs, match, crossed, aged, outdated>>
      /\ spent' = 0 /\ paid' = 0
      /\ caveats' = IF \E j, k \in InProgress : j # k THEN {"overlap"} ELSE {}
  BY DEF IInv, TypeOK, Tick, shown
<1>2. ASSUME NEW j \in Jobs, job[j] # None
      PROVE  /\ job'[j] \in Tasks
             /\ job'[j].own = 0 /\ job'[j].asking = job[j].asking
             /\ job'[j].todo = job[j].todo /\ job'[j].wrote = job[j].wrote
             /\ job'[j].loaded = job[j].loaded
  BY <1>1, <1>2 DEF Tasks
<1>3. \A j \in Jobs : job'[j] \in Tasks \cup {None} /\ (job'[j] = None <=> job[j] = None)
  BY <1>1, <1>2, ExplanationsAssumption
<1>4. InProgress' = InProgress
  BY <1>3 DEF InProgress
<1>5. TypeOK'
  <2>1. job' \in [Jobs -> Tasks \cup {None}]
    BY <1>1, <1>3
  <2>2. \A j \in InProgress' :
          /\ job'[j].todo \cup job'[j].wrote \subseteq Batch(job'[j])
          /\ job'[j].asking \in job'[j].todo \cup {None}
    BY <1>2, <1>4 DEF IInv, TypeOK, InProgress, Batch
  <2>3. now' \in 0..MaxTime
    BY ExplanationsAssumption DEF IInv, TypeOK, Tick
  <2>4. caveats' \subseteq {"overlap", "underrated", "unrecorded"}
    BY <1>1
  <2>5. /\ runs' \in 0..MaxRuns /\ match' \in [Matches -> Rows \cup {None}]
        /\ DOMAIN scoring' \subseteq Matches
        /\ \A m \in DOMAIN scoring' : scoring'[m] \in Rows \cup {None}
        /\ crossed' \cup aged' \cup outdated' \subseteq Matches
        /\ {spent', paid'} \subseteq Nat
    BY <1>1 DEF IInv, TypeOK
  <2>6. QED
    BY <2>1, <2>2, <2>3, <2>4, <2>5 DEF TypeOK
<1>6. LoadedAreThere' /\ WhatIsShownFits'
  BY <1>1, <1>2, <1>4 DEF IInv, LoadedAreThere, WhatIsShownFits, InProgress, Batch
<1>7. Reckoned'
  BY <1>1, <1>2, <1>4 DEF Reckoned, InProgress
<1>8. AskedWithin'
  BY <1>1, <1>2, <1>4, ExplanationsAssumption DEF IInv, AskedWithin, InProgress
<1>9. BudgetHolds'
  BY <1>1 DEF BudgetHolds
<1>10. QED
  BY <1>5, <1>6, <1>7, <1>8, <1>9 DEF IInv

LEMMA LoadIInv == ASSUME IInv, NEW m \in Matches, Load(m) PROVE IInv'
<1> USE ExplanationsAssumption DEF IInv, Load, shown, tokens
<1>1. DOMAIN scoring' = DOMAIN scoring \cup {m}
      /\ \A n \in DOMAIN scoring' : scoring'[n] = IF n = m THEN match[m] ELSE scoring[n]
  OBVIOUS
<1>2. TypeOK'
  BY <1>1 DEF TypeOK, Starts, InProgress
<1>3. LoadedAreThere'
  BY <1>1 DEF LoadedAreThere, InProgress
<1>4. WhatIsShownFits' /\ Reckoned' /\ AskedWithin' /\ BudgetHolds'
  BY DEF WhatIsShownFits, Reckoned, AskedWithin, BudgetHolds, InProgress
<1>5. QED
  BY <1>2, <1>3, <1>4

(* What a scoring run makes of a row: of one as it was loaded it leaves a  *)
(* whole verdict.                                                          *)
LEMMA ScoreFits ==
  ASSUME IInv, NEW m \in DOMAIN scoring, Score(m)
  PROVE  /\ match' \in [Matches -> Rows \cup {None}]
         /\ match'[m] \in Rows /\ \A n \in Matches \ {m} : match'[n] = match[n]
         /\ crossed' \cup aged' \cup outdated' \subseteq Matches
         /\ WhatIsShownFits'
<1> USE ExplanationsAssumption DEF IInv
<1>1. PICK similarity \in Similarities, eligibility \in Verdicts :
        LET old == scoring[m]
            new == Scored(GradeFor(similarity), eligibility)
        IN  /\ match' = [match EXCEPT ![m] = Updated(new, old, match[m])]
            /\ crossed' = IF old = match[m] THEN crossed \ {m} ELSE crossed \cup {m}
            /\ aged' = aged \ {m} /\ outdated' = outdated \ {m}
  BY DEF Score
<1> DEFINE old == scoring[m]
           new == Scored(GradeFor(similarity), eligibility)
<1>2. new \in Rows /\ m \in Matches
  BY ScoredIsRow, GradeType DEF TypeOK
<1>3. old \in Rows => match[m] \in Rows
  BY DEF TypeOK, LoadedAreThere
<1>4. Updated(new, old, match[m]) \in Rows
      /\ (old = match[m] => Updated(new, old, match[m]) = new)
  <2>1. CASE old = None
    BY <1>2, <2>1 DEF Updated
  <2>2. CASE old \in Rows
    BY <1>2, <1>3, <2>2, UpdatedRow
  <2>3. QED
    BY <2>1, <2>2 DEF TypeOK
<1> HIDE DEF new
<1>5. match'[m] = Updated(new, old, match[m]) /\ \A n \in Matches \ {m} : match'[n] = match[n]
  BY <1>1, <1>2 DEF TypeOK, new
<1>6. /\ new.recommendation = Recommend(new.grade, new.eligibility, new.urgency)
      /\ <<new.text.grade, new.text.eligibility>> = <<new.grade, new.eligibility>>
      /\ new.text.recommendation = new.recommendation
      /\ new.kind = "templated" /\ new.text.by = "template"
  BY DEF new, Scored, Text
<1>7. match' \in [Matches -> Rows \cup {None}]
  BY <1>1, <1>2, <1>4 DEF TypeOK, new
<1>8. crossed' \cup aged' \cup outdated' \subseteq Matches
  BY <1>1, <1>2 DEF TypeOK
<1>9. WhatIsShownFits'
  <2> SUFFICES ASSUME NEW n \in Matches \ crossed', match'[n] # None
               PROVE  LET row == match'[n]
                      IN  /\ row.recommendation = Recommend(row.grade, row.eligibility, row.urgency)
                                \/ n \in aged'
                          /\ <<row.text.grade, row.text.eligibility>> = <<row.grade, row.eligibility>>
                          /\ row.text.recommendation = row.recommendation \/ n \in outdated'
                          /\ row.kind = "llm" <=> row.text.by = "model"
    BY DEF WhatIsShownFits
  <2>1. CASE n = m
    BY <1>1, <1>4, <1>5, <1>6, <2>1
  <2>2. CASE n # m
    BY <1>1, <1>5, <2>2 DEF WhatIsShownFits
  <2>3. QED
    BY <2>1, <2>2
<1>10. QED
  BY <1>4, <1>5, <1>7, <1>8, <1>9

LEMMA RereadFits ==
  ASSUME IInv, NEW m \in DOMAIN scoring, scoring[m] # None, Reread(m)
  PROVE  /\ match' \in [Matches -> Rows \cup {None}]
         /\ match'[m] \in Rows /\ \A n \in Matches \ {m} : match'[n] = match[n]
         /\ crossed' \cup aged' \cup outdated' \subseteq Matches
         /\ WhatIsShownFits'
<1> DEFINE old == scoring[m]
           new == IF old.urgency = Urgency THEN old
                  ELSE [old EXCEPT !.urgency = Urgency,
                           !.recommendation = Recommend(old.grade, old.eligibility, Urgency)]
<1>1. m \in Matches /\ old \in Rows /\ match[m] \in Rows
  BY DEF IInv, TypeOK, LoadedAreThere
<1>2. Urgency \in Urgencies
  BY UrgencyType DEF IInv, TypeOK
<1>3. Recommend(old.grade, old.eligibility, Urgency) \in Recommendations
  BY DEF Recommend, Recommendations
<1>4. /\ new \in Rows
      /\ new # old => /\ new.recommendation = Recommend(new.grade, new.eligibility, new.urgency)
                      /\ new.text = old.text /\ new.grade = old.grade
                      /\ new.eligibility = old.eligibility /\ new.kind = old.kind
  BY <1>1, <1>2, <1>3 DEF Rows
<1>5. /\ match' = [match EXCEPT ![m] = Updated(new, old, match[m])]
      /\ crossed' = IF old = match[m] \/ new = old THEN crossed ELSE crossed \cup {m}
      /\ aged' = IF new = old THEN aged ELSE aged \ {m}
      /\ outdated' = IF new.recommendation = old.recommendation THEN outdated
                     ELSE outdated \cup {m}
  BY DEF Reread
<1> HIDE DEF new
<1>6. /\ Updated(new, old, match[m]) \in Rows
      /\ old = match[m] => Updated(new, old, match[m]) = new
      /\ new = old => Updated(new, old, match[m]) = match[m]
  BY <1>1, <1>4, UpdatedRow
<1>7. match'[m] = Updated(new, old, match[m]) /\ \A n \in Matches \ {m} : match'[n] = match[n]
  BY <1>1, <1>5 DEF IInv, TypeOK
<1>8. match' \in [Matches -> Rows \cup {None}]
  BY <1>1, <1>5, <1>6 DEF IInv, TypeOK
<1>9. crossed' \cup aged' \cup outdated' \subseteq Matches
  BY <1>1, <1>5 DEF IInv, TypeOK
<1>10. WhatIsShownFits'
  <2> SUFFICES ASSUME NEW n \in Matches \ crossed', match'[n] # None
               PROVE  LET row == match'[n]
                      IN  /\ row.recommendation = Recommend(row.grade, row.eligibility, row.urgency)
                                \/ n \in aged'
                          /\ <<row.text.grade, row.text.eligibility>> = <<row.grade, row.eligibility>>
                          /\ row.text.recommendation = row.recommendation \/ n \in outdated'
                          /\ row.kind = "llm" <=> row.text.by = "model"
    BY DEF WhatIsShownFits
  <2>0. n \notin crossed
    BY <1>5
  <2>1. CASE n # m
    BY <1>5, <1>7, <2>0, <2>1 DEF IInv, WhatIsShownFits
  <2>2. CASE n = m /\ new = old
    BY <1>5, <1>6, <1>7, <2>0, <2>2 DEF IInv, WhatIsShownFits
  <2>3. CASE n = m /\ new # old
    <3>1. old = match[m] /\ match'[m] = new /\ match[m] # None
      BY <1>1, <1>5, <1>6, <1>7, <2>3, ExplanationsAssumption
    <3>2. /\ <<old.text.grade, old.text.eligibility>> = <<old.grade, old.eligibility>>
          /\ old.text.recommendation = old.recommendation \/ m \in outdated
          /\ old.kind = "llm" <=> old.text.by = "model"
      BY <1>1, <2>0, <2>3, <3>1 DEF IInv, WhatIsShownFits
    <3>3. QED
      BY <1>4, <1>5, <2>3, <3>1, <3>2
  <2>4. QED
    BY <2>1, <2>2, <2>3
<1>11. QED
  BY <1>6, <1>7, <1>8, <1>9, <1>10

LEMMA StoreIInv == ASSUME IInv, NEW m \in Matches, Store(m) PROVE IInv'
<1>1. /\ m \in DOMAIN scoring /\ UNCHANGED <<now, job, runs, spent, paid, caveats>>
      /\ scoring' = [n \in DOMAIN scoring \ {m} |-> scoring[n]]
      /\ Score(m) \/ (scoring[m] # None /\ Reread(m))
  BY DEF Store, Leaves, tokens
<1>2. /\ match' \in [Matches -> Rows \cup {None}]
      /\ match'[m] \in Rows /\ \A n \in Matches \ {m} : match'[n] = match[n]
      /\ crossed' \cup aged' \cup outdated' \subseteq Matches
      /\ WhatIsShownFits'
  BY <1>1, ScoreFits, RereadFits
<1>3. InProgress' = InProgress
  BY <1>1 DEF InProgress
<1>4. \A n \in Matches : match[n] # None => match'[n] # None
  BY <1>2, ExplanationsAssumption
<1>5. TypeOK'
  <2>1. DOMAIN scoring' \subseteq Matches
        /\ \A n \in DOMAIN scoring' : scoring'[n] \in Rows \cup {None}
    BY <1>1 DEF IInv, TypeOK
  <2>2. QED
    BY <1>1, <1>2, <1>3, <2>1 DEF IInv, TypeOK
<1>6. LoadedAreThere'
  BY <1>1, <1>3, <1>4 DEF IInv, TypeOK, LoadedAreThere, InProgress, Tasks, Batch
<1>7. Reckoned' /\ AskedWithin' /\ BudgetHolds'
  BY <1>1, <1>3 DEF IInv, Reckoned, AskedWithin, BudgetHolds
<1>8. QED
  BY <1>2, <1>5, <1>6, <1>7 DEF IInv

LEMMA AgeUrgencyIInv == ASSUME IInv, NEW m \in Matches, AgeUrgency(m) PROVE IInv'
<1>1. /\ match[m] # None /\ match' = [match EXCEPT ![m].urgency = Urgency]
      /\ aged' = aged \cup {m}
      /\ UNCHANGED <<now, scoring, job, runs, crossed, outdated, spent, paid, caveats>>
  BY DEF AgeUrgency, tokens
<1>2. /\ Urgency \in Urgencies /\ match[m] \in Rows
      /\ match \in [Matches -> Rows \cup {None}]
  BY <1>1, UrgencyType DEF IInv, TypeOK
<1>3. /\ match' \in [Matches -> Rows \cup {None}]
      /\ match'[m] = [match[m] EXCEPT !.urgency = Urgency] /\ match'[m] \in Rows
      /\ \A n \in Matches \ {m} : match'[n] = match[n]
  BY <1>1, <1>2 DEF Rows
<1>4. InProgress' = InProgress
  BY <1>1 DEF InProgress
<1>5. \A n \in Matches : match[n] # None => match'[n] # None
  BY <1>3, ExplanationsAssumption
<1>6. TypeOK'
  BY <1>1, <1>3, <1>4 DEF IInv, TypeOK
<1>7. LoadedAreThere'
  BY <1>1, <1>4, <1>5 DEF IInv, TypeOK, LoadedAreThere, InProgress, Tasks
<1>8. WhatIsShownFits'
  BY <1>1, <1>2, <1>3 DEF IInv, WhatIsShownFits, Rows
<1>9. Reckoned' /\ AskedWithin' /\ BudgetHolds'
  BY <1>1, <1>4 DEF IInv, Reckoned, AskedWithin, BudgetHolds
<1>10. QED
  BY <1>6, <1>7, <1>8, <1>9 DEF IInv

(* A step of one job that writes no match keeps what is not about money.   *)
LEMMA JobStep ==
  ASSUME IInv, NEW j \in Jobs, NEW t \in Tasks,
         job' = [job EXCEPT ![j] = t],
         job[j] # None => t.loaded = job[j].loaded,
         t.todo \cup t.wrote \subseteq Batch(t),
         t.asking \in t.todo \cup {None},
         \A m \in Batch(t) : match[m] # None,
         UNCHANGED <<now, scoring, shown>>,
         runs' \in 0..MaxRuns, spent' \in Nat, paid' \in Nat,
         caveats' \subseteq {"overlap", "underrated", "unrecorded"}
  PROVE  /\ InProgress' = InProgress \cup {j}
         /\ job'[j] = t /\ \A k \in Jobs \ {j} : job'[k] = job[k]
         /\ TypeOK' /\ LoadedAreThere' /\ WhatIsShownFits'
<1>1. /\ job'[j] = t /\ \A k \in Jobs \ {j} : job'[k] = job[k]
      /\ job' \in [Jobs -> Tasks \cup {None}] /\ t # None
  BY ExplanationsAssumption DEF IInv, TypeOK
<1>2. InProgress' = InProgress \cup {j}
  BY <1>1 DEF InProgress
<1>3. \A k \in InProgress' :
        /\ job'[k].todo \cup job'[k].wrote \subseteq Batch(job'[k])
        /\ job'[k].asking \in job'[k].todo \cup {None}
  BY <1>1, <1>2 DEF IInv, TypeOK, InProgress
<1>4. UNCHANGED <<match, crossed, aged, outdated>>
  BY DEF shown
<1>5. TypeOK'
  BY <1>1, <1>3, <1>4 DEF IInv, TypeOK
<1>6. LoadedAreThere'
  BY <1>1, <1>2, <1>4 DEF IInv, LoadedAreThere, InProgress
<1>7. WhatIsShownFits'
  BY <1>4 DEF IInv, WhatIsShownFits
<1>8. QED
  BY <1>1, <1>2, <1>5, <1>6, <1>7

LEMMA BeginIInv == ASSUME IInv, NEW j \in Jobs, Begin(j) PROVE IInv'
<1> DEFINE t == [loaded |-> [m \in Matches |-> IF m \in Candidates THEN match[m] ELSE None],
                 todo |-> Candidates, asking |-> None, attempts |-> 0, wrote |-> {}, own |-> 0]
<1>1. /\ job[j] = None /\ job' = [job EXCEPT ![j] = t]
      /\ caveats' = IF InProgress = {} THEN caveats ELSE caveats \cup {"overlap"}
      /\ UNCHANGED <<now, scoring, shown, spent, paid>>
      /\ runs' \in 0..MaxRuns
  BY ExplanationsAssumption DEF Begin, Starts, IInv, TypeOK
<1>2. Candidates \subseteq Matches /\ \A m \in Candidates : match[m] # None /\ match[m] \in Rows
  BY DEF Candidates, IInv, TypeOK
<1>3. t \in Tasks
  BY <1>2, ExplanationsAssumption DEF Tasks
<1>4. /\ InProgress' = InProgress \cup {j}
      /\ job'[j] = t /\ \A k \in Jobs \ {j} : job'[k] = job[k]
      /\ TypeOK' /\ LoadedAreThere' /\ WhatIsShownFits'
  <2> HIDE DEF t
  <2>1. Batch(t) = Candidates /\ t.todo = Candidates /\ t.wrote = {} /\ t.asking = None
    BY <1>2 DEF t, Batch
  <2>2. QED
    BY <1>1, <1>2, <1>3, <2>1, JobStep DEF IInv, TypeOK
<1>5. Reckoned'
  BY <1>1, <1>4 DEF IInv, TypeOK, Reckoned
<1>6. AskedWithin'
  BY <1>1, <1>4 DEF IInv, AskedWithin, InProgress
<1>7. BudgetHolds'
  BY <1>1 DEF IInv, BudgetHolds
<1>8. QED
  BY <1>4, <1>5, <1>6, <1>7 DEF IInv

LEMMA SkipIInv == ASSUME IInv, NEW j \in Jobs, NEW m \in Matches, Skip(j, m) PROVE IInv'
<1> DEFINE t == [job[j] EXCEPT !.todo = @ \ {m}]
<1>1. /\ job[j] # None /\ job[j].asking = None /\ job' = [job EXCEPT ![j] = t]
      /\ UNCHANGED <<now, scoring, runs, shown, spent, paid, caveats>>
  BY DEF Skip, IsNext, tokens, IInv, TypeOK
<1>2. job[j] \in Tasks /\ j \in InProgress
  BY <1>1 DEF IInv, TypeOK, InProgress
<1>3. /\ t \in Tasks /\ t.loaded = job[j].loaded /\ t.wrote = job[j].wrote
      /\ t.todo \subseteq job[j].todo /\ t.asking = None /\ t.own = job[j].own
  BY <1>1, <1>2 DEF Tasks
<1>4. /\ InProgress' = InProgress \cup {j}
      /\ job'[j] = t /\ \A k \in Jobs \ {j} : job'[k] = job[k]
      /\ TypeOK' /\ LoadedAreThere' /\ WhatIsShownFits'
  <2> HIDE DEF t
  <2>1. t.todo \cup t.wrote \subseteq Batch(t) /\ \A n \in Batch(t) : match[n] # None
    BY <1>2, <1>3 DEF IInv, TypeOK, LoadedAreThere, Batch
  <2>2. QED
    BY <1>1, <1>3, <2>1, JobStep DEF IInv, TypeOK
<1> HIDE DEF t
<1>5. Reckoned' /\ AskedWithin' /\ BudgetHolds'
  BY <1>1, <1>2, <1>3, <1>4 DEF IInv, Reckoned, AskedWithin, BudgetHolds
<1>6. QED
  BY <1>4, <1>5 DEF IInv

LEMMA AskIInv == ASSUME IInv, NEW j \in Jobs, NEW m \in Matches, Ask(j, m) PROVE IInv'
<1> DEFINE t == [job[j] EXCEPT !.asking = m]
<1>1. /\ job[j] # None /\ m \in job[j].todo /\ job' = [job EXCEPT ![j] = t]
      /\ UNCHANGED <<now, scoring, runs, shown, spent, paid, caveats>>
      /\ Budget = 0 \/ spent + job[j].own + Estimate < Budget
  BY DEF Ask, IsNext, WithinBudget, tokens, IInv, TypeOK
<1>2. job[j] \in Tasks /\ j \in InProgress
  BY <1>1 DEF IInv, TypeOK, InProgress
<1>3. /\ t \in Tasks /\ t.loaded = job[j].loaded /\ t.wrote = job[j].wrote
      /\ t.todo = job[j].todo /\ t.asking = m /\ t.own = job[j].own /\ t.own \in Nat
  BY <1>1, <1>2 DEF Tasks
<1>4. /\ InProgress' = InProgress \cup {j}
      /\ job'[j] = t /\ \A k \in Jobs \ {j} : job'[k] = job[k]
      /\ TypeOK' /\ LoadedAreThere' /\ WhatIsShownFits'
  <2> HIDE DEF t
  <2>1. t.todo \cup t.wrote \subseteq Batch(t) /\ \A n \in Batch(t) : match[n] # None
    BY <1>2, <1>3 DEF IInv, TypeOK, LoadedAreThere, Batch
  <2>2. QED
    BY <1>1, <1>3, <2>1, JobStep DEF IInv, TypeOK
<1> HIDE DEF t
<1>5. Reckoned' /\ BudgetHolds'
  BY <1>1, <1>2, <1>3, <1>4 DEF IInv, Reckoned, BudgetHolds
<1>6. AskedWithin'
  <2>1. Estimate \in Nat /\ Budget \in Nat /\ spent \in Nat
    BY ExplanationsAssumption DEF IInv, TypeOK
  <2>2. Budget > 0 => Estimate < Budget /\ spent + t.own + Estimate < Budget
    BY <1>1, <1>3, <2>1
  <2>3. QED
    BY <1>1, <1>2, <1>3, <1>4, <2>2 DEF IInv, AskedWithin
<1>7. QED
  BY <1>4, <1>5, <1>6 DEF IInv

LEMMA AttemptFailsIInv == ASSUME IInv, NEW j \in Jobs, AttemptFails(j) PROVE IInv'
<1> DEFINE t == IF job[j].attempts + 1 < MaxAttempts
                THEN [job[j] EXCEPT !.attempts = @ + 1]
                ELSE [job[j] EXCEPT !.attempts = 0, !.asking = None, !.todo = @ \ {job[j].asking}]
<1>1. PICK cost \in Costs \cup {0} :
        /\ job[j] # None /\ job' = [job EXCEPT ![j] = t]
        /\ caveats' = caveats \cup (IF cost = 0 THEN {} ELSE {"unrecorded"})
        /\ paid' = IF caveats' = {} THEN paid + cost ELSE paid
        /\ UNCHANGED <<now, scoring, runs, shown, spent>>
  BY DEF AttemptFails, Pays, IInv, TypeOK
<1>2. job[j] \in Tasks /\ j \in InProgress
  BY <1>1 DEF IInv, TypeOK, InProgress
<1>3. /\ t \in Tasks /\ t.loaded = job[j].loaded /\ t.wrote = job[j].wrote
      /\ t.todo \subseteq job[j].todo /\ t.asking \in t.todo \cup {None}
      /\ t.asking \in {job[j].asking, None} /\ t.own = job[j].own
  <2>1. CASE job[j].attempts + 1 < MaxAttempts
    BY <1>1, <1>2, <2>1, ExplanationsAssumption DEF Tasks, IInv, TypeOK
  <2>2. CASE ~(job[j].attempts + 1 < MaxAttempts)
    <3> DEFINE u == [job[j] EXCEPT !.attempts = 0, !.asking = None,
                                   !.todo = @ \ {job[j].asking}]
    <3>1. u.asking = None /\ u.todo = job[j].todo \ {job[j].asking} /\ u.attempts = 0
      BY <1>2 DEF Tasks
    <3>2. u.loaded = job[j].loaded /\ u.wrote = job[j].wrote /\ u.own = job[j].own
      BY <1>2 DEF Tasks
    <3>3. u \in Tasks
      <4>1. 0 \in 0..(MaxAttempts - 1)
        BY ExplanationsAssumption
      <4>2. job[j].todo \ {job[j].asking} \in SUBSET Matches
        BY <1>2 DEF Tasks
      <4>3. QED
        BY <1>2, <4>1, <4>2 DEF Tasks
    <3>4. t = u
      BY <2>2
    <3>5. QED
      BY <3>1, <3>2, <3>3, <3>4
  <2>3. QED
    BY <2>1, <2>2
<1> HIDE DEF t
<1>4. /\ InProgress' = InProgress \cup {j}
      /\ job'[j] = t /\ \A k \in Jobs \ {j} : job'[k] = job[k]
      /\ TypeOK' /\ LoadedAreThere' /\ WhatIsShownFits'
  <2>1. t.todo \cup t.wrote \subseteq Batch(t) /\ \A n \in Batch(t) : match[n] # None
    BY <1>2, <1>3 DEF IInv, TypeOK, LoadedAreThere, Batch
  <2>2. runs' \in 0..MaxRuns /\ spent' \in Nat /\ paid' \in Nat
        /\ caveats' \subseteq {"overlap", "underrated", "unrecorded"}
    BY <1>1, ExplanationsAssumption DEF IInv, TypeOK
  <2>3. QED
    BY <1>1, <1>3, <2>1, <2>2, JobStep
<1>5. caveats' = {} => caveats = {} /\ paid' = paid
  BY <1>1, ExplanationsAssumption DEF IInv, TypeOK
<1>6. Reckoned' /\ AskedWithin' /\ BudgetHolds'
  BY <1>1, <1>2, <1>3, <1>4, <1>5 DEF IInv, Reckoned, AskedWithin, BudgetHolds
<1>7. QED
  BY <1>4, <1>6 DEF IInv

LEMMA AnswerIInv == ASSUME IInv, NEW j \in Jobs, Answer(j) PROVE IInv'
<1>1. PICK cost \in Costs :
        /\ job[j] # None /\ job[j].asking # None
        /\ job' = [job EXCEPT ![j].wrote = @ \cup {job[j].asking}, ![j].own = @ + cost,
                              ![j].todo = @ \ {job[j].asking}, ![j].asking = None,
                              ![j].attempts = 0]
        /\ caveats' = caveats \cup (IF cost > Estimate THEN {"underrated"} ELSE {})
        /\ paid' = IF caveats' = {} THEN paid + cost ELSE paid
        /\ UNCHANGED <<now, scoring, runs, shown, spent>>
  BY DEF Answer, Pays
<1> DEFINE t == [job[j] EXCEPT !.wrote = @ \cup {job[j].asking}, !.own = @ + cost,
                    !.todo = @ \ {job[j].asking}, !.asking = None, !.attempts = 0]
<1>2. job[j] \in Tasks /\ j \in InProgress /\ job' = [job EXCEPT ![j] = t]
  BY <1>1 DEF IInv, TypeOK, InProgress
<1>3. /\ t \in Tasks /\ t.loaded = job[j].loaded
      /\ t.wrote = job[j].wrote \cup {job[j].asking} /\ t.todo \subseteq job[j].todo
      /\ t.asking = None /\ t.own = job[j].own + cost /\ job[j].own \in Nat
      /\ cost \in Nat
  <2>1. cost \in Nat /\ job[j].own \in Nat /\ job[j].asking \in Matches
    BY <1>1, <1>2, ExplanationsAssumption DEF Tasks
  <2>2. t.wrote = job[j].wrote \cup {job[j].asking} /\ t.todo = job[j].todo \ {job[j].asking}
    BY <1>2 DEF Tasks
  <2>3. t.asking = None /\ t.own = job[j].own + cost /\ t.loaded = job[j].loaded
    BY <1>2 DEF Tasks
  <2>4. t \in Tasks
    <3>1. 0 \in 0..(MaxAttempts - 1)
      BY ExplanationsAssumption
    <3>2. job[j].todo \ {job[j].asking} \in SUBSET Matches
          /\ job[j].wrote \cup {job[j].asking} \in SUBSET Matches
          /\ job[j].own + cost \in Nat
      BY <1>2, <2>1 DEF Tasks
    <3>3. QED
      BY <1>2, <3>1, <3>2 DEF Tasks
  <2>5. QED
    BY <2>1, <2>2, <2>3, <2>4
<1> HIDE DEF t
<1>4. /\ InProgress' = InProgress \cup {j}
      /\ job'[j] = t /\ \A k \in Jobs \ {j} : job'[k] = job[k]
      /\ TypeOK' /\ LoadedAreThere' /\ WhatIsShownFits'
  <2>1. t.todo \cup t.wrote \subseteq Batch(t) /\ \A n \in Batch(t) : match[n] # None
    BY <1>1, <1>2, <1>3 DEF IInv, TypeOK, LoadedAreThere, Batch
  <2>2. runs' \in 0..MaxRuns /\ spent' \in Nat /\ paid' \in Nat
        /\ caveats' \subseteq {"overlap", "underrated", "unrecorded"}
    BY <1>1, <1>3 DEF IInv, TypeOK
  <2>3. QED
    BY <1>1, <1>2, <1>3, <2>1, <2>2, JobStep
<1>5. caveats' = {} => /\ caveats = {} /\ cost <= Estimate /\ paid' = paid + cost
                      /\ spent \in Nat /\ paid \in Nat /\ Estimate \in Nat
  BY <1>1, <1>3, ExplanationsAssumption DEF IInv, TypeOK
<1>6. Reckoned'
  <2> SUFFICES ASSUME caveats' = {}
               PROVE  /\ \A k, l \in InProgress' : k = l
                      /\ InProgress' = {} => paid' = spent'
                      /\ \A k \in InProgress' : paid' = spent' + job'[k].own
    BY DEF Reckoned
  <2>1. paid = spent + job[j].own /\ \A k \in InProgress' : k = j
    BY <1>2, <1>4, <1>5 DEF IInv, Reckoned
  <2>2. paid' = spent' + job'[j].own
    BY <1>1, <1>3, <1>4, <1>5, <2>1
  <2>3. QED
    BY <1>4, <2>1, <2>2
<1>7. AskedWithin'
  BY <1>1, <1>3, <1>4, <1>5 DEF IInv, AskedWithin, Reckoned, InProgress
<1>8. BudgetHolds'
  <2> SUFFICES ASSUME Budget > 0, caveats' = {} PROVE paid' < Budget
    BY <1>1 DEF BudgetHolds
  <2>1. paid = spent + job[j].own /\ spent + job[j].own + Estimate < Budget
    BY <1>1, <1>2, <1>5 DEF IInv, Reckoned, AskedWithin
  <2>2. QED
    BY <1>3, <1>5, <2>1, ExplanationsAssumption
<1>9. QED
  BY <1>4, <1>6, <1>7, <1>8 DEF IInv

LEMMA CommitIInv == ASSUME IInv, NEW j \in Jobs, Commit(j) PROVE IInv'
<1> DEFINE loaded == job[j].loaded
           wrote == job[j].wrote
           text(m) == [match[m] EXCEPT !.kind = "llm", !.text = Text("model", loaded[m])]
<1>1. /\ job[j] # None
      /\ match' = [m \in Matches |-> IF m \in wrote THEN text(m) ELSE match[m]]
      /\ crossed' = crossed \cup {m \in wrote : match[m] # loaded[m]}
      /\ outdated' = outdated \ {m \in wrote : match[m] = loaded[m]}
      /\ spent' = spent + job[j].own
      /\ job' = [job EXCEPT ![j] = None]
      /\ UNCHANGED <<now, scoring, runs, aged, paid, caveats>>
  BY DEF Commit
<1>2. job[j] \in Tasks /\ j \in InProgress /\ job[j].own \in Nat /\ wrote \subseteq Matches
  BY <1>1 DEF IInv, TypeOK, InProgress, Tasks
<1>3. ASSUME NEW m \in wrote
      PROVE  /\ loaded[m] \in Rows /\ match[m] \in Rows /\ text(m) \in Rows
             /\ text(m).grade = match[m].grade /\ text(m).eligibility = match[m].eligibility
             /\ text(m).urgency = match[m].urgency
             /\ text(m).recommendation = match[m].recommendation
             /\ text(m).kind = "llm" /\ text(m).text = Text("model", loaded[m])
  <2>1. m \in Batch(job[j]) /\ loaded[m] \in Rows /\ match[m] \in Rows
    BY <1>2 DEF IInv, TypeOK, LoadedAreThere, Tasks, Batch
  <2>2. Text("model", loaded[m]) \in
          [by : {"template", "model"}, grade : Grades, eligibility : Eligibilities,
           recommendation : Recommendations]
    BY <2>1 DEF Rows, Text
  <2>3. QED
    BY <2>1, <2>2 DEF Rows
<1> HIDE DEF text
<1>4. /\ match' \in [Matches -> Rows \cup {None}]
      /\ \A m \in Matches : match[m] # None => match'[m] # None
  BY <1>1, <1>3, ExplanationsAssumption DEF IInv, TypeOK
<1>5. InProgress' = InProgress \ {j} /\ \A k \in Jobs \ {j} : job'[k] = job[k]
  BY <1>1 DEF IInv, TypeOK, InProgress
<1>6. TypeOK'
  <2>1. /\ job' \in [Jobs -> Tasks \cup {None}] /\ {spent', paid'} \subseteq Nat
        /\ crossed' \cup aged' \cup outdated' \subseteq Matches
    BY <1>1, <1>2 DEF IInv, TypeOK
  <2>2. \A k \in InProgress' :
          /\ job'[k].todo \cup job'[k].wrote \subseteq Batch(job'[k])
          /\ job'[k].asking \in job'[k].todo \cup {None}
    BY <1>5 DEF IInv, TypeOK, InProgress
  <2>3. QED
    BY <1>1, <1>4, <2>1, <2>2 DEF IInv, TypeOK
<1>7. LoadedAreThere'
  BY <1>1, <1>4, <1>5 DEF IInv, TypeOK, LoadedAreThere, InProgress, Tasks, Batch
<1>8. WhatIsShownFits'
  <2> SUFFICES ASSUME NEW m \in Matches \ crossed', match'[m] # None
               PROVE  LET row == match'[m]
                      IN  /\ row.recommendation = Recommend(row.grade, row.eligibility, row.urgency)
                                \/ m \in aged'
                          /\ <<row.text.grade, row.text.eligibility>> = <<row.grade, row.eligibility>>
                          /\ row.text.recommendation = row.recommendation \/ m \in outdated'
                          /\ row.kind = "llm" <=> row.text.by = "model"
    BY DEF WhatIsShownFits
  <2>1. CASE m \in wrote
    <3>1. match[m] = loaded[m] /\ m \notin crossed /\ match[m] # None
      BY <1>1, <1>3, <2>1, ExplanationsAssumption
    <3>2. match'[m] = text(m)
      BY <1>1, <2>1
    <3>3. match[m].recommendation =
            Recommend(match[m].grade, match[m].eligibility, match[m].urgency) \/ m \in aged
      BY <3>1 DEF IInv, WhatIsShownFits
    <3>4. /\ text(m).text.grade = match[m].grade
          /\ text(m).text.eligibility = match[m].eligibility
          /\ text(m).text.recommendation = match[m].recommendation
          /\ text(m).text.by = "model"
      <4>1. text(m).text = Text("model", loaded[m])
        BY <1>3, <2>1
      <4>2. text(m).text = Text("model", match[m])
        BY <4>1, <3>1
      <4>3. QED
        BY <4>2 DEF Text
    <3>5. /\ match'[m].grade = match[m].grade /\ match'[m].eligibility = match[m].eligibility
          /\ match'[m].urgency = match[m].urgency
          /\ match'[m].recommendation = match[m].recommendation
          /\ match'[m].kind = "llm"
      BY <1>3, <2>1, <3>2
    <3>6. /\ match'[m].text.grade = match[m].grade
          /\ match'[m].text.eligibility = match[m].eligibility
          /\ match'[m].text.recommendation = match[m].recommendation
          /\ match'[m].text.by = "model"
      BY <3>2, <3>4
    <3>7. aged' = aged
      BY <1>1
    <3>8. match'[m].recommendation =
            Recommend(match'[m].grade, match'[m].eligibility, match'[m].urgency) \/ m \in aged'
      BY <3>3, <3>5, <3>7
    <3>9. QED
      BY <3>5, <3>6, <3>8
  <2>2. CASE m \notin wrote
    BY <1>1, <2>2 DEF IInv, WhatIsShownFits
  <2>3. QED
    BY <2>1, <2>2
<1>9. Reckoned'
  BY <1>1, <1>2, <1>5 DEF IInv, Reckoned
<1>10. AskedWithin'
  BY <1>1, <1>2, <1>5 DEF IInv, AskedWithin, Reckoned, InProgress
<1>11. BudgetHolds'
  BY <1>1 DEF IInv, BudgetHolds
<1>12. QED
  BY <1>6, <1>7, <1>8, <1>9, <1>10, <1>11 DEF IInv

LEMMA DieIInv == ASSUME IInv, NEW j \in Jobs, Die(j) PROVE IInv'
<1>1. /\ job[j] # None /\ job' = [job EXCEPT ![j] = None]
      /\ caveats' = IF job[j].own = 0 THEN caveats ELSE caveats \cup {"unrecorded"}
      /\ UNCHANGED <<now, scoring, runs, match, crossed, aged, outdated, spent, paid>>
  BY DEF Die, shown
<1>2. /\ InProgress' = InProgress \ {j} /\ j \in InProgress
      /\ \A k \in Jobs \ {j} : job'[k] = job[k]
  BY <1>1 DEF IInv, TypeOK, InProgress
<1>3. TypeOK'
  <2>1. /\ job' \in [Jobs -> Tasks \cup {None}]
        /\ caveats' \subseteq {"overlap", "underrated", "unrecorded"}
    BY <1>1 DEF IInv, TypeOK
  <2>2. \A k \in InProgress' :
          /\ job'[k].todo \cup job'[k].wrote \subseteq Batch(job'[k])
          /\ job'[k].asking \in job'[k].todo \cup {None}
    BY <1>2 DEF IInv, TypeOK, InProgress
  <2>3. QED
    BY <1>1, <2>1, <2>2 DEF IInv, TypeOK
<1>4. LoadedAreThere' /\ WhatIsShownFits'
  BY <1>1, <1>2 DEF IInv, LoadedAreThere, WhatIsShownFits, InProgress
<1>5. caveats' = {} => caveats = {} /\ job[j].own = 0
  BY <1>1
<1>6. Reckoned'
  BY <1>1, <1>2, <1>5 DEF IInv, TypeOK, Reckoned
<1>7. AskedWithin' /\ BudgetHolds'
  BY <1>1, <1>2, <1>5 DEF IInv, AskedWithin, BudgetHolds, InProgress
<1>8. QED
  BY <1>3, <1>4, <1>6, <1>7 DEF IInv

LEMMA StepIInv == IInv /\ [Next]_vars => IInv'
<1> SUFFICES ASSUME IInv, [Next]_vars PROVE IInv'
  OBVIOUS
<1>1. CASE Tick
  BY <1>1, TickIInv
<1>2. CASE \E m \in Matches : Load(m) \/ Store(m) \/ AgeUrgency(m)
  BY <1>2, LoadIInv, StoreIInv, AgeUrgencyIInv
<1>3. CASE \E j \in Jobs : Begin(j) \/ AttemptFails(j) \/ Answer(j) \/ Commit(j) \/ Die(j)
  BY <1>3, BeginIInv, AttemptFailsIInv, AnswerIInv, CommitIInv, DieIInv
<1>4. CASE \E j \in Jobs, m \in Matches : Skip(j, m) \/ Ask(j, m)
  BY <1>4, SkipIInv, AskIInv
<1>5. CASE UNCHANGED vars
  BY <1>5 DEF IInv, TypeOK, LoadedAreThere, WhatIsShownFits, Reckoned, AskedWithin, BudgetHolds,
              InProgress, vars, shown, tokens
<1>6. QED
  BY <1>1, <1>2, <1>3, <1>4, <1>5 DEF Next

-----------------------------------------------------------------------------
(* Matches that are scored, aged and explained at once, and the tokens     *)
(* they cost, keep to the invariant (matching/service.py, explanations.py, *)
(* ai_usage.py).                                                           *)
THEOREM ExplanationsInductive == Spec => []IInv
<1>1. Init => IInv
  BY InitIInv
<1>2. IInv /\ [Next]_vars => IInv'
  BY StepIInv
<1>3. QED
  BY <1>1, <1>2, PTL DEF Spec

(* Every variable keeps its type.                                          *)
THEOREM ExplanationsTypeCorrect == Spec => []TypeOK
<1>1. IInv => TypeOK
  BY DEF IInv
<1>2. QED
  BY <1>1, ExplanationsInductive, PTL

(* What is shown beside a match belongs together, but for the exceptions   *)
(* the property names (ai/explanation.py:9).                               *)
THEOREM ShownTogetherFits == Spec => []WhatIsShownFits
<1>1. IInv => WhatIsShownFits
  BY DEF IInv
<1>2. QED
  BY <1>1, ExplanationsInductive, PTL

(* No day's calls pass the budget (ai_usage.py:1), but for what the        *)
(* property says the budget does not reckon with.                          *)
THEOREM BudgetIsKept == Spec => []BudgetHolds
<1>1. IInv => BudgetHolds
  BY DEF IInv
<1>2. QED
  BY <1>1, ExplanationsInductive, PTL

=============================================================================
