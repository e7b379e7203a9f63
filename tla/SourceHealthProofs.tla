------------------------- MODULE SourceHealthProofs -------------------------
(***************************************************************************)
(* Theorems about module SourceHealth, for every threshold and every bound *)
(* on runs, faults and switches.  The invariant adds to the properties     *)
(* which row is still open, what the job must have left behind at each of  *)
(* its stages, and that a source is called down for its failures alone.    *)
(***************************************************************************)
EXTENDS SourceHealth, FiniteSetTheorems, SequenceTheorems, TLAPS

Rows == [end : Ends, scraper : Statuses \cup {None}, tracked : Statuses \cup {None}]

(* A run that goes on is the latest, and the job is at it. *)
OpenIsLatest ==
    /\ job \in {"scraping", "closing"} => Latest > 0
    /\ job = "scraping" <=> \E i \in DOMAIN runs : runs[i].end = "running"
    /\ \A i \in DOMAIN runs : runs[i].end = "running" =>
        i = Latest /\ runs[i].scraper = "running"
    /\ Live => runs[Latest].tracked \in {"running", None}
    /\ job = "closing" => runs[Latest].end # "cut"
    /\ \A i \in DOMAIN runs : runs[i].scraper = "running" =>
        runs[i].end \in {"running", "cut", "unrecorded"}

DownIsFailures == health = "down" => streak >= DownAfter

QuietWhileMarking == marking /\ ~overtaken => health = "ok" /\ lastSuccess = StaleAfter + 1

IInv ==
    /\ TypeOK /\ Latest <= MaxRuns
    /\ OpenIsLatest /\ RowsTellTruth
    /\ HealthFollows /\ DownIsFailures /\ QuietWhileMarking
    /\ OutagesAreAlerted

-----------------------------------------------------------------------------
(* Counting runs.                                                          *)

LEMMA DownAfterIsPositive == DownAfter \in Nat /\ DownAfter > 0 /\ StaleAfter \in Nat /\ StaleAfter > 0
BY SourceHealthAssumption

LEMMA BoundsAreNat ==
    MaxRuns \in Nat /\ MaxTicks \in Nat /\ MaxFaults \in Nat /\ MaxSwitches \in Nat
BY SourceHealthAssumption

LEMMA NoneIsNoStatus == None \notin Statuses /\ None # "running" /\ None \notin Good /\ None # "failed"
BY SourceHealthAssumption DEF Statuses, Good

(* A set of executions is finite, and no larger than the record. *)
LEMMA CountOfRuns ==
    ASSUME runs \in Seq(Rows), Latest <= MaxRuns, NEW S, S \subseteq DOMAIN runs
    PROVE  IsFiniteSet(S) /\ Cardinality(S) \in 0..MaxRuns /\ Cardinality(S) <= Latest
<1>1. DOMAIN runs = 1..Latest /\ Latest \in Nat
  BY DEF Latest
<1>2. IsFiniteSet(1..Latest) /\ Cardinality(1..Latest) = Latest
  BY <1>1, FS_Interval
<1>3. IsFiniteSet(S) /\ Cardinality(S) <= Latest /\ Cardinality(S) \in Nat
  BY <1>1, <1>2, FS_Subset, FS_CardinalityType
<1>4. QED
  BY <1>1, <1>3, BoundsAreNat

LEMMA Counted ==
    ASSUME IInv
    PROVE  /\ Recoveries \in 0..MaxRuns
           /\ \A ends : IsFiniteSet(EndedBy(ends)) /\ Cardinality(EndedBy(ends)) \in 0..Latest
<1>1. runs \in Seq(Rows) /\ Latest <= MaxRuns
  BY DEF IInv, TypeOK, Rows
<1>2. Recoveries \in 0..MaxRuns
  <2>1. {i \in DOMAIN runs : runs[i].end \in Good} \subseteq DOMAIN runs
    OBVIOUS
  <2>2. QED
    BY <1>1, <2>1, CountOfRuns DEF Recoveries
<1>3. ASSUME NEW ends
      PROVE  IsFiniteSet(EndedBy(ends)) /\ Cardinality(EndedBy(ends)) \in 0..Latest
  <2>1. EndedBy(ends) \subseteq DOMAIN runs
    BY DEF EndedBy, InOutage
  <2>2. Cardinality(EndedBy(ends)) \in 0..MaxRuns /\ Cardinality(EndedBy(ends)) <= Latest
    BY <1>1, <2>1, CountOfRuns
  <2>3. Latest \in Nat
    BY <1>1 DEF Latest
  <2>4. QED
    BY <1>1, <2>1, <2>2, <2>3, CountOfRuns, BoundsAreNat
<1>4. QED
  BY <1>2, <1>3

(* A step that leaves the record of runs and the health alone.             *)
LEMMA HealthStays ==
    ASSUME HealthFollows, UNCHANGED <<runs, streak, health>>, overtaken' = overtaken,
           lastSuccess = StaleAfter + 1 => lastSuccess' = StaleAfter + 1
    PROVE  HealthFollows'
<1>1. EndedBy({"failed"})' = EndedBy({"failed"})
  BY DEF EndedBy, InOutage
<1>2. QED
  BY <1>1 DEF HealthFollows

(* A step that changes what no failure and no good run depend on.          *)
LEMMA HealthStaysWithRuns ==
    ASSUME HealthFollows, runs \in Seq(Rows), runs' \in Seq(Rows), UNCHANGED source,
           overtaken' = overtaken, DOMAIN runs \subseteq DOMAIN runs',
           \A i \in DOMAIN runs' \ DOMAIN runs : runs'[i].end \notin Good \cup {"failed"},
           \A i \in DOMAIN runs :
               \/ runs'[i].end = runs[i].end
               \/ {runs'[i].end, runs[i].end} \cap (Good \cup {"failed"}) = {}
    PROVE  HealthFollows'
<1>1. /\ DOMAIN runs = 1..Len(runs) /\ Len(runs) \in Nat
      /\ DOMAIN runs' = 1..Len(runs') /\ Len(runs') \in Nat
  OBVIOUS
<1>2. \A i \in DOMAIN runs : runs'[i].end \in Good <=> runs[i].end \in Good
  OBVIOUS
<1>3. \A i \in DOMAIN runs' \ DOMAIN runs : runs'[i].end \notin Good
  OBVIOUS
<1>4. \A i \in DOMAIN runs : i \in InOutage' <=> i \in InOutage
  BY <1>1, <1>2, <1>3 DEF InOutage
<1>5. EndedBy({"failed"})' = EndedBy({"failed"})
  <2>1. \A i \in DOMAIN runs : i \in EndedBy({"failed"})' <=> i \in EndedBy({"failed"})
    BY <1>4 DEF EndedBy
  <2>2. EndedBy({"failed"})' \subseteq DOMAIN runs
    BY DEF EndedBy, InOutage
  <2>3. EndedBy({"failed"}) \subseteq DOMAIN runs
    BY DEF EndedBy, InOutage
  <2>4. QED
    BY <2>1, <2>2, <2>3
<1>6. QED
  BY <1>5 DEF HealthFollows, source

(* What is known of the record when one row of it has changed, or a new    *)
(* one is there.                                                           *)
LEMMA LatestChanges ==
    ASSUME runs \in Seq(Rows), Latest > 0, NEW row \in Rows,
           runs' = [runs EXCEPT ![Latest] = row]
    PROVE  /\ runs' \in Seq(Rows) /\ Latest' = Latest /\ DOMAIN runs' = DOMAIN runs
           /\ Latest \in DOMAIN runs /\ Latest \in Nat /\ runs'[Latest] = row
           /\ \A i \in DOMAIN runs : i # Latest => runs'[i] = runs[i]
<1>1. Latest \in 1..Len(runs) /\ DOMAIN runs = 1..Len(runs)
  BY DEF Latest
<1>2. runs' \in Seq(Rows) /\ Len(runs') = Len(runs)
  BY <1>1, ExceptSeq
<1>3. DOMAIN runs' = DOMAIN runs
  BY <1>1, <1>2
<1>4. QED
  BY <1>1, <1>2, <1>3 DEF Latest

LEMMA LatestArrives ==
    ASSUME runs \in Seq(Rows), NEW row \in Rows, runs' = Append(runs, row)
    PROVE  /\ runs' \in Seq(Rows) /\ Latest' = Latest + 1 /\ Latest \in Nat
           /\ DOMAIN runs = 1..Latest /\ DOMAIN runs' = 1..(Latest + 1)
           /\ runs'[Latest + 1] = row
           /\ \A i \in DOMAIN runs : runs'[i] = runs[i]
BY DEF Latest

LEMMA RowOf ==
    ASSUME IInv, NEW i \in DOMAIN runs
    PROVE  runs[i] \in Rows /\ runs[i].end \in Ends /\ runs[i].scraper \in Statuses \cup {None}
           /\ runs[i].tracked \in Statuses \cup {None}
<1>1. runs \in Seq(Rows)
  BY DEF IInv, TypeOK, Rows
<1>2. runs[i] \in Rows
  BY <1>1
<1>3. QED
  BY <1>2 DEF Rows

(* The exceptions of an outage go on being exceptions.                     *)
LEMMA AlertsStay ==
    ASSUME OutagesAreAlerted, alerts' = alerts, unalerted' = unalerted,
           overtaken => overtaken'
    PROVE  OutagesAreAlerted'
BY DEF OutagesAreAlerted

-----------------------------------------------------------------------------
(* The actions.                                                            *)

LEMMA InitIInv == ASSUME Init PROVE IInv
<1>1. Latest = 0 /\ DOMAIN runs = {} /\ runs \in Seq(Rows)
  BY DEF Init, Latest
<1>2. TypeOK
  <2>1. streak \in 0..MaxRuns /\ ticks \in 0..MaxTicks /\ faults \in 0..MaxFaults
        /\ switches \in 0..MaxSwitches
    BY BoundsAreNat DEF Init
  <2>2. runs \in Seq([end : Ends, scraper : Statuses \cup {None}, tracked : Statuses \cup {None}])
    BY <1>1 DEF Rows
  <2>3. enabled \in BOOLEAN /\ overtaken \in BOOLEAN /\ marking \in BOOLEAN
    BY DEF Init
  <2>4. QED
    BY <2>1, <2>2, <2>3 DEF Init, TypeOK
<1>3. OpenIsLatest /\ RowsTellTruth
  BY <1>1 DEF Init, OpenIsLatest, RowsTellTruth, Live
<1>4. HealthFollows
  <2>1. EndedBy({"failed"}) = {}
    BY <1>1 DEF EndedBy, InOutage
  <2>2. QED
    BY <2>1, FS_EmptySet DEF Init, HealthFollows
<1>5. QED
  BY <1>1, <1>2, <1>3, <1>4, BoundsAreNat
  DEF Init, IInv, DownIsFailures, QuietWhileMarking, OutagesAreAlerted

LEMMA TickIInv == ASSUME IInv, Tick PROVE IInv'
<1>1. Latest' = Latest /\ runs' = runs /\ job' = job
  BY DEF Tick, Latest
<1>2. /\ lastSuccess' \in 0..(StaleAfter + 1) \cup {None}
      /\ lastSuccess = StaleAfter + 1 => lastSuccess' = StaleAfter + 1
  <2>1. CASE lastSuccess \in 0..StaleAfter
    BY <2>1, DownAfterIsPositive DEF Tick
  <2>2. CASE lastSuccess \notin 0..StaleAfter
    BY <2>2 DEF Tick, IInv, TypeOK
  <2>3. QED
    BY <2>1, <2>2
<1>3. TypeOK'
  BY <1>1, <1>2, BoundsAreNat DEF Tick, IInv, TypeOK
<1>4. HealthFollows'
  BY <1>1, <1>2, HealthStays DEF Tick, IInv
<1>5. OpenIsLatest' /\ RowsTellTruth' /\ DownIsFailures'
  BY <1>1 DEF Tick, IInv, OpenIsLatest, RowsTellTruth, DownIsFailures, Live
<1>6. QuietWhileMarking' /\ OutagesAreAlerted'
  BY <1>2, AlertsStay DEF Tick, IInv, QuietWhileMarking
<1>7. QED
  BY <1>1, <1>3, <1>4, <1>5, <1>6 DEF IInv

(* The steps that leave the record and the health alone, and the job at    *)
(* the same side of a run.                                                 *)
LEMMA SourceStepIInv ==
    ASSUME IInv, UNCHANGED <<streak, health, lastSuccess, age, runs, alerts, faults, ticks,
                             overtaken, unalerted>>,
           enabled' \in BOOLEAN, switches' \in 0..MaxSwitches,
           job' \in {"none", "queued", "scraping", "closing", "kept"},
           job' = job \/ (~Live /\ ~Live'),
           marking' = marking \/ marking' = FALSE \/ (marking' = TRUE /\ GoneQuiet)
    PROVE  IInv'
<1>1. Latest' = Latest /\ (job' = "scraping" <=> job = "scraping") /\ (Live' <=> Live)
      /\ (job' = "closing" <=> job = "closing")
  BY DEF Latest, Live
<1>2. TypeOK'
  BY DEF IInv, TypeOK
<1>3. OpenIsLatest' /\ RowsTellTruth' /\ DownIsFailures'
  BY <1>1 DEF IInv, OpenIsLatest, RowsTellTruth, DownIsFailures
<1>4. QuietWhileMarking'
  BY DEF IInv, QuietWhileMarking, GoneQuiet
<1>5. HealthFollows' /\ OutagesAreAlerted'
  BY HealthStays, AlertsStay DEF IInv
<1>6. QED
  BY <1>1, <1>2, <1>3, <1>4, <1>5 DEF IInv

LEMMA QuietStepsIInv ==
    ASSUME IInv, Switch \/ Dispatch \/ EnqueueScrape \/ ExpireResult \/ MarkRead
    PROVE  IInv'
<1>1. CASE Switch
  <2>1. switches' \in 0..MaxSwitches /\ enabled' \in BOOLEAN
    BY <1>1, BoundsAreNat DEF Switch, IInv, TypeOK
  <2>2. QED
    BY <1>1, <2>1, SourceStepIInv DEF Switch, IInv, TypeOK
<1>2. CASE Dispatch \/ EnqueueScrape
  BY <1>2, SourceStepIInv DEF Dispatch, EnqueueScrape, Enqueued, source, bounds, Live, IInv, TypeOK
<1>3. CASE ExpireResult
  BY <1>3, SourceStepIInv DEF ExpireResult, source, bounds, Live, IInv, TypeOK
<1>4. CASE MarkRead
  BY <1>4, SourceStepIInv DEF MarkRead, source, bounds, Live, IInv, TypeOK
<1>5. QED
  BY <1>1, <1>2, <1>3, <1>4

(* A run begins.                                                           *)
LEMMA BeginIInv == ASSUME IInv, Begin PROVE IInv'
<1>1. PICK row \in {"running", None} :
        /\ runs' = Append(runs, [end |-> IF enabled THEN "running" ELSE "disabled",
                                 scraper |-> IF enabled THEN "running" ELSE None,
                                 tracked |-> row])
        /\ faults' \in {faults, faults + 1} /\ faults' \in 0..MaxFaults
  BY BoundsAreNat DEF Begin, Fault, IInv, TypeOK
<1> DEFINE new == [end |-> IF enabled THEN "running" ELSE "disabled",
                   scraper |-> IF enabled THEN "running" ELSE None, tracked |-> row]
<1>2. /\ new \in Rows /\ new.tracked \in {"running", None}
      /\ new.end \in {"running", "disabled"} /\ new.scraper \in {"running", None}
      /\ enabled => new.end = "running" /\ new.scraper = "running"
      /\ ~enabled => new.end = "disabled" /\ new.scraper = None
  BY <1>1 DEF Rows, Ends, Statuses
<1>3. runs' = Append(runs, new)
  BY <1>1
<1> HIDE DEF new
<1>4. /\ runs \in Seq(Rows) /\ runs' \in Seq(Rows) /\ Latest' = Latest + 1 /\ Latest \in Nat
      /\ DOMAIN runs = 1..Latest /\ DOMAIN runs' = 1..(Latest + 1)
      /\ runs'[Latest'] = new
      /\ \A i \in DOMAIN runs : runs'[i] = runs[i]
  BY <1>2, <1>3, LatestArrives DEF IInv, TypeOK, Rows
<1>5. /\ job = "queued" /\ Latest < MaxRuns /\ age' = 0 /\ enabled \in BOOLEAN
      /\ job' = IF enabled THEN "scraping" ELSE "closing"
      /\ UNCHANGED <<source, marking, alerts, ticks, switches, overtaken, unalerted>>
  BY DEF Begin, IInv, TypeOK
<1>6. TypeOK' /\ Latest' <= MaxRuns
  <2>1. runs' \in Seq([end : Ends, scraper : Statuses \cup {None},
                       tracked : Statuses \cup {None}])
    BY <1>4 DEF Rows
  <2>2. Latest' <= MaxRuns
    BY <1>4, <1>5, BoundsAreNat
  <2>3. QED
    BY <1>1, <1>5, <2>1, <2>2 DEF source, IInv, TypeOK
<1>7. \A i \in DOMAIN runs : runs[i].end # "running" /\ i # Latest'
                             /\ (runs[i].scraper = "running" => runs[i].end \in {"cut", "unrecorded"})
  BY <1>4, <1>5 DEF IInv, OpenIsLatest
<1>8. DOMAIN runs' = DOMAIN runs \cup {Latest'} /\ Latest' \in DOMAIN runs'
  BY <1>4
<1>9. OpenIsLatest'
  <2>1. /\ Latest' > 0 /\ (Live' => new.tracked \in {"running", None}) /\ new.end # "cut"
        /\ new.end = "running" <=> enabled
        /\ new.end = "running" => new.scraper = "running"
        /\ new.scraper = "running" => new.end = "running"
    BY <1>2, <1>4, <1>5, NoneIsNoStatus
  <2>2. job' = "scraping" <=> enabled
    BY <1>5
  <2>3. \A i \in DOMAIN runs' :
          \/ i = Latest' /\ runs'[i] = new
          \/ /\ runs'[i].end # "running"
             /\ runs'[i].scraper = "running" => runs'[i].end \in {"cut", "unrecorded"}
    BY <1>4, <1>7, <1>8
  <2>4. QED
    BY <1>4, <1>8, <2>1, <2>2, <2>3 DEF OpenIsLatest
<1>10. RowsTellTruth'
  <2>1. ASSUME NEW i \in DOMAIN runs
        PROVE  /\ runs[i].scraper \in Statuses \ {"running"} => runs[i].scraper = runs[i].end
               /\ runs[i].tracked \in Good => runs[i].end = runs[i].tracked
               /\ runs[i].tracked = "failed" => runs[i].end \in {"failed", "unrecorded", "disabled"}
               /\ runs[i].tracked = "running" => faults' > 0
    <3>1. ~Live
      BY <1>5 DEF Live
    <3>2. QED
      BY <1>1, <3>1 DEF IInv, TypeOK, RowsTellTruth
  <2>2. Live'
    BY <1>5 DEF Live
  <2>3. /\ new.scraper \in Statuses \ {"running"} => new.scraper = new.end
        /\ new.tracked \notin Good \cup {"failed"}
    BY <1>2, NoneIsNoStatus DEF Good, Statuses
  <2>4. QED
    BY <1>4, <1>7, <1>8, <2>1, <2>2, <2>3 DEF RowsTellTruth
<1>11. HealthFollows'
  <2>1. \A i \in DOMAIN runs' \ DOMAIN runs : runs'[i].end \notin Good \cup {"failed"}
    BY <1>2, <1>4, <1>8 DEF Good
  <2>2. QED
    BY <1>4, <1>5, <1>8, <2>1, HealthStaysWithRuns DEF IInv
<1>12. DownIsFailures' /\ QuietWhileMarking' /\ OutagesAreAlerted'
  BY <1>5, AlertsStay DEF source, IInv, DownIsFailures, QuietWhileMarking
<1>13. QED
  BY <1>6, <1>9, <1>10, <1>11, <1>12 DEF IInv

(* The last transaction of a run. *)
LEMMA RecordIInv ==
    ASSUME IInv, NEW status \in Statuses \ {"running"}, Record(status) PROVE IInv'
<1> DEFINE new == [runs[Latest] EXCEPT !.end = status, !.scraper = status]
<1>1. /\ job = "scraping" /\ job' = "closing" /\ overtaken' = (overtaken \/ marking)
      /\ runs' = [runs EXCEPT ![Latest] = new]
      /\ RecordHealth(status # "failed")
      /\ UNCHANGED <<enabled, age, marking, alerts, bounds, unalerted>>
  BY DEF Record
<1>2. /\ runs \in Seq(Rows) /\ Latest > 0 /\ Latest \in DOMAIN runs /\ Latest \in Nat
      /\ DOMAIN runs = 1..Latest
  BY <1>1 DEF IInv, TypeOK, Rows, OpenIsLatest, Latest
<1>3. /\ runs[Latest].end = "running" /\ runs[Latest].tracked \in {"running", None}
      /\ runs[Latest] \in Rows
  BY <1>1, <1>2, RowOf DEF IInv, OpenIsLatest, Live
<1>4. /\ new \in Rows /\ new.end = status /\ new.scraper = status
      /\ new.tracked = runs[Latest].tracked
  BY <1>3 DEF Rows, Ends
<1> HIDE DEF new
<1>5. /\ runs' \in Seq(Rows) /\ Latest' = Latest /\ DOMAIN runs' = DOMAIN runs
      /\ runs'[Latest] = new
      /\ \A i \in DOMAIN runs : i # Latest => runs'[i] = runs[i]
  BY <1>1, <1>2, <1>4, LatestChanges
<1>6. \A i \in DOMAIN runs : i # Latest => runs[i].end # "running"
  BY DEF IInv, OpenIsLatest
<1>7. OpenIsLatest'
  <2>1. \A i \in DOMAIN runs' : runs'[i].end # "running"
    BY <1>4, <1>5, <1>6
  <2>2. \A i \in DOMAIN runs' :
          runs'[i].scraper = "running" => runs'[i].end \in {"running", "cut", "unrecorded"}
    BY <1>4, <1>5 DEF IInv, OpenIsLatest
  <2>3. new.end # "cut"
    BY <1>4 DEF Statuses
  <2>4. QED
    BY <1>1, <1>2, <1>3, <1>4, <1>5, <2>1, <2>2, <2>3 DEF OpenIsLatest
<1>8. RowsTellTruth'
  <2>1. Live' /\ (Live <=> TRUE) /\ faults' = faults
    BY <1>1 DEF Live, bounds
  <2>2. new.tracked \notin Good \cup {"failed"}
    BY <1>3, <1>4, NoneIsNoStatus DEF Good
  <2>3. QED
    BY <1>4, <1>5, <2>1, <2>2 DEF IInv, RowsTellTruth
<1>9. CASE status = "failed"
  <2>1. \A i \in DOMAIN runs : runs'[i].end \in Good <=> runs[i].end \in Good
    BY <1>3, <1>4, <1>5, <1>9 DEF Good
  <2>2. InOutage' = InOutage /\ Latest \in InOutage
    BY <1>2, <1>3, <1>5, <2>1 DEF InOutage, Latest, Good
  <2>3. EndedBy({"failed"})' = EndedBy({"failed"}) \cup {Latest} /\ Latest \notin EndedBy({"failed"})
    BY <1>3, <1>4, <1>5, <1>9, <2>2 DEF EndedBy, InOutage
  <2>4. /\ IsFiniteSet(EndedBy({"failed"})) /\ streak = Cardinality(EndedBy({"failed"}))
        /\ streak \in Nat
    BY <1>2, Counted DEF IInv, HealthFollows
  <2>5. Cardinality(EndedBy({"failed"})') = streak + 1
    BY <2>3, <2>4, FS_AddElement
  <2>6. streak' = streak + 1 /\ health' = HealthAfter(streak + 1) /\ lastSuccess' = lastSuccess
    BY <1>1, <1>9 DEF RecordHealth
  <2>7. HealthFollows'
    BY <2>4, <2>5, <2>6, DownAfterIsPositive DEF HealthFollows, HealthAfter
  <2>8. DownIsFailures'
    BY <2>6 DEF DownIsFailures, HealthAfter
  <2>9. streak' <= MaxRuns /\ streak' \in Nat
    <3>1. EndedBy({"failed"})' \subseteq DOMAIN runs'
      BY DEF EndedBy, InOutage
    <3>2. IsFiniteSet(1..Latest) /\ Cardinality(1..Latest) = Latest
      BY <1>2, FS_Interval
    <3>3. Cardinality(EndedBy({"failed"})') <= Latest
      BY <1>2, <1>5, <3>1, <3>2, FS_Subset
    <3>4. QED
      BY <1>2, <2>4, <2>5, <2>6, <3>3, BoundsAreNat DEF IInv
  <2>10. TypeOK'
    <3>1. runs' \in Seq([end : Ends, scraper : Statuses \cup {None},
                         tracked : Statuses \cup {None}])
      BY <1>5 DEF Rows
    <3>2. health' \in {"ok", "degraded", "down"}
      BY <2>6 DEF HealthAfter
    <3>3. streak' \in 0..MaxRuns
      BY <2>9, BoundsAreNat
    <3>4. QED
      BY <1>1, <2>6, <3>1, <3>2, <3>3 DEF IInv, TypeOK, bounds
  <2>11. QuietWhileMarking' /\ OutagesAreAlerted'
    BY <1>1, AlertsStay DEF IInv, QuietWhileMarking
  <2>12. QED
    BY <1>5, <1>7, <1>8, <2>7, <2>8, <2>10, <2>11 DEF IInv
<1>10. CASE status # "failed"
  <2>1. status \in Good
    BY <1>10 DEF Statuses, Good
  <2>2. EndedBy({"failed"})' = {}
    BY <1>2, <1>4, <1>5, <2>1 DEF EndedBy, InOutage, Latest
  <2>3. streak' = 0 /\ health' = "ok" /\ lastSuccess' = age
    BY <1>1, <1>10 DEF RecordHealth
  <2>4. HealthFollows' /\ DownIsFailures'
    BY <2>2, <2>3, FS_EmptySet, DownAfterIsPositive DEF HealthFollows, DownIsFailures
  <2>5. TypeOK'
    <3>1. runs' \in Seq([end : Ends, scraper : Statuses \cup {None},
                         tracked : Statuses \cup {None}])
      BY <1>5 DEF Rows
    <3>2. streak' \in 0..MaxRuns /\ lastSuccess' \in 0..(StaleAfter + 1)
      BY <2>3, BoundsAreNat, DownAfterIsPositive DEF IInv, TypeOK
    <3>3. QED
      BY <1>1, <2>3, <3>1, <3>2 DEF IInv, TypeOK, bounds
  <2>6. QuietWhileMarking' /\ OutagesAreAlerted'
    BY <1>1, AlertsStay DEF IInv, QuietWhileMarking
  <2>7. QED
    BY <1>5, <1>7, <1>8, <2>4, <2>5, <2>6 DEF IInv
<1>11. QED
  BY <1>9, <1>10

(* The steps that change the row of the latest run and not the source: how *)
(* a row is when the job has left it.                                      *)
LEMMA RowStepIInv ==
    ASSUME IInv, Live, NEW row \in Rows, runs' = [runs EXCEPT ![Latest] = row],
           UNCHANGED <<source, age, marking, alerts, ticks, switches, overtaken, unalerted>>,
           faults' \in {faults, faults + 1}, faults' \in 0..MaxFaults,
           job' \in {"queued", "closing", "kept"},
           row.scraper = runs[Latest].scraper,
           runs[Latest].end # "running" => row.end = runs[Latest].end,
           row.end \notin {"running"},
           runs[Latest].end = "running" => row.end \in {"cut", "unrecorded"},
           job' = "closing" => row.end # "cut" /\ row.tracked = runs[Latest].tracked,
           \/ row.tracked = runs[Latest].tracked /\ (job' = "closing" \/ faults' = faults + 1)
           \/ row.tracked = None
           \/ row.tracked \in Statuses \ {"running"} /\ row.tracked = StatusOf(row.end)
    PROVE  IInv'
<1>1. /\ runs \in Seq(Rows) /\ Latest > 0
  BY DEF IInv, TypeOK, Rows, OpenIsLatest, Live
<1>2. /\ runs' \in Seq(Rows) /\ Latest' = Latest /\ DOMAIN runs' = DOMAIN runs
      /\ Latest \in DOMAIN runs /\ runs'[Latest] = row
      /\ \A i \in DOMAIN runs : i # Latest => runs'[i] = runs[i]
  BY <1>1, LatestChanges
<1>3. /\ runs[Latest].tracked \in {"running", None}
      /\ \A i \in DOMAIN runs : i # Latest => runs[i].end # "running"
  BY DEF IInv, OpenIsLatest
<1>4. TypeOK'
  <2>1. runs' \in Seq([end : Ends, scraper : Statuses \cup {None},
                       tracked : Statuses \cup {None}])
    BY <1>2 DEF Rows
  <2>2. QED
    BY <2>1 DEF IInv, TypeOK, source
<1>5. OpenIsLatest'
  <2>1. \A i \in DOMAIN runs' : runs'[i].end # "running"
    BY <1>2, <1>3
  <2>2. \A i \in DOMAIN runs' :
          runs'[i].scraper = "running" => runs'[i].end \in {"running", "cut", "unrecorded"}
    BY <1>2 DEF IInv, OpenIsLatest
  <2>3. QED
    BY <1>1, <1>2, <1>3, <2>1, <2>2 DEF OpenIsLatest, Live
<1>6. RowsTellTruth'
  <2>1. ASSUME NEW i \in DOMAIN runs', i # Latest
        PROVE  /\ runs'[i].scraper \in Statuses \ {"running"} => runs'[i].scraper = runs'[i].end
               /\ runs'[i].scraper = "running" => runs'[i].end \in {"cut", "unrecorded"}
               /\ runs'[i].tracked \in Good => runs'[i].end = runs'[i].tracked
               /\ runs'[i].tracked = "failed" =>
                    runs'[i].end \in {"failed", "unrecorded", "disabled"}
               /\ runs'[i].tracked = "running" => faults' > 0
    <3>1. runs'[i] = runs[i] /\ i \in DOMAIN runs
      BY <1>2, <2>1
    <3>2. faults \in Nat /\ (faults > 0 => faults' > 0)
      BY BoundsAreNat DEF IInv, TypeOK
    <3>3. QED
      BY <2>1, <3>1, <3>2 DEF IInv, RowsTellTruth
  <2>2. /\ row.scraper \in Statuses \ {"running"} => row.scraper = row.end
        /\ row.scraper = "running" => row.end \in {"cut", "unrecorded"}
    <3>1. runs[Latest].scraper \in Statuses \ {"running"} => runs[Latest].end # "running"
      BY <1>2 DEF IInv, OpenIsLatest
    <3>2. runs[Latest].scraper = "running" =>
            runs[Latest].end \in {"running", "cut", "unrecorded"}
      BY <1>2 DEF IInv, OpenIsLatest
    <3>3. QED
      BY <1>2, <3>1, <3>2 DEF IInv, RowsTellTruth
  <2>3. /\ row.tracked \in Good => row.end = row.tracked
        /\ row.tracked = "failed" => row.end \in {"failed", "unrecorded", "disabled"}
    BY <1>3, NoneIsNoStatus DEF StatusOf, Good
  <2>4. row.tracked = "running" => job' = "closing" \/ faults' > 0
    BY BoundsAreNat, NoneIsNoStatus DEF IInv, TypeOK
  <2>5. job' = "closing" => Live'
    BY DEF Live
  <2>6. QED
    BY <1>2, <2>1, <2>2, <2>3, <2>4, <2>5 DEF RowsTellTruth
<1>7. HealthFollows'
  <2>1. \A i \in DOMAIN runs :
          \/ runs'[i].end = runs[i].end
          \/ {runs'[i].end, runs[i].end} \cap (Good \cup {"failed"}) = {}
    BY <1>2 DEF Good
  <2>2. QED
    BY <1>1, <1>2, <2>1, HealthStaysWithRuns DEF IInv
<1>8. DownIsFailures' /\ QuietWhileMarking' /\ OutagesAreAlerted'
  BY AlertsStay DEF source, IInv, DownIsFailures, QuietWhileMarking
<1>9. QED
  BY <1>2, <1>4, <1>5, <1>6, <1>7, <1>8 DEF IInv

LEMMA RecordFailsIInv == ASSUME IInv, RecordFails PROVE IInv'
<1> DEFINE row == [runs[Latest] EXCEPT !.end = "unrecorded"]
<1>1. Live /\ runs[Latest] \in Rows /\ runs[Latest].end = "running"
  BY RowOf DEF RecordFails, Live, IInv, OpenIsLatest
<1>2. /\ row \in Rows /\ row.end = "unrecorded" /\ row.scraper = runs[Latest].scraper
      /\ row.tracked = runs[Latest].tracked
  BY <1>1 DEF Rows, Ends
<1>3. runs' = [runs EXCEPT ![Latest] = row] /\ job' = "closing"
      /\ faults' = faults + 1 /\ faults' \in 0..MaxFaults
      /\ UNCHANGED <<source, age, marking, alerts, ticks, switches, overtaken, unalerted>>
  BY BoundsAreNat DEF RecordFails, Fault, IInv, TypeOK
<1> HIDE DEF row
<1>4. QED
  BY <1>1, <1>2, <1>3, RowStepIInv

LEMMA CutIInv == ASSUME IInv, Cut PROVE IInv'
<1> DEFINE end == IF runs[Latest].end = "running" THEN "cut" ELSE runs[Latest].end
           row == [runs[Latest] EXCEPT !.end = end]
<1>1. Live /\ Latest \in DOMAIN runs
  BY DEF Cut, Live, IInv, OpenIsLatest, TypeOK, Latest
<1>2. runs[Latest] \in Rows /\ end \in Ends
  BY <1>1, RowOf DEF Ends
<1>3. row \in Rows /\ row.end = end /\ row.scraper = runs[Latest].scraper
      /\ row.tracked = runs[Latest].tracked
  BY <1>2 DEF Rows
<1>4. runs' = [runs EXCEPT ![Latest] = row] /\ job' \in {"queued", "kept"}
      /\ faults' = faults + 1 /\ faults' \in 0..MaxFaults
      /\ UNCHANGED <<source, age, marking, alerts, ticks, switches, overtaken, unalerted>>
  BY BoundsAreNat DEF Cut, Fault, IInv, TypeOK
<1> HIDE DEF row
<1>5. QED
  BY <1>1, <1>3, <1>4, RowStepIInv

LEMMA CloseIInv == ASSUME IInv, Close PROVE IInv'
<1> DEFINE tracked == IF runs[Latest].tracked = None THEN None ELSE StatusOf(runs[Latest].end)
           row == [runs[Latest] EXCEPT !.tracked = tracked]
<1>1. Live /\ Latest \in DOMAIN runs /\ job = "closing"
  BY DEF Close, Live, IInv, OpenIsLatest, TypeOK, Latest
<1>2. /\ runs[Latest] \in Rows /\ runs[Latest].end \in Ends
      /\ runs[Latest].end \notin {"running", "cut"}
  BY <1>1, RowOf DEF IInv, OpenIsLatest
<1>3. StatusOf(runs[Latest].end) \in Statuses \ {"running"}
  BY <1>2 DEF StatusOf, Ends, Statuses
<1>4. row \in Rows /\ row.end = runs[Latest].end /\ row.scraper = runs[Latest].scraper
      /\ row.tracked = tracked
  BY <1>2, <1>3 DEF Rows
<1>5. /\ \/ runs' = [runs EXCEPT ![Latest] = row] /\ faults' = faults
         \/ runs' = runs /\ faults' = faults + 1 /\ faults' \in 0..MaxFaults
      /\ job' = "kept"
      /\ UNCHANGED <<source, age, marking, alerts, ticks, switches, overtaken, unalerted>>
  BY BoundsAreNat DEF Close, Fault, IInv, TypeOK
<1> HIDE DEF row
<1>6. CASE runs' = [runs EXCEPT ![Latest] = row] /\ faults' = faults
  <2>1. faults' \in 0..MaxFaults
    BY <1>6 DEF IInv, TypeOK
  <2>2. \/ row.tracked = None
        \/ row.tracked \in Statuses \ {"running"} /\ row.tracked = StatusOf(row.end)
    <3>1. tracked \in {None, StatusOf(runs[Latest].end)}
      OBVIOUS
    <3>2. StatusOf(row.end) = StatusOf(runs[Latest].end)
      BY <1>4
    <3> HIDE DEF tracked
    <3>3. QED
      BY <1>3, <1>4, <3>1, <3>2
  <2>3. QED
    BY <1>1, <1>2, <1>4, <1>5, <1>6, <2>1, <2>2, RowStepIInv
<1>7. CASE runs' = runs /\ faults' = faults + 1 /\ faults' \in 0..MaxFaults
  <2>1. runs' = [runs EXCEPT ![Latest] = runs[Latest]]
    BY <1>1, <1>7 DEF IInv, TypeOK
  <2>2. QED
    BY <1>1, <1>2, <1>5, <1>7, <2>1, RowStepIInv
<1>8. QED
  BY <1>5, <1>6, <1>7

(* The sweep writes "degraded" over what it has read. *)
LEMMA MarkWriteIInv == ASSUME IInv, MarkWrite PROVE IInv'
<1>1. EndedBy({"failed"})' = EndedBy({"failed"})
  BY DEF EndedBy, InOutage, MarkWrite
<1>2. HealthFollows'
  <2>1. CASE overtaken
    BY <1>1, <2>1 DEF MarkWrite, IInv, HealthFollows
  <2>2. CASE ~overtaken
    <3>1. health = "ok" /\ lastSuccess = StaleAfter + 1
      BY <2>2 DEF MarkWrite, IInv, QuietWhileMarking
    <3>2. Cardinality(EndedBy({"failed"})) = 0
      BY <2>2, <3>1 DEF IInv, HealthFollows
    <3>3. QED
      BY <1>1, <3>1, <3>2 DEF MarkWrite, IInv, HealthFollows
  <2>3. QED
    BY <2>1, <2>2
<1>3. runs' = runs /\ Latest' = Latest /\ job' = job /\ faults' = faults
  BY DEF MarkWrite, bounds, Latest
<1>4. TypeOK'
  BY <1>3 DEF MarkWrite, bounds, IInv, TypeOK
<1>5. OpenIsLatest' /\ RowsTellTruth'
  BY <1>3 DEF IInv, OpenIsLatest, RowsTellTruth, Live
<1>6. DownIsFailures' /\ QuietWhileMarking' /\ OutagesAreAlerted'
  BY AlertsStay DEF MarkWrite, IInv, DownIsFailures, QuietWhileMarking
<1>7. QED
  BY <1>2, <1>3, <1>4, <1>5, <1>6 DEF IInv

(* The alert: an outage that is passed over has an exception.              *)
LEMMA AlertIInv == ASSUME IInv, AlertSourcesDown PROVE IInv'
<1> DEFINE ended == EndedBy({"failed", "cut", "unrecorded"})
           passed == [outage |-> Recoveries, streak |-> streak, enabled |-> enabled,
                      lost |-> EndedBy({"cut", "unrecorded"}) # {}]
<1>1. UNCHANGED <<source, job, age, runs, marking, bounds, overtaken>> /\ Latest' = Latest
  BY DEF AlertSourcesDown, Latest
<1>2. /\ alerts' = IF enabled /\ health = "down" /\ ~KeyTaken
                   THEN alerts \cup {[outage |-> Recoveries, streak |-> streak]} ELSE alerts
      /\ unalerted' = IF Cardinality(ended) >= DownAfter /\ ~Alerted'
                      THEN unalerted \cup {passed} ELSE unalerted
  BY DEF AlertSourcesDown
<1>3. Recoveries \in 0..MaxRuns /\ streak \in 0..MaxRuns /\ Recoveries' = Recoveries
  BY <1>1, Counted DEF IInv, TypeOK, Recoveries
<1>4. alerts' \subseteq [outage : 0..MaxRuns, streak : DownAfter..MaxRuns]
  BY <1>2, <1>3, BoundsAreNat, DownAfterIsPositive DEF IInv, TypeOK, DownIsFailures
<1>5. passed \in [outage : 0..MaxRuns, streak : 0..MaxRuns, enabled : BOOLEAN, lost : BOOLEAN]
      /\ passed.outage = Recoveries /\ passed.streak = streak /\ passed.enabled = enabled
      /\ passed.lost = (EndedBy({"cut", "unrecorded"}) # {})
  BY <1>3 DEF IInv, TypeOK
<1> HIDE DEF passed
<1>6. TypeOK'
  BY <1>1, <1>2, <1>4, <1>5 DEF source, bounds, IInv, TypeOK
<1>7. Cardinality(ended) >= DownAfter /\ ~Alerted' =>
        \/ ~passed.enabled \/ passed.lost \/ overtaken
        \/ \E a \in alerts' : a.outage # passed.outage /\ a.streak = passed.streak
  <2> SUFFICES ASSUME Cardinality(ended) >= DownAfter, ~Alerted', enabled, ~passed.lost,
                      ~overtaken
               PROVE  \E a \in alerts' : a.outage # passed.outage /\ a.streak = passed.streak
    BY <1>5
  <2>1. ended = EndedBy({"failed"})
    BY <1>5 DEF EndedBy
  <2>2. health = "down"
    BY <2>1, DownAfterIsPositive DEF IInv, HealthFollows
  <2>3. KeyTaken
    <3>1. SUFFICES ASSUME ~KeyTaken PROVE FALSE
      OBVIOUS
    <3>2. [outage |-> Recoveries, streak |-> streak] \in alerts'
      BY <1>2, <2>2, <3>1
    <3>3. QED
      BY <1>3, <3>2 DEF Alerted
  <2>4. PICK a \in alerts : a.streak = streak
    BY <2>3 DEF KeyTaken
  <2>5. a \in alerts' /\ a.outage # Recoveries
    BY <1>2, <1>3 DEF Alerted
  <2>6. QED
    BY <1>5, <2>4, <2>5
<1>8. OutagesAreAlerted'
  <2>1. alerts \subseteq alerts'
    BY <1>2
  <2>2. ASSUME NEW u \in unalerted
        PROVE  \/ ~u.enabled \/ u.lost \/ overtaken
               \/ \E a \in alerts' : a.outage # u.outage /\ a.streak = u.streak
    BY <2>1 DEF IInv, OutagesAreAlerted
  <2>3. QED
    BY <1>1, <1>2, <1>7, <2>2 DEF OutagesAreAlerted
<1>9. HealthFollows'
  BY <1>1, HealthStays DEF IInv, source
<1>10. OpenIsLatest' /\ RowsTellTruth' /\ DownIsFailures' /\ QuietWhileMarking'
  BY <1>1 DEF source, bounds, IInv, OpenIsLatest, RowsTellTruth, DownIsFailures,
              QuietWhileMarking, Live
<1>11. QED
  BY <1>1, <1>6, <1>8, <1>9, <1>10 DEF IInv

LEMMA StutterIInv == ASSUME IInv, UNCHANGED vars PROVE IInv'
<1>1. Latest' = Latest
  BY DEF vars, Latest
<1>2. HealthFollows'
  BY HealthStays DEF vars, IInv
<1>3. QED
  BY <1>1, <1>2 DEF vars, IInv, TypeOK, OpenIsLatest, RowsTellTruth, DownIsFailures,
                    QuietWhileMarking, OutagesAreAlerted, Live

LEMMA StepIInv == IInv /\ [Next]_vars => IInv'
<1> SUFFICES ASSUME IInv, [Next]_vars PROVE IInv'
  OBVIOUS
<1>1. CASE Tick
  BY <1>1, TickIInv
<1>2. CASE Switch \/ Dispatch \/ EnqueueScrape \/ ExpireResult \/ MarkRead
  BY <1>2, QuietStepsIInv
<1>3. CASE Begin
  BY <1>3, BeginIInv
<1>4. CASE \E status \in Statuses \ {"running"} : Record(status)
  BY <1>4, RecordIInv
<1>5. CASE RecordFails \/ Close \/ Cut
  BY <1>5, RecordFailsIInv, CloseIInv, CutIInv
<1>6. CASE MarkWrite \/ AlertSourcesDown
  BY <1>6, MarkWriteIInv, AlertIInv
<1>7. CASE UNCHANGED vars
  BY <1>7, StutterIInv
<1>8. QED
  BY <1>1, <1>2, <1>3, <1>4, <1>5, <1>6, <1>7 DEF Next

-----------------------------------------------------------------------------
(* Scrapes, sweeps, switches and faults keep to the invariant              *)
(* (scraping.py, maintenance.py, tracking.py, runs.py).                    *)
THEOREM SourceHealthInductive == Spec => []IInv
<1>1. Init => IInv
  BY InitIInv
<1>2. IInv /\ [Next]_vars => IInv'
  BY StepIInv
<1>3. QED
  BY <1>1, <1>2, PTL DEF Spec

(* Every variable keeps its type.                                          *)
THEOREM SourceHealthTypeCorrect == Spec => []TypeOK
<1>1. IInv => TypeOK
  BY DEF IInv
<1>2. QED
  BY <1>1, SourceHealthInductive, PTL

(* Both records of a run say what became of it, and the health of a portal *)
(* follows from them (runs.py:5, scraping.py:10), whatever is cut, lost or *)
(* swept meanwhile.                                                        *)
THEOREM HealthIsOnRecord == Spec => []RecordsTellTruth
<1>1. IInv => RecordsTellTruth
  BY DEF IInv, RecordsTellTruth
<1>2. QED
  BY <1>1, SourceHealthInductive, PTL

(* An outage the staff are not told of is one of the four exceptions       *)
(* (notifications.py, alert_sources_down).                                 *)
THEOREM OutagesAreTold == Spec => []OutagesAreAlerted
<1>1. IInv => OutagesAreAlerted
  BY DEF IInv
<1>2. QED
  BY <1>1, SourceHealthInductive, PTL

=============================================================================
