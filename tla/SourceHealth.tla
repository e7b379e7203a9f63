---------------------------- MODULE SourceHealth ----------------------------
(***************************************************************************)
(* What is on record of one portal: the runs of its scrape as job_runs     *)
(* (app/jobs/tracking.py) and scraper_runs (app/jobs/runs.py) keep them,   *)
(* the health derived from them (app/jobs/tasks/scraping.py), the sweep    *)
(* that finds a portal gone quiet (app/jobs/tasks/maintenance.py), and the *)
(* mail to the staff about one that is down (app/jobs/tasks/               *)
(* notifications.py, alert_sources_down).                                  *)
(*                                                                         *)
(* What a run fetches is module Ingestion's: here it succeeds, loses some  *)
(* notices, or gives up.  A tick is a time longer than a run may take.     *)
(* There is one person on the staff; each has dedupe keys of their own.    *)
(***************************************************************************)
EXTENDS Naturals, Sequences, FiniteSets

CONSTANTS
    None,
    DownAfter,    \* FAILURES_BEFORE_DOWN
    StaleAfter,   \* source_stale_hours, in ticks
    MaxRuns,      \* bound: executions of scrape_source
    MaxTicks,     \* bound: ticks
    MaxFaults,    \* bound: workers killed, jobs timed out, transactions that fail
    MaxSwitches   \* bound: an admin's changes of `enabled'

(* RunStatus.                                                              *)
Statuses == {"running", "succeeded", "partial", "failed"}

ASSUME SourceHealthAssumption ==
    /\ None \notin Statuses
    /\ {DownAfter, StaleAfter} \subseteq Nat \ {0}
    /\ {MaxRuns, MaxTicks, MaxFaults, MaxSwitches} \subseteq Nat

VARIABLES
    \* tender_sources
    enabled,
    streak,       \* consecutive_failures
    health,       \* "ok", "degraded" or "down"
    lastSuccess,  \* how many ticks ago last_success_at is, None when there was none
    \* the job "scrape:<source>"
    job,          \* "none", "queued", "scraping", "closing" or "kept" (a result)
    age,          \* how many ticks ago it began
    \* scraper_runs and job_runs
    runs,         \* each execution: what became of it, and its two rows
    \* mark_source_health, between its reads and its commit
    marking,
    \* email_outbox
    alerts,       \* those ever enqueued: [outage, streak]
    \* bounds and history (no code reads these)
    ticks, faults, switches,
    overtaken,    \* mark_source_health has overlapped the end of a run
    unalerted     \* outages alert_sources_down has passed over

source == <<enabled, streak, health, lastSuccess>>
bounds == <<ticks, faults, switches>>
vars == <<enabled, streak, health, lastSuccess, job, age, runs, marking, alerts, ticks,
          faults, switches, overtaken, unalerted>>

(* What may become of a run.  cut: the worker died, or the job's time was  *)
(* up; unrecorded: its last transaction failed; disabled: the source is    *)
(* not to be scraped.                                                      *)
Ends == Statuses \cup {"cut", "unrecorded", "disabled"}

Good == {"succeeded", "partial"}

TypeOK ==
    /\ enabled \in BOOLEAN
    /\ streak \in 0..MaxRuns /\ health \in {"ok", "degraded", "down"}
    /\ lastSuccess \in 0..(StaleAfter + 1) \cup {None}
    /\ job \in {"none", "queued", "scraping", "closing", "kept"} /\ age \in {0, 1}
    /\ runs \in Seq([end : Ends, scraper : Statuses \cup {None}, tracked : Statuses \cup {None}])
    /\ marking \in BOOLEAN
    /\ alerts \subseteq [outage : 0..MaxRuns, streak : DownAfter..MaxRuns]
    /\ ticks \in 0..MaxTicks /\ faults \in 0..MaxFaults /\ switches \in 0..MaxSwitches
    /\ overtaken \in BOOLEAN
    /\ unalerted \subseteq [outage : 0..MaxRuns, streak : 0..MaxRuns,
                            enabled : BOOLEAN, lost : BOOLEAN]

Init ==
    /\ enabled = TRUE /\ streak = 0 /\ health = "ok" /\ lastSuccess = None
    /\ job = "none" /\ age = 0 /\ runs = <<>>
    /\ marking = FALSE /\ alerts = {}
    /\ ticks = 0 /\ faults = 0 /\ switches = 0
    /\ overtaken = FALSE /\ unalerted = {}

Fault == faults < MaxFaults /\ faults' = faults + 1

Live == job \in {"scraping", "closing"}

Tick ==
    /\ ticks < MaxTicks
    /\ Live => age = 0
    /\ ticks' = ticks + 1
    /\ lastSuccess' = IF lastSuccess \in 0..StaleAfter THEN lastSuccess + 1 ELSE lastSuccess
    /\ age' = IF Live THEN 1 ELSE 0
    /\ UNCHANGED <<enabled, streak, health, job, runs, marking, alerts, faults, switches,
                   overtaken, unalerted>>

(* update_source: streak and health stay as they are.                      *)
Switch ==
    /\ switches < MaxSwitches
    /\ switches' = switches + 1
    /\ enabled' = ~enabled
    /\ UNCHANGED <<streak, health, lastSuccess, job, age, runs, marking, alerts, ticks,
                   faults, overtaken, unalerted>>

-----------------------------------------------------------------------------
(* The scrape, as tracked_job runs it.                                     *)

(* ARQ refuses an id that is queued, running or kept.                      *)
Enqueued ==
    /\ job = "none"
    /\ job' = "queued"
    /\ UNCHANGED <<source, age, runs, marking, alerts, bounds, overtaken, unalerted>>

(* Four times a day, for every enabled source ...                          *)
Dispatch == enabled /\ Enqueued

(* ... or by hand, for any.                                                *)
EnqueueScrape == Enqueued

Latest == Len(runs)

(* _open_run, whose row may not get written, and the first transaction.    *)
Begin ==
    /\ job = "queued"
    /\ Latest < MaxRuns
    /\ \E row \in {"running", None} :
        /\ IF row = None THEN Fault ELSE UNCHANGED faults
        /\ runs' = Append(runs, [end |-> IF enabled THEN "running" ELSE "disabled",
                                 scraper |-> IF enabled THEN "running" ELSE None,
                                 tracked |-> row])
    /\ job' = IF enabled THEN "scraping" ELSE "closing"
    /\ age' = 0
    /\ UNCHANGED <<source, marking, alerts, ticks, switches, overtaken, unalerted>>

(* Fault: down is called one failure early. *)
HealthAfterOneEarly(failures) == IF failures + 1 >= DownAfter THEN "down" ELSE "degraded"

HealthAfter(failures) == IF failures >= DownAfter THEN "down" ELSE "degraded"

(* _record_health, of a run that began at last_run_at.                     *)
RecordHealth(succeeded) ==
    /\ streak' = IF succeeded THEN 0 ELSE streak + 1
    /\ health' = IF succeeded THEN "ok" ELSE HealthAfter(streak + 1)
    /\ lastSuccess' = IF succeeded THEN age ELSE lastSuccess

(* The last transaction: _finish and the health, together.                 *)
Record(status) ==
    /\ job = "scraping"
    /\ runs' = [runs EXCEPT ![Latest].end = status, ![Latest].scraper = status]
    /\ RecordHealth(status # "failed")
    /\ overtaken' = (overtaken \/ marking)
    /\ job' = "closing"
    /\ UNCHANGED <<enabled, age, marking, alerts, bounds, unalerted>>

(* ... or it fails, and the job with it.                                   *)
RecordFails ==
    /\ job = "scraping"
    /\ Fault
    /\ runs' = [runs EXCEPT ![Latest].end = "unrecorded"]
    /\ job' = "closing"
    /\ UNCHANGED <<source, age, marking, alerts, ticks, switches, overtaken, unalerted>>

(* Fault: what returns has succeeded. *)
StatusIfReturned(end) == IF end = "unrecorded" THEN "failed" ELSE "succeeded"

(* The status the wrapper gives a run: by the error it raised or reported, *)
(* and by the notices it has lost.                                         *)
StatusOf(end) == IF end \in {"unrecorded", "disabled"} THEN "failed" ELSE end

(* _close_run, whose write may fail too.                                   *)
Close ==
    /\ job = "closing"
    /\ \/ /\ runs' = [runs EXCEPT ![Latest].tracked =
                          IF @ = None THEN None ELSE StatusOf(runs[Latest].end)]
          /\ UNCHANGED faults
       \/ Fault /\ UNCHANGED runs
    /\ job' = "kept"
    /\ UNCHANGED <<source, age, marking, alerts, ticks, switches, overtaken, unalerted>>

(* The worker dies, and ARQ runs the job again; or the job's time is up:   *)
(* a cancellation is no Exception, and neither row is closed.              *)
Cut ==
    /\ Live
    /\ Fault
    /\ runs' = [runs EXCEPT ![Latest].end = IF @ = "running" THEN "cut" ELSE @]
    /\ job' \in {"queued", "kept"}
    /\ UNCHANGED <<source, age, marking, alerts, ticks, switches, overtaken, unalerted>>

ExpireResult ==
    /\ job = "kept"
    /\ job' = "none"
    /\ UNCHANGED <<source, age, runs, marking, alerts, bounds, overtaken, unalerted>>

-----------------------------------------------------------------------------
(* The nightly jobs, which an admin may trigger at any time (trigger_job). *)

(* mark_source_health changes nothing but an "ok" that has gone quiet.     *)
GoneQuiet == enabled /\ health = "ok" /\ lastSuccess = StaleAfter + 1

MarkRead ==
    /\ ~marking /\ GoneQuiet
    /\ marking' = TRUE
    /\ UNCHANGED <<source, job, age, runs, alerts, bounds, overtaken, unalerted>>

MarkWrite ==
    /\ marking
    /\ health' = "degraded"
    /\ marking' = FALSE
    /\ UNCHANGED <<enabled, streak, lastSuccess, job, age, runs, alerts, bounds, overtaken,
                   unalerted>>

Recoveries == Cardinality({i \in DOMAIN runs : runs[i].end \in Good})

(* The executions since the last good one.                                 *)
InOutage == {i \in DOMAIN runs : \A j \in i..Len(runs) : runs[j].end \notin Good}

EndedBy(ends) == {i \in InOutage : runs[i].end \in ends}

(* Fault: the dedupe key leaves the streak out. *)
KeyTakenBySource == alerts # {}

(* The dedupe key of the outbox: "source_down:<source>:<streak>:<member>". *)
KeyTaken == \E a \in alerts : a.streak = streak

Alerted == \E a \in alerts : a.outage = Recoveries

AlertSourcesDown ==
    /\ UNCHANGED <<source, job, age, runs, marking, bounds, overtaken>>
    /\ alerts' = IF enabled /\ health = "down" /\ ~KeyTaken
                 THEN alerts \cup {[outage |-> Recoveries, streak |-> streak]} ELSE alerts
    /\ unalerted' =
           IF Cardinality(EndedBy({"failed", "cut", "unrecorded"})) >= DownAfter /\ ~Alerted'
           THEN unalerted \cup {[outage |-> Recoveries, streak |-> streak, enabled |-> enabled,
                                 lost |-> EndedBy({"cut", "unrecorded"}) # {}]}
           ELSE unalerted

Next ==
    \/ Tick \/ Switch
    \/ Dispatch \/ EnqueueScrape \/ Begin
    \/ \E status \in Statuses \ {"running"} : Record(status)
    \/ RecordFails \/ Close \/ Cut \/ ExpireResult
    \/ MarkRead \/ MarkWrite \/ AlertSourcesDown

Spec == Init /\ [][Next]_vars

-----------------------------------------------------------------------------
(* Each row says what became of its run ("every run is written down        *)
(* whether it succeeded or not", runs.py:5): one that says running belongs *)
(* to the run that is, to one that was cut, or could not be written.       *)
RowsTellTruth ==
    \A i \in DOMAIN runs :
        LET r == runs[i]
            current == i = Latest /\ Live
        IN  /\ r.scraper \in Statuses \ {"running"} => r.scraper = r.end
            /\ r.scraper = "running" => current \/ r.end \in {"cut", "unrecorded"}
            /\ r.tracked \in Good => r.end = r.tracked
            /\ r.tracked = "failed" => r.end \in {"failed", "unrecorded", "disabled"}
            /\ r.tracked = "running" => current \/ faults > 0

(* The health of a portal follows from the runs on record: ok when the     *)
(* last one was good, down after several failures in a row, degraded after *)
(* fewer or when the portal has gone quiet (scraping.py:10, maintenance.py *)
(* :144).  The exception: a mark_source_health that overlaps the end of a  *)
(* run writes over it.                                                     *)
HealthFollows ==
    LET failed == Cardinality(EndedBy({"failed"}))
    IN  /\ streak = failed
        /\ \/ overtaken
           \/ failed >= DownAfter /\ health = "down"
           \/ failed \in 1..(DownAfter - 1) /\ health = "degraded"
           \/ failed = 0 /\ health = "ok"
           \/ failed = 0 /\ health = "degraded" /\ lastSuccess = StaleAfter + 1

RecordsTellTruth == RowsTellTruth /\ HealthFollows

(* An outage that alert_sources_down comes upon is one the staff are told  *)
(* of.  The exceptions: the source is disabled; runs that were cut or      *)
(* unrecorded do not count; mark_source_health wrote over "down"; and the  *)
(* dedupe key names the length of the outage alone, so the staff are not   *)
(* told of a second one they come upon at the length of an earlier one.    *)
OutagesAreAlerted ==
    \A u \in unalerted :
        \/ ~u.enabled \/ u.lost \/ overtaken
        \/ \E a \in alerts : a.outage # u.outage /\ a.streak = u.streak
=============================================================================
