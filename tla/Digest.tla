-------------------------------- MODULE Digest --------------------------------
(***************************************************************************)
(* The daily shortlist of one organization: digest_dispatcher and          *)
(* send_daily_digest (app/jobs/tasks/notifications.py) against the two     *)
(* things that move under them, the matches being stored and the admin's   *)
(* settings.                                                               *)
(*                                                                         *)
(* Time is a tick, a local day has DayLength of them; the local clock is   *)
(* `now' shifted by the offset of digest_timezone.  A match is stamped     *)
(* (first_matched_at) inside a transaction and visible when it commits.    *)
(* Every match of this module clears the organization's digest_min_grade.  *)
(***************************************************************************)
EXTENDS Integers, FiniteSets

CONSTANTS
    Matches,      \* matches that may be stored
    DayLength,    \* ticks in a day
    DigestTimes,  \* bound: times of day an admin chooses from
    Offsets,      \* bound: timezones an admin chooses from
    MaxTime,      \* bound: ticks
    MaxEdits,     \* bound: changes of the digest's time, zone or switch
    MaxFailedRuns,  \* bound: runs that fail or whose worker dies
    Never         \* no date, or no moment

ASSUME DigestAssumption ==
    /\ DayLength \in Nat \ {0}
    /\ DigestTimes \subseteq 0..(DayLength - 1)
    /\ Offsets \subseteq Int
    /\ {MaxTime, MaxEdits, MaxFailedRuns} \subseteq Nat
    /\ Never \notin Int

VARIABLES
    now,
    \* notification_settings
    enabled, digestTime, offset,
    last,        \* last_digest_sent_for
    \* tender_matches
    stamp,       \* first_matched_at, Never before
    visible,     \* matches whose transaction has committed
    \* notification_ledger: the local dates a digest was mailed for
    mailed,
    \* ARQ's job "digest:<org>", and what the run has read
    job,         \* "none", "queued", "running", "built" or "kept" (a result)
    today, since, picks,
    \* bounds and history (no code reads these)
    edits, failedRuns,
    run,         \* the run in progress: when it started, and what it saw
    previous,    \* the same of the last run that committed
    covers,      \* digests committed per local date
    swallowed    \* a digest with picks found its date already mailed

settings == <<enabled, digestTime, offset>>
digestVars == <<now, enabled, digestTime, offset, last, stamp, visible, mailed, job, today,
          since, picks, edits, failedRuns, run, previous, covers, swallowed>>

LocalDate == (now + offset) \div DayLength
LocalTime == (now + offset) % DayLength

Dates == {(t + o) \div DayLength : t \in 0..MaxTime, o \in Offsets}

Moments == (0..MaxTime) \cup {Never}
Runs == [start : Moments, edits : 0..MaxEdits, onTime : BOOLEAN, read : Moments,
         saw : SUBSET Matches]
NoRun == [start |-> Never, edits |-> 0, onTime |-> TRUE, read |-> Never, saw |-> {}]

DigestTypeOK ==
    /\ now \in 0..MaxTime
    /\ enabled \in BOOLEAN
    /\ digestTime \in DigestTimes
    /\ offset \in Offsets
    /\ last \in Dates \cup {Never}
    /\ stamp \in [Matches -> Moments]
    /\ visible \in SUBSET {m \in Matches : stamp[m] # Never}
    /\ mailed \in SUBSET Dates
    /\ job \in {"none", "queued", "running", "built", "kept"}
    /\ today \in Dates \cup {Never}
    /\ since \in Int \cup {Never}
    /\ picks \in SUBSET visible
    /\ edits \in 0..MaxEdits
    /\ failedRuns \in 0..MaxFailedRuns
    /\ run \in Runs
    /\ previous \in Runs
    /\ covers \in [Dates -> Nat]
    /\ swallowed \in BOOLEAN

DigestInit ==
    /\ now = 0
    /\ enabled = TRUE
    /\ digestTime \in DigestTimes
    /\ offset \in Offsets
    /\ last = Never
    /\ stamp = [m \in Matches |-> Never]
    /\ visible = {}
    /\ mailed = {}
    /\ job = "none"
    /\ today = Never
    /\ since = Never
    /\ picks = {}
    /\ edits = 0
    /\ failedRuns = 0
    /\ run = NoRun
    /\ previous = NoRun
    /\ covers = [d \in Dates |-> 0]
    /\ swallowed = FALSE

-----------------------------------------------------------------------------
(* The clock.  job_timeout is shorter than a tick, so no transaction is    *)
(* open for more than one of them.                                         *)
Tick ==
    /\ now < MaxTime
    /\ job \in {"running", "built"} => run.start = now
    /\ \A m \in Matches \ visible : stamp[m] \in {Never, now}
    /\ now' = now + 1
    /\ UNCHANGED <<settings, last, stamp, visible, mailed, job, today, since, picks,
                   edits, failedRuns, run, previous, covers, swallowed>>

(* match_tender_for_org stamps a new match with the clock ... *)
StampMatch(m) ==
    /\ stamp[m] = Never
    /\ stamp' = [stamp EXCEPT ![m] = now]
    /\ UNCHANGED <<now, settings, last, visible, mailed, job, today, since, picks,
                   edits, failedRuns, run, previous, covers, swallowed>>

(* ... and its transaction commits. *)
CommitMatch(m) ==
    /\ stamp[m] # Never
    /\ m \notin visible
    /\ visible' = visible \cup {m}
    /\ UNCHANGED <<now, settings, last, stamp, mailed, job, today, since, picks,
                   edits, failedRuns, run, previous, covers, swallowed>>

(* update_settings: the switch, the time of day or the timezone. *)
UpdateSettings(on, time, zone) ==
    /\ edits < MaxEdits
    /\ <<on, time, zone>> # <<enabled, digestTime, offset>>
    /\ enabled' = on
    /\ digestTime' = time
    /\ offset' = zone
    /\ edits' = edits + 1
    /\ UNCHANGED <<now, last, stamp, visible, mailed, job, today, since, picks,
                   failedRuns, run, previous, covers, swallowed>>

(* _digest_is_due *)
Due == enabled /\ last # LocalDate /\ LocalTime >= digestTime

(* digest_dispatcher: ARQ takes the job unless one with this id is queued, *)
(* running, or has left a result that is still kept.                       *)
Dispatch ==
    /\ Due
    /\ job = "none"
    /\ job' = "queued"
    /\ UNCHANGED <<now, settings, last, stamp, visible, mailed, today, since, picks,
                   edits, failedRuns, run, previous, covers, swallowed>>

(* Fault: the window always opens yesterday, whatever was sent last. *)
WindowStartYesterday(day) == (day - 1) * DayLength + digestTime - offset

(* _digest_window_start: the digest time, as set now, of the date the last *)
(* digest was for, or of yesterday if there was none.                      *)
WindowStart(day) ==
    (IF last = Never THEN day - 1 ELSE last) * DayLength + digestTime - offset

(* send_daily_digest reads the settings and the clock; a date already      *)
(* covered ends it.  It does not look at the time of day again, nor at the *)
(* switch.                                                                 *)
StartDigest ==
    /\ job = "queued"
    /\ \/ /\ last = LocalDate
          /\ job' = "kept"
          /\ UNCHANGED <<today, since, run>>
       \/ /\ last # LocalDate
          /\ job' = "running"
          /\ today' = LocalDate
          /\ since' = WindowStart(LocalDate)
          /\ run' = [NoRun EXCEPT !.start = now, !.edits = edits,
                               !.onTime = LocalTime >= digestTime]
    /\ UNCHANGED <<now, settings, last, stamp, visible, mailed, picks, edits, failedRuns,
                   previous, covers, swallowed>>

InWindow(m) == stamp[m] >= since

(* Fault: the digest reads matches whose transaction is still open. *)
BuildDigestUncommitted ==
    /\ job = "running"
    /\ job' = "built"
    /\ picks' = {m \in Matches : stamp[m] # Never /\ InWindow(m)}
    /\ run' = [run EXCEPT !.read = now, !.saw = visible]
    /\ UNCHANGED <<now, settings, last, stamp, visible, mailed, today, since, edits,
                   failedRuns, previous, covers, swallowed>>

(* _build_digest: the stored matches of the window. *)
BuildDigest ==
    /\ job = "running"
    /\ job' = "built"
    /\ picks' = {m \in visible : InWindow(m)}
    /\ run' = [run EXCEPT !.read = now, !.saw = visible]
    /\ UNCHANGED <<now, settings, last, stamp, visible, mailed, today, since, edits,
                   failedRuns, previous, covers, swallowed>>

Forget ==
    /\ today' = Never
    /\ since' = Never
    /\ picks' = {}
    /\ run' = NoRun

(* Fault: only a digest with something in it marks its date. *)
StampIfAnything == IF picks = {} THEN last ELSE today

(* Fault: the date is never marked. *)
NothingStamped == last

(* last_digest_sent_for, stamped even when there is nothing to send. *)
Stamped == today

(* The commit: the date is stamped, and the mail goes out if somebody can  *)
(* be mailed and the ledger has no mail for this date yet.                 *)
CommitDigest(reachable) ==
    /\ job = "built"
    /\ job' = "kept"
    /\ last' = Stamped
    /\ mailed' = IF reachable /\ picks # {} THEN mailed \cup {today} ELSE mailed
    /\ swallowed' = (swallowed \/ (reachable /\ picks # {} /\ today \in mailed))
    /\ covers' = [covers EXCEPT ![today] = @ + 1]
    /\ previous' = run
    /\ Forget
    /\ UNCHANGED <<now, settings, stamp, visible, edits, failedRuns>>

(* The run fails and is rolled back: an exception leaves a kept result, a  *)
(* dead worker leaves the job to be tried again.                           *)
Fail ==
    /\ job \in {"running", "built"}
    /\ failedRuns < MaxFailedRuns
    /\ failedRuns' = failedRuns + 1
    /\ job' \in {"queued", "kept"}
    /\ Forget
    /\ UNCHANGED <<now, settings, last, stamp, visible, mailed, edits, previous, covers,
                   swallowed>>

(* Fault: results are kept for good. *)
ResultNeverExpires ==
    /\ FALSE
    /\ job = "kept"
    /\ UNCHANGED digestVars

(* keep_result passes. *)
ExpireResult ==
    /\ job = "kept"
    /\ job' = "none"
    /\ UNCHANGED <<now, settings, last, stamp, visible, mailed, today, since, picks,
                   edits, failedRuns, run, previous, covers, swallowed>>

Worker == StartDigest \/ BuildDigest \/ \E reachable \in BOOLEAN : CommitDigest(reachable)

DigestNext ==
    \/ Tick
    \/ \E m \in Matches : StampMatch(m) \/ CommitMatch(m)
    \/ \E on \in BOOLEAN, time \in DigestTimes, zone \in Offsets : UpdateSettings(on, time, zone)
    \/ Dispatch \/ Worker \/ Fail \/ ExpireResult

DigestSpec == DigestInit /\ [][DigestNext]_digestVars

(* The cron wakes the dispatcher, the worker runs queued jobs, results     *)
(* expire.  Nothing is assumed of the admin, the matches or the clock.     *)
FairDigestSpec ==
    /\ DigestSpec
    /\ WF_digestVars(Dispatch)
    /\ WF_digestVars(Worker)
    /\ WF_digestVars(ExpireResult)

-----------------------------------------------------------------------------
(* A date gets one digest, however often the dispatcher wakes and whatever *)
(* fails, as long as the timezone stays where it was; and then the ledger  *)
(* never stands in the way of one that has picks: the stamp and the claim, *)
(* two guards against repetition, agree (notifications.py:277 and 394).    *)
OneDigestPerDate ==
    edits = 0 => (\A d \in Dates : covers[d] <= 1) /\ ~swallowed

(* The digest that commits next after one built at `previous.read' reports *)
(* every match stamped since then that it could see.                       *)
LeavesNothingOut ==
    \A m \in run.saw \ previous.saw : stamp[m] >= previous.read => m \in picks

CommitsNextDigest == job = "built" /\ job' = "kept" /\ previous.read # Never /\ previous' # previous

(* Digests that run at or after their time, under settings that stand,     *)
(* together report every match, through missed days and failed runs: the   *)
(* window is 'matches "since the last digest"' (notifications.py:352).     *)
(* The exceptions: digest_time moved later after one digest moves the      *)
(* opening of the next window past the matches between the two times; a    *)
(* run delayed past midnight opens its own too early.                      *)
SteadyDigestsLeaveNothingOut ==
    [][CommitsNextDigest /\ previous.onTime /\ previous.edits = run.edits
          => LeavesNothingOut]_digestVars

(* A due digest is not forgotten: it is sent, or stops being due (the day  *)
(* ends, the admin moves it).                                              *)
DueDigestRuns == Due ~> ~Due
=============================================================================
