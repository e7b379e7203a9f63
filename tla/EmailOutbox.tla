----------------------------- MODULE EmailOutbox -----------------------------
(***************************************************************************)
(* The transactional outbox (app/modules/notifications/email/outbox.py),   *)
(* the pump job that empties it (app/jobs/tasks/email.py) and the admin's  *)
(* "retry" of a failed row.  Requests and jobs share one table; every      *)
(* commit is visible to all of them.  A run of the pump                    *)
(*   - selects due rows FOR UPDATE SKIP LOCKED and flips them to "sending",*)
(*   - publishes the flip in one commit, which drops the locks,            *)
(*   - then hands each row to the relay and commits its outcome.           *)
(* The cron starts a pump twice a minute without waiting for the last one, *)
(* so several runs overlap; any of them may die between two commits        *)
(* (worker restart, job_timeout, a database error).                        *)
(*                                                                         *)
(* Time is abstracted to one bit per row: a row in `waiting' has a         *)
(* next_attempt_at in the future.                                          *)
(***************************************************************************)
EXTENDS Naturals, FiniteSets

CONSTANTS
    Emails,       \* the rows that may ever be enqueued
    Pumps,        \* overlapping runs of pump_email_outbox
    Admins,       \* concurrent "retry" requests
    None,         \* "no row"
    BatchSize,    \* EMAIL_BATCH_SIZE
    MaxAttempts,  \* settings.email_max_attempts
    MaxCrashes,   \* bound: runs of the pump that die before their end
    MaxRequeues   \* bound: "retry" requests accepted

ASSUME OutboxAssumption ==
    /\ None \notin Emails
    /\ BatchSize \in Nat \ {0}
    /\ MaxAttempts \in Nat \ {0}
    /\ MaxCrashes \in Nat
    /\ MaxRequeues \in Nat

VARIABLES
    \* the table email_outbox
    status,     \* email_outbox.status; "absent" before the row exists
    attempts,   \* email_outbox.attempts
    waiting,    \* rows whose next_attempt_at is still in the future
    \* the runs of the pump
    pc,         \* where each run is
    batch,      \* the rows a run claimed and has not finished with
    cur,        \* the row at the relay, or whose outcome is not committed
    loaded,     \* the `attempts' a run read when it claimed its rows
    \* the admin's requests
    editing,    \* the row a retry request has read as FAILED
    \* bounds and history (no code reads these)
    crashes, requeues,
    tries,      \* hand-overs to the relay since the row was (re)queued
    confirmed,  \* rows for which the relay's acceptance reached a pump
    orphaned,   \* rows held by a run that died
    overtaken,  \* retries whose row another one has written since they read it
    overwritten \* rows that were no longer FAILED when such a retry wrote

table   == <<status, attempts, waiting>>
runs    == <<pc, batch, cur, loaded>>
retries == <<editing, overtaken, overwritten>>
history == <<crashes, requeues, tries, confirmed, orphaned>>
vars    == <<status, attempts, waiting, pc, batch, cur, loaded, editing,
             crashes, requeues, tries, confirmed, orphaned, overtaken, overwritten>>

Statuses == {"absent", "pending", "sending", "sent", "failed"}
Delivering == {"delivering", "accepted", "refused"}

TypeOK ==
    /\ status \in [Emails -> Statuses]
    /\ attempts \in [Emails -> 0..MaxAttempts]
    /\ waiting \in SUBSET Emails
    /\ pc \in [Pumps -> {"idle", "selected"} \cup Delivering]
    /\ batch \in [Pumps -> SUBSET Emails]
    /\ cur \in [Pumps -> Emails \cup {None}]
    /\ loaded \in [Pumps -> [Emails -> 0..MaxAttempts]]
    /\ editing \in [Admins -> Emails \cup {None}]
    /\ crashes \in 0..MaxCrashes
    /\ requeues \in 0..MaxRequeues
    /\ tries \in [Emails -> Nat]
    /\ confirmed \in SUBSET Emails
    /\ orphaned \in SUBSET Emails
    /\ overtaken \in SUBSET Admins
    /\ overwritten \in SUBSET Emails

Init ==
    /\ status = [e \in Emails |-> "absent"]
    /\ attempts = [e \in Emails |-> 0]
    /\ waiting = {}
    /\ pc = [p \in Pumps |-> "idle"]
    /\ batch = [p \in Pumps |-> {}]
    /\ cur = [p \in Pumps |-> None]
    /\ loaded = [p \in Pumps |-> [e \in Emails |-> 0]]
    /\ editing = [a \in Admins |-> None]
    /\ crashes = 0
    /\ requeues = 0
    /\ tries = [e \in Emails |-> 0]
    /\ confirmed = {}
    /\ orphaned = {}
    /\ overtaken = {}
    /\ overwritten = {}

-----------------------------------------------------------------------------
(* Rows locked by a claim that is not committed yet. *)
Locked == {e \in Emails : \E p \in Pumps : pc[p] = "selected" /\ e \in batch[p]}

(* Fault: a SELECT that takes no notice of the locks. *)
DueWithoutSkipLocked == {e \in Emails : status[e] = "pending" /\ e \notin waiting}

(* What claim_batch's SELECT ... FOR UPDATE SKIP LOCKED may return. *)
Due == {e \in Emails : status[e] = "pending" /\ e \notin waiting /\ e \notin Locked}

(* Full batches: all due rows, or BatchSize of them.  The ORDER BY decides *)
(* which when there are more; here any of them.                            *)
IsBatch(S) ==
    /\ S \subseteq Due
    /\ S # {}
    /\ \/ S = Due /\ Cardinality(S) <= BatchSize
       \/ Cardinality(S) = BatchSize

(* The producer's transaction commits a new row, due at once. *)
Enqueue(e) ==
    /\ status[e] = "absent"
    /\ status' = [status EXCEPT ![e] = "pending"]
    /\ UNCHANGED <<attempts, waiting, runs, retries, history>>

(* next_attempt_at passes. *)
BackoffElapses(e) ==
    /\ e \in waiting
    /\ waiting' = waiting \ {e}
    /\ UNCHANGED <<status, attempts, runs, retries, history>>

(* The first statement of a run: the claimed rows are locked, their flip   *)
(* to "sending" is flushed but not yet visible.                            *)
SelectBatch(p) ==
    /\ pc[p] = "idle"
    /\ \E S \in SUBSET Emails :
        /\ IsBatch(S)
        /\ batch' = [batch EXCEPT ![p] = S]
        /\ loaded' = [loaded EXCEPT ![p] =
                        [e \in Emails |-> IF e \in S THEN attempts[e] ELSE 0]]
    /\ pc' = [pc EXCEPT ![p] = "selected"]
    /\ UNCHANGED <<table, cur, retries, history>>

(* The commit that publishes the flip and drops the locks. *)
PublishClaim(p) ==
    /\ pc[p] = "selected"
    /\ status' = [e \in Emails |-> IF e \in batch[p] THEN "sending" ELSE status[e]]
    /\ pc' = [pc EXCEPT ![p] = "delivering"]
    /\ UNCHANGED <<attempts, waiting, batch, cur, loaded, retries, history>>

(* sender.send(email): either it returns, or it raises.  It may raise for  *)
(* a message the relay kept (the answer was lost): the pump cannot tell.   *)
HandOver(p, e, answer) ==
    /\ pc[p] = "delivering"
    /\ e \in batch[p]
    /\ pc' = [pc EXCEPT ![p] = answer]
    /\ cur' = [cur EXCEPT ![p] = e]
    /\ tries' = [tries EXCEPT ![e] = @ + 1]
    /\ confirmed' = IF answer = "accepted" THEN confirmed \cup {e} ELSE confirmed
    /\ UNCHANGED <<table, batch, loaded, retries, crashes, requeues, orphaned>>

(* The loop goes on with the rest of the batch, or the job returns. *)
Advance(p) ==
    /\ batch' = [batch EXCEPT ![p] = @ \ {cur[p]}]
    /\ cur' = [cur EXCEPT ![p] = None]
    /\ IF batch[p] = {cur[p]}
       THEN /\ pc' = [pc EXCEPT ![p] = "idle"]
            /\ loaded' = [loaded EXCEPT ![p] = [e \in Emails |-> 0]]
       ELSE /\ pc' = [pc EXCEPT ![p] = "delivering"]
            /\ loaded' = [loaded EXCEPT ![p][cur[p]] = 0]

(* mark_sent and its commit.  Its UPDATE, too, waits for a claim's lock. *)
MarkSent(p) ==
    /\ pc[p] = "accepted"
    /\ cur[p] \notin Locked
    /\ status' = [status EXCEPT ![cur[p]] = "sent"]
    /\ Advance(p)
    /\ UNCHANGED <<attempts, waiting, retries, history>>

(* Fault: `>' for `>=' when the attempts are compared with the maximum. *)
MarkFailedOneLate(p) ==
    /\ pc[p] = "refused"
    /\ cur[p] \notin Locked
    /\ LET e == cur[p]
           n == loaded[p][e] + 1
       IN  /\ attempts' = [attempts EXCEPT ![e] = n]
           /\ status' = [status EXCEPT ![e] = IF n > MaxAttempts THEN "failed" ELSE "pending"]
           /\ waiting' = IF n > MaxAttempts THEN waiting ELSE waiting \cup {e}
    /\ Advance(p)
    /\ UNCHANGED <<retries, history>>

(* Fault: the failure is counted but the row is not put back to "pending". *)
MarkFailedStaysSending(p) ==
    /\ pc[p] = "refused"
    /\ cur[p] \notin Locked
    /\ attempts' = [attempts EXCEPT ![cur[p]] = loaded[p][cur[p]] + 1]
    /\ Advance(p)
    /\ UNCHANGED <<status, waiting, retries, history>>

(* mark_failed and its commit: the count is the one read when the row was  *)
(* claimed, plus one.                                                      *)
MarkFailed(p) ==
    /\ pc[p] = "refused"
    /\ cur[p] \notin Locked
    /\ LET e == cur[p]
           n == loaded[p][e] + 1
       IN  /\ attempts' = [attempts EXCEPT ![e] = n]
           /\ \/ /\ n >= MaxAttempts
                 /\ status' = [status EXCEPT ![e] = "failed"]
                 /\ UNCHANGED waiting
              \/ /\ n < MaxAttempts
                 /\ status' = [status EXCEPT ![e] = "pending"]
                 /\ waiting' = waiting \cup {e}
    /\ Advance(p)
    /\ UNCHANGED <<retries, history>>

(* Fault: what a dying run held is silently put out of everybody's hands. *)
DieUnnoticed(p) ==
    /\ pc[p] # "idle"
    /\ crashes < MaxCrashes
    /\ crashes' = crashes + 1
    /\ pc' = [pc EXCEPT ![p] = "idle"]
    /\ batch' = [batch EXCEPT ![p] = {}]
    /\ cur' = [cur EXCEPT ![p] = None]
    /\ loaded' = [loaded EXCEPT ![p] = [e \in Emails |-> 0]]
    /\ UNCHANGED <<table, retries, requeues, tries, confirmed, orphaned>>

(* A run dies between two commits.  What it had not committed is rolled    *)
(* back; rows whose claim it had published stay "sending".                 *)
Die(p) ==
    /\ pc[p] # "idle"
    /\ crashes < MaxCrashes
    /\ crashes' = crashes + 1
    /\ pc' = [pc EXCEPT ![p] = "idle"]
    /\ batch' = [batch EXCEPT ![p] = {}]
    /\ cur' = [cur EXCEPT ![p] = None]
    /\ loaded' = [loaded EXCEPT ![p] = [e \in Emails |-> 0]]
    /\ orphaned' = IF pc[p] = "selected" THEN orphaned ELSE orphaned \cup batch[p]
    /\ UNCHANGED <<table, retries, requeues, tries, confirmed>>

(* Fault: a retry that also takes the rows left in "sending". *)
RequeueReadUnsettled(a, e) ==
    /\ editing[a] = None
    /\ status[e] \in {"failed", "sending"}
    /\ requeues < MaxRequeues
    /\ requeues' = requeues + 1
    /\ editing' = [editing EXCEPT ![a] = e]
    /\ UNCHANGED <<table, runs, crashes, tries, confirmed, orphaned,
                   overtaken, overwritten>>

(* requeue, first half: the row is read (without a lock) as FAILED. *)
RequeueRead(a, e) ==
    /\ editing[a] = None
    /\ status[e] = "failed"
    /\ requeues < MaxRequeues
    /\ requeues' = requeues + 1
    /\ editing' = [editing EXCEPT ![a] = e]
    /\ UNCHANGED <<table, runs, crashes, tries, confirmed, orphaned,
                   overtaken, overwritten>>

(* requeue, second half: an UPDATE by primary key, which waits for a       *)
(* claim's lock but looks at nothing else.                                 *)
RequeueWrite(a) ==
    /\ editing[a] # None
    /\ editing[a] \notin Locked
    /\ LET e == editing[a]
       IN  /\ status' = [status EXCEPT ![e] = "pending"]
           /\ attempts' = [attempts EXCEPT ![e] = 0]
           /\ waiting' = waiting \ {e}
           /\ tries' = [tries EXCEPT ![e] = 0]
           /\ orphaned' = orphaned \ {e}
    /\ editing' = [editing EXCEPT ![a] = None]
    /\ overtaken' = (overtaken \ {a}) \cup {b \in Admins \ {a} : editing[b] = editing[a]}
    /\ overwritten' = IF a \in overtaken /\ status[editing[a]] # "failed"
                      THEN overwritten \cup {editing[a]} ELSE overwritten
    /\ UNCHANGED <<runs, crashes, requeues, confirmed>>

PumpStep(p) ==
    \/ SelectBatch(p)
    \/ PublishClaim(p)
    \/ \E e \in Emails : HandOver(p, e, "accepted") \/ HandOver(p, e, "refused")
    \/ MarkSent(p)
    \/ MarkFailed(p)

Next ==
    \/ \E e \in Emails : Enqueue(e) \/ BackoffElapses(e)
    \/ \E p \in Pumps : PumpStep(p) \/ Die(p)
    \/ \E a \in Admins :
        \/ \E e \in Emails : RequeueRead(a, e)
        \/ RequeueWrite(a)

Spec == Init /\ [][Next]_vars

(* The cron keeps starting pumps, a run that is not killed goes on, and    *)
(* time passes.  Nothing makes an admin retry, a producer enqueue, or a    *)
(* run die.                                                                *)
FairSpec ==
    /\ Spec
    /\ \A p \in Pumps : WF_vars(PumpStep(p))
    /\ \A e \in Emails : WF_vars(BackoffElapses(e))

-----------------------------------------------------------------------------
(* Properties.  The two-step requeue is not atomic: the rows a retry that  *)
(* was overtaken has written over are excepted.                            *)

Holds(p, e) == pc[p] \in Delivering /\ e \in batch[p]

(* No row is in the hands of two runs at once, from the moment it is       *)
(* locked: what SKIP LOCKED and the published flip are for.                *)
ClaimExclusive ==
    \A p, q \in Pumps : p # q => batch[p] \cap batch[q] \subseteq overwritten

(* A row is "sending" exactly while a live run holds it or after the run   *)
(* that held it died: no path of the pump forgets a row.                   *)
SendingAccounted ==
    \A e \in Emails \ overwritten :
        status[e] = "sending" <=> (e \in orphaned \/ \E p \in Pumps : Holds(p, e))

(* The rows are in one pair of hands each, and none is forgotten.          *)
ClaimsAccounted == ClaimExclusive /\ SendingAccounted

(* The count that decides when to give up (kept in the row, read when the  *)
(* row is claimed, written after the send) is the number of hand-overs of  *)
(* this round: a row is "failed" after exactly MaxAttempts of them.        *)
GivesUpOnTime ==
    \A e \in Emails \ overwritten :
        /\ tries[e] <= MaxAttempts
        /\ status[e] = "failed" => tries[e] = MaxAttempts

(* The table and the pumps implement the promise of module MailPromise,    *)
(* through crashes and retries.                                            *)
Phase ==
    [e \in Emails |->
        CASE e \in overwritten -> "void"
          [] e \in confirmed \ overwritten -> "delivered"
          [] e \notin confirmed \cup overwritten /\ status[e] = "absent" -> "none"
          [] e \notin confirmed \cup overwritten /\ status[e] = "failed" -> "abandoned"
          [] OTHER -> "queued"]

Promise == INSTANCE MailPromise WITH phase <- Phase, tries <- tries

KeepsPromise == Promise!Spec

(* A row that becomes due is sent, or given up, unless the run that        *)
(* claimed it died.                                                        *)
SettlesUnlessOrphaned ==
    \A e \in Emails :
        status[e] = "pending" ~>
            (status[e] \in {"sent", "failed"} \/ e \in orphaned \cup overwritten)
=============================================================================
