--------------------------- MODULE OrgNotifications ---------------------------
(***************************************************************************)
(* What one organization is told, and who of its addresses is mailed:      *)
(* app/modules/notifications/service.py (recipients, the ledger,           *)
(* send_to_recipients, the in-app centre) and the jobs of                  *)
(* app/jobs/tasks/notifications.py that use them.                          *)
(*                                                                         *)
(* A job is ONE database transaction: what it claims, stamps and enqueues  *)
(* becomes visible together at its commit, or never.  What it reads, it    *)
(* reads at different moments (READ COMMITTED).  Jobs overlap: the crons   *)
(* do not wait for each other, and "process:<tender>" and                  *)
(* "reprocess:<tender>" both end in notify_instant.                        *)
(*                                                                         *)
(* Subjects are what one can be told: a match (instant), a reminder of one *)
(* tender at one offset, one version of an amended tender.                 *)
(***************************************************************************)
EXTENDS Naturals, FiniteSets

CONSTANTS
    Addresses,    \* e-mail addresses an admin may register
    Rows,         \* ids of notification_recipients; an id is used once
    Instants,     \* matches that clear the bar of notify_instant
    Reminders,    \* <tender>:<days_left> pairs of deadline_reminder_sweep
    Updates,      \* <tender>:v<version> pairs of notify_tender_updated
    Jobs,         \* overlapping executions of the jobs
    None,
    Subscriptions,\* bound: the lists of types an admin chooses from
    MaxLinks,     \* bound: verification links issued
    MaxFailures   \* bound: jobs that fail before their commit

Subjects == Instants \cup Reminders \cup Updates

Kinds == {"instant_match", "deadline_reminder", "tender_updated"}

KindOf(s) ==
    CASE s \in Instants  -> "instant_match"
      [] s \in Reminders -> "deadline_reminder"
      [] OTHER           -> "tender_updated"

ASSUME NotificationsAssumption ==
    /\ None \notin Addresses \cup Subjects
    /\ Instants \cap Reminders = {}
    /\ (Instants \cup Reminders) \cap Updates = {}
    /\ Subscriptions \subseteq SUBSET Kinds
    /\ MaxLinks \in Nat \ {0}
    /\ MaxFailures \in Nat

VARIABLES
    \* notification_recipients
    live,        \* rows that exist
    addr,        \* email; None for an id not used yet
    types,       \* the types the address asked for
    verified,    \* rows with a verified_at
    stopped,     \* rows with an unsubscribed_at
    token,       \* the link verify_token_hash belongs to; 0 is NULL
    \* notification_ledger, email_outbox, notifications, tender_matches
    ledger,      \* claims: <<subject, "email">> or <<subject, "inapp">>
    outbox,      \* messages, keyed by subject and row
    centre,      \* entries per subject in the in-app centre
    announced,   \* matches with an instant_notified_at
    \* the transactions in progress
    at,          \* where each job is
    about,       \* its subject
    held,        \* claims it has inserted and not committed
    entry,       \* whether it has added an in-app entry
    to,          \* the recipients it has read
    resending,   \* rows a resend request has read as unverified
    \* bounds and history (no code reads these)
    issued,      \* verification links issued so far, numbered in that order
    clicked,     \* links that have verified an address
    window,      \* rows deliverable at some time since the job began
    failures

table   == <<live, addr, types, verified, stopped, token>>
sent    == <<ledger, outbox, centre, announced>>
jobs    == <<at, about, held, entry, to>>
history == <<issued, clicked, window, failures>>
vars    == <<live, addr, types, verified, stopped, token, ledger, outbox, centre,
             announced, at, about, held, entry, to, resending, issued, clicked,
             window, failures>>

Claims == Subjects \X {"email", "inapp"}
Messages == [row : Rows, to : Addresses, subject : Subjects, link : {"row id"} \X Rows]
Steps == {"idle", "claiming in-app", "reading", "claiming", "committing"}

TypeOK ==
    /\ live \in SUBSET Rows
    /\ addr \in [Rows -> Addresses \cup {None}]
    /\ types \in [Rows -> SUBSET Kinds]
    /\ verified \in SUBSET live
    /\ stopped \in SUBSET live
    /\ token \in [Rows -> 0..MaxLinks]
    /\ ledger \in SUBSET Claims
    /\ outbox \in SUBSET Messages
    /\ centre \in [Subjects -> Nat]
    /\ announced \in SUBSET Instants
    /\ at \in [Jobs -> Steps]
    /\ about \in [Jobs -> Subjects \cup {None}]
    /\ held \in [Jobs -> SUBSET Claims]
    /\ entry \in [Jobs -> BOOLEAN]
    /\ to \in [Jobs -> SUBSET Rows]
    /\ resending \in SUBSET Rows
    /\ issued \in 0..MaxLinks
    /\ clicked \in SUBSET (1..MaxLinks)
    /\ window \in [Jobs -> SUBSET Rows]
    /\ failures \in 0..MaxFailures

Init ==
    /\ live = {}
    /\ addr = [r \in Rows |-> None]
    /\ types = [r \in Rows |-> {}]
    /\ verified = {}
    /\ stopped = {}
    /\ token = [r \in Rows |-> 0]
    /\ ledger = {}
    /\ outbox = {}
    /\ centre = [s \in Subjects |-> 0]
    /\ announced = {}
    /\ at = [j \in Jobs |-> "idle"]
    /\ about = [j \in Jobs |-> None]
    /\ held = [j \in Jobs |-> {}]
    /\ entry = [j \in Jobs |-> FALSE]
    /\ to = [j \in Jobs |-> {}]
    /\ resending = {}
    /\ issued = 0
    /\ clicked = {}
    /\ window = [j \in Jobs |-> {}]
    /\ failures = 0

-----------------------------------------------------------------------------
(* The recipients.  Each request is a transaction of its own.              *)

(* An empty subscription list means everything. *)
Wants(r, kind) == types[r] = {} \/ kind \in types[r]

(* Fault: the subscription is checked, the unsubscription is not. *)
DeliverableIgnoringUnsubscribe(kind) == {r \in verified : Wants(r, kind)}

(* deliverable_recipients: verified, still subscribed, asked for this type. *)
Deliverable(kind) == {r \in verified \ stopped : Wants(r, kind)}

(* A new link: the row keeps the hash of the newest one only. *)
IssueLink(r) ==
    /\ issued < MaxLinks
    /\ issued' = issued + 1
    /\ token' = [token EXCEPT ![r] = issued + 1]

(* add_recipient: an address already registered is a conflict; the unique  *)
(* constraint settles two requests that both looked first.                 *)
AddRecipient(r, a, ts) ==
    /\ addr[r] = None
    /\ \A q \in live : addr[q] # a
    /\ live' = live \cup {r}
    /\ addr' = [addr EXCEPT ![r] = a]
    /\ types' = [types EXCEPT ![r] = ts]
    /\ IssueLink(r)
    /\ UNCHANGED <<verified, stopped, sent, jobs, resending, clicked, window, failures>>

(* resend_verification, first half: the row is read, not verified. *)
ResendRead(r) ==
    /\ r \in live \ (verified \cup resending)
    /\ issued < MaxLinks
    /\ resending' = resending \cup {r}
    /\ UNCHANGED <<table, sent, jobs, history>>

(* ... second half: the new hash is written to the row, if it still exists *)
(* (the UPDATE of a deleted row is an error), verified meanwhile or not.    *)
ResendWrite(r) ==
    /\ r \in resending
    /\ resending' = resending \ {r}
    /\ \/ /\ r \in live
          /\ IssueLink(r)
       \/ /\ r \notin live
          /\ UNCHANGED <<token, issued>>
    /\ UNCHANGED <<live, addr, types, verified, stopped, sent, jobs, clicked,
                   window, failures>>

UpdateRecipient(r, ts) ==
    /\ r \in live
    /\ types[r] # ts
    /\ types' = [types EXCEPT ![r] = ts]
    /\ window' = [j \in Jobs |-> IF /\ at[j] # "idle"
                                    /\ r \in verified \ stopped
                                    /\ ts = {} \/ KindOf(about[j]) \in ts
                                 THEN window[j] \cup {r} ELSE window[j]]
    /\ UNCHANGED <<live, addr, verified, stopped, token, sent, jobs, resending,
                   issued, clicked, failures>>

(* Fault: the row is hidden, and stays verified. *)
RemoveRecipientSoftly(r) ==
    /\ r \in live
    /\ live' = live \ {r}
    /\ UNCHANGED <<addr, types, verified, stopped, token, sent, jobs, resending, history>>

RemoveRecipient(r) ==
    /\ r \in live
    /\ live' = live \ {r}
    /\ verified' = verified \ {r}
    /\ stopped' = stopped \ {r}
    /\ token' = [token EXCEPT ![r] = 0]
    /\ types' = [types EXCEPT ![r] = {}]
    /\ UNCHANGED <<addr, sent, jobs, resending, history>>

(* What a click on link n does to the row r that holds its hash. *)
Confirm(r, n) ==
    /\ verified' = verified \cup {r}
    /\ stopped' = stopped \ {r}
    /\ clicked' = clicked \cup {n}
    /\ window' = [j \in Jobs |-> IF at[j] # "idle" /\ Wants(r, KindOf(about[j]))
                                 THEN window[j] \cup {r} ELSE window[j]]

(* Fault: the hash is not cleared, the link goes on working. *)
VerifyKeepsToken(r, n) ==
    /\ r \in live
    /\ n # 0
    /\ token[r] = n
    /\ Confirm(r, n)
    /\ UNCHANGED <<live, addr, types, token, sent, jobs, resending, issued, failures>>

(* verify_recipient: whoever holds the address clicks link n; it works     *)
(* while the row holds its hash, and also revives an unsubscribe.          *)
Verify(r, n) ==
    /\ r \in live
    /\ n # 0
    /\ token[r] = n
    /\ token' = [token EXCEPT ![r] = 0]
    /\ Confirm(r, n)
    /\ UNCHANGED <<live, addr, types, sent, jobs, resending, issued, failures>>

(* What an unsubscribe link must carry to be found: find_by_unsubscribe_   *)
(* token compares with the row's unsubscribe_token, never with its id.     *)
RowsOfLink(link) == {r \in live : link = <<"unsubscribe_token", r>>}

(* unsubscribe_recipient, for whatever token the request brings. *)
Unsubscribe(link) ==
    /\ \E r \in RowsOfLink(link) :
        /\ r \notin stopped
        /\ stopped' = stopped \cup {r}
    /\ UNCHANGED <<live, addr, types, verified, token, sent, jobs, resending, history>>

-----------------------------------------------------------------------------
(* The jobs.                                                               *)

(* What the query at the head of the job lets through: the amended version *)
(* and the reminder are looked for in the ledger only, the match must not  *)
(* carry a stamp.                                                          *)
Eligible(s) == s \in Instants => s \notin announced

FirstStep(s, inapp) ==
    IF s \in Updates \/ (s \in Reminders /\ inapp) THEN "claiming in-app" ELSE "reading"

(* notify_instant, deadline_reminder_sweep, notify_tender_updated up to    *)
(* the first thing another transaction can interfere with.  An instant     *)
(* alert writes its in-app entry without a claim.                          *)
Begin(j, s, inapp) ==
    /\ at[j] = "idle"
    /\ Eligible(s)
    /\ at' = [at EXCEPT ![j] = FirstStep(s, inapp)]
    /\ about' = [about EXCEPT ![j] = s]
    /\ entry' = [entry EXCEPT ![j] = inapp /\ s \in Instants]
    /\ window' = [window EXCEPT ![j] = {r \in verified \ stopped : Wants(r, KindOf(s))}]
    /\ UNCHANGED <<table, sent, held, to, resending, issued, clicked, failures>>

(* Fault: a check of the committed ledger instead of a unique insert. *)
ClaimByLooking(j, c) ==
    held' = [held EXCEPT ![j] = IF c \in ledger THEN @ ELSE @ \cup {c}]

(* claim: INSERT ... ON CONFLICT DO NOTHING.  It waits for a transaction   *)
(* that holds the same key uncommitted, then inserts or does not.          *)
Claim(j, c) ==
    /\ \A i \in Jobs \ {j} : c \notin held[i]
    /\ held' = [held EXCEPT ![j] = IF c \in ledger THEN @ ELSE @ \cup {c}]

ClaimInapp(j) ==
    /\ at[j] = "claiming in-app"
    /\ LET c == <<about[j], "inapp">>
       IN  /\ Claim(j, c)
           /\ entry' = [entry EXCEPT ![j] = c \notin ledger]
    /\ at' = [at EXCEPT ![j] = IF about[j] \in Updates THEN "committing" ELSE "reading"]
    /\ UNCHANGED <<table, sent, about, to, resending, history>>

(* Fault: the ledger is claimed even when nobody can be mailed. *)
ReadRecipientsAndClaimAnyway(j) ==
    /\ at[j] = "reading"
    /\ to' = [to EXCEPT ![j] = Deliverable(KindOf(about[j]))]
    /\ at' = [at EXCEPT ![j] = "claiming"]
    /\ UNCHANGED <<table, sent, about, held, entry, resending, history>>

(* send_to_recipients reads who is deliverable; with nobody it stops short *)
(* of the ledger.                                                          *)
ReadRecipients(j) ==
    /\ at[j] = "reading"
    /\ LET rs == Deliverable(KindOf(about[j]))
       IN  /\ to' = [to EXCEPT ![j] = rs]
           /\ at' = [at EXCEPT ![j] = IF rs = {} THEN "committing" ELSE "claiming"]
    /\ UNCHANGED <<table, sent, about, held, entry, resending, history>>

(* send_to_recipients claims, and gives up if somebody has sent it. *)
ClaimEmail(j) ==
    /\ at[j] = "claiming"
    /\ LET c == <<about[j], "email">>
       IN  /\ Claim(j, c)
           /\ to' = [to EXCEPT ![j] = IF c \in ledger THEN {} ELSE @]
    /\ at' = [at EXCEPT ![j] = "committing"]
    /\ UNCHANGED <<table, sent, about, entry, resending, history>>

(* The message for row r; the link in it is built from the row's id. *)
MessageTo(r, s) ==
    [row |-> r, to |-> addr[r], subject |-> s, link |-> <<"row id", r>>]

Leave(j) ==
    /\ at' = [at EXCEPT ![j] = "idle"]
    /\ about' = [about EXCEPT ![j] = None]
    /\ held' = [held EXCEPT ![j] = {}]
    /\ entry' = [entry EXCEPT ![j] = FALSE]
    /\ to' = [to EXCEPT ![j] = {}]
    /\ window' = [window EXCEPT ![j] = {}]

(* Everything the transaction did becomes visible. *)
Commit(j) ==
    /\ at[j] = "committing"
    /\ ledger' = ledger \cup held[j]
    /\ outbox' = outbox \cup {MessageTo(r, about[j]) : r \in to[j]}
    /\ centre' = IF entry[j] THEN [centre EXCEPT ![about[j]] = @ + 1] ELSE centre
    /\ announced' = announced \cup (Instants \cap {about[j]})
    /\ Leave(j)
    /\ UNCHANGED <<table, resending, issued, clicked, failures>>

(* The job fails, or its worker dies: the transaction is rolled back. *)
RollBack(j) ==
    /\ at[j] # "idle"
    /\ failures < MaxFailures
    /\ failures' = failures + 1
    /\ Leave(j)
    /\ UNCHANGED <<table, sent, resending, issued, clicked>>

Request ==
    \/ \E r \in Rows :
        \/ \E a \in Addresses, ts \in Subscriptions : AddRecipient(r, a, ts)
        \/ ResendRead(r) \/ ResendWrite(r)
        \/ \E ts \in Subscriptions : UpdateRecipient(r, ts)
        \/ RemoveRecipient(r)
        \/ \E n \in 1..MaxLinks : Verify(r, n)
    \/ \E link \in {"unsubscribe_token", "row id"} \X Rows : Unsubscribe(link)

JobStep(j) ==
    \/ \E s \in Subjects, inapp \in BOOLEAN : Begin(j, s, inapp)
    \/ ClaimInapp(j) \/ ReadRecipients(j) \/ ClaimEmail(j) \/ Commit(j)
    \/ RollBack(j)

Next == Request \/ \E j \in Jobs : JobStep(j)

Spec == Init /\ [][Next]_vars

-----------------------------------------------------------------------------
(* No address is told the same thing twice by mail.                        *)
MailedOnce ==
    \A m, n \in outbox : m.subject = n.subject /\ m.to = n.to => m = n

(* A reminder, or the news of an amendment, enters the in-app centre at    *)
(* most once, and only with the claim that keeps it unique.                *)
ClaimedEntriesAreUnique ==
    \A s \in Reminders \cup Updates :
        centre[s] = IF <<s, "inapp">> \in ledger THEN 1 ELSE 0

(* The ledger is "proof that one organization was already told": a claim   *)
(* for mail stands exactly when the messages do, so neither a failed job   *)
(* nor an organization with nobody to mail uses a subject up, and one for  *)
(* the centre exactly when its entry does.  So nobody is told twice,       *)
(* whatever the overlap of jobs, and even if an address is removed and     *)
(* registered again in between.                                            *)
LedgerTellsTruth ==
    /\ MailedOnce
    /\ \A s \in Subjects :
         <<s, "email">> \in ledger <=> \E m \in outbox : m.subject = s
    /\ ClaimedEntriesAreUnique

(* A job puts a message in the outbox only for an address that was         *)
(* verified, subscribed and interested at some moment since the job began: *)
(* what was unsubscribed, removed or unverified before stays unmailed.     *)
MailOnlyWhileDeliverable ==
    [][\A m \in outbox' \ outbox : \E j \in Jobs : m.row \in window[j]]_vars

(* "unsubscribing is honoured for good": a stopped address receives mail   *)
(* again only by a click on a verification link nobody clicked before.     *)
StoppedForGood ==
    [][\A r \in stopped \cap live' : r \notin stopped' =>
          token[r] # 0 /\ token[r] \in clicked' \ clicked]_vars

(* What a recipient has stopped stays stopped: of a job that reads its     *)
(* recipients and waits, and of links clicked in any order                 *)
(* (notifications/service.py:233-257, 393-407).                            *)
StopsAreHonoured == MailOnlyWhileDeliverable /\ StoppedForGood

(* Violated.  The unsubscribe token "goes into the unsubscribe link of     *)
(* every message" (models.py:184): the link in a message finds its row.    *)
UnsubscribeLinkWorks ==
    \A m \in outbox : m.row \in live => m.row \in RowsOfLink(m.link)
=============================================================================
