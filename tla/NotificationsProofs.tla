------------------------- MODULE NotificationsProofs -------------------------
(***************************************************************************)
(* Theorems about what an organization is told: modules OrgNotifications   *)
(* and Digest.                                                             *)
(*                                                                         *)
(* OrgNotifications, for any number of rows,                               *)
(* addresses, subjects and overlapping jobs.  The ledger tells the truth   *)
(* because a claim is held by one job at a time and by none once it is in  *)
(* the ledger, and because a job that is about to mail, or to add an entry *)
(* that needs a claim, holds it.  An address is mailed once because the    *)
(* rows a job has read had different addresses, and an address never       *)
(* changes.  A stop lasts because every link is of one row and is dropped  *)
(* with its click.                                                         *)
(*                                                                         *)
(* Digest, for any length of a day, times, timezones, matches, edits and   *)
(* failures.  While the timezone stands the dates are covered in their     *)
(* order, so that the stamp of the last one keeps every other from a       *)
(* second digest; and a window opens at the moment the last digest was due *)
(* at, which is before that digest was read.                               *)
(***************************************************************************)
EXTENDS OrgNotifications, Digest, TLAPS

Busy == {j \in Jobs : at[j] # "idle"}

(* No two live rows, and no two a job has read, are of one address.        *)
AddressesApart ==
    /\ \A r \in live : addr[r] # None
    /\ \A q, r \in live : addr[q] = addr[r] => q = r
    /\ \A j \in Jobs : \A r \in to[j] : addr[r] # None
    /\ \A j \in Jobs : \A q, r \in to[j] : addr[q] = addr[r] => q = r

(* A claim that is held is nobody else's, and is not in the ledger. *)
ClaimsApart ==
    \A j \in Jobs : \A c \in held[j] :
        c \notin ledger /\ \A i \in Jobs \ {j} : c \notin held[i]

(* What a job holds is what it is going to tell. *)
Meant(step, s, claims, rows, inapp) ==
    /\ s = None => step = "idle"
    /\ step = "idle" => claims = {} /\ rows = {} /\ ~inapp
    /\ \A c \in claims : c[1] = s
    /\ <<s, "email">> \in claims => step = "committing" /\ rows # {}
    /\ step = "committing" /\ rows # {} => <<s, "email">> \in claims
    /\ step = "claiming" => rows # {}
    /\ step \in {"claiming in-app", "reading"} => rows = {}
    /\ s \notin Instants => (inapp <=> <<s, "inapp">> \in claims)
    /\ step = "claiming in-app" => s \notin Instants /\ ~inapp

ClaimsAreMeant == \A j \in Jobs : Meant(at[j], about[j], held[j], to[j], entry[j])

(* What a job has read, and would read, was deliverable while it ran. *)
WindowsAreOpen ==
    \A j \in Jobs :
        /\ to[j] \subseteq window[j]
        /\ at[j] # "idle" => Deliverable(KindOf(about[j])) \subseteq window[j]

(* A link is of one row, has been issued and not been clicked. *)
LinksAreFresh ==
    /\ \A r \in Rows : token[r] <= issued /\ token[r] \notin clicked
    /\ \A q, r \in Rows : token[q] = token[r] /\ token[q] # 0 => q = r
    /\ \A n \in clicked : n <= issued

Recipients == AddressesApart /\ WindowsAreOpen /\ LinksAreFresh

Telling == ClaimsApart /\ ClaimsAreMeant /\ LedgerTellsTruth

IInv == TypeOK /\ Recipients /\ Telling

LEMMA KindType == ASSUME NEW s \in Subjects PROVE KindOf(s) \in Kinds
BY DEF KindOf, Kinds, Subjects

LEMMA InitIInv == ASSUME Init PROVE IInv
<1>1. TypeOK
  BY NotificationsAssumption DEF Init, TypeOK, Steps
<1>2. Recipients
  BY NotificationsAssumption DEF Init, Recipients, AddressesApart, WindowsAreOpen, LinksAreFresh
<1>3. Telling
  <2>1. ClaimsApart /\ ClaimsAreMeant
    BY DEF Init, ClaimsApart, ClaimsAreMeant, Meant
  <2>2. MailedOnce /\ \A s \in Subjects : <<s, "email">> \in ledger <=> \E m \in outbox : m.subject = s
    BY DEF Init, MailedOnce
  <2>3. ClaimedEntriesAreUnique
    BY DEF Init, ClaimedEntriesAreUnique, Subjects
  <2>4. QED
    BY <2>1, <2>2, <2>3 DEF Telling, LedgerTellsTruth
<1>4. QED
  BY <1>1, <1>2, <1>3 DEF IInv

-----------------------------------------------------------------------------
(* Requests leave the jobs and what was sent alone.                        *)

LEMMA TellingStays == ASSUME Telling, UNCHANGED <<sent, jobs>> PROVE Telling'
BY DEF Telling, ClaimsApart, ClaimsAreMeant, LedgerTellsTruth, MailedOnce,
       ClaimedEntriesAreUnique, sent, jobs

(* A link that is issued is new. *)
LEMMA IssueKeeps ==
    ASSUME IInv, NEW r \in Rows, IssueLink(r), clicked' = clicked
    PROVE  /\ token' \in [Rows -> 0..MaxLinks] /\ issued' \in 0..MaxLinks
           /\ LinksAreFresh'
<1>1. issued \in Nat /\ MaxLinks \in Nat /\ issued + 1 <= MaxLinks
  BY NotificationsAssumption DEF IssueLink, IInv, TypeOK
<1>2. /\ token' = [token EXCEPT ![r] = issued + 1] /\ issued' = issued + 1
      /\ token \in [Rows -> 0..MaxLinks] /\ clicked \subseteq 1..MaxLinks
  BY DEF IssueLink, IInv, TypeOK
<1>3. /\ \A q \in Rows : token[q] <= issued /\ token[q] \notin clicked
      /\ \A p, q \in Rows : token[p] = token[q] /\ token[p] # 0 => p = q
      /\ \A n \in clicked : n <= issued
  BY DEF IInv, Recipients, LinksAreFresh
<1>4. \A q \in Rows : token[q] \in Nat
  BY <1>1, <1>2
<1>5. /\ token'[r] = issued + 1 /\ \A q \in Rows \ {r} : token'[q] = token[q]
  BY <1>2
<1>6. LinksAreFresh'
  <2>1. \A q \in Rows : token'[q] <= issued' /\ token'[q] \notin clicked
    BY <1>1, <1>2, <1>3, <1>4, <1>5
  <2>2. \A p, q \in Rows : token'[p] = token'[q] /\ token'[p] # 0 => p = q
    BY <1>1, <1>3, <1>4, <1>5
  <2>3. \A n \in clicked : n <= issued'
    <3>1. \A n \in clicked : n \in Nat
      BY <1>1, <1>2
    <3>2. QED
      BY <1>1, <1>2, <1>3, <3>1
  <2>4. QED
    BY <2>1, <2>2, <2>3 DEF LinksAreFresh
<1>7. QED
  BY <1>1, <1>2, <1>6

LEMMA AddIInv ==
    ASSUME IInv, NEW r \in Rows, NEW a \in Addresses, NEW ts \in Subscriptions,
           AddRecipient(r, a, ts)
    PROVE  IInv'
<1>1. /\ addr[r] = None /\ \A q \in live : addr[q] # a
      /\ live' = live \cup {r} /\ addr' = [addr EXCEPT ![r] = a]
      /\ types' = [types EXCEPT ![r] = ts]
      /\ UNCHANGED <<verified, stopped, sent, jobs, resending, clicked, window, failures>>
      /\ IssueLink(r)
  BY DEF AddRecipient
<1>2. /\ a # None /\ ts \subseteq Kinds
      /\ r \notin live /\ r \notin verified /\ \A j \in Jobs : r \notin to[j]
  BY <1>1, NotificationsAssumption DEF IInv, TypeOK, Recipients, AddressesApart
<1>3. /\ token' \in [Rows -> 0..MaxLinks] /\ issued' \in 0..MaxLinks /\ LinksAreFresh'
  BY <1>1, IssueKeeps
<1>4. TypeOK'
  BY <1>1, <1>2, <1>3 DEF IInv, TypeOK, sent, jobs
<1>5. AddressesApart'
  BY <1>1, <1>2 DEF IInv, TypeOK, Recipients, AddressesApart, jobs
<1>6. WindowsAreOpen'
  <2>1. \A k : Deliverable(k)' = Deliverable(k)
    BY <1>1, <1>2 DEF Deliverable, Wants, IInv, TypeOK
  <2>2. QED
    BY <1>1, <2>1 DEF IInv, Recipients, WindowsAreOpen, jobs
<1>7. QED
  BY <1>1, <1>3, <1>4, <1>5, <1>6, TellingStays DEF IInv, Recipients

LEMMA ResendIInv ==
    ASSUME IInv, NEW r \in Rows, ResendRead(r) \/ ResendWrite(r) PROVE IInv'
<1>1. /\ UNCHANGED <<live, addr, types, verified, stopped, sent, jobs, clicked, window,
                     failures>>
      /\ resending' \subseteq Rows
      /\ IssueLink(r) \/ UNCHANGED <<token, issued>>
  BY DEF ResendRead, ResendWrite, table, history, IInv, TypeOK
<1>2. /\ token' \in [Rows -> 0..MaxLinks] /\ issued' \in 0..MaxLinks /\ LinksAreFresh'
  <2>1. CASE IssueLink(r)
    BY <1>1, <2>1, IssueKeeps
  <2>2. CASE UNCHANGED <<token, issued>>
    BY <1>1, <2>2 DEF IInv, TypeOK, Recipients, LinksAreFresh
  <2>3. QED
    BY <1>1, <2>1, <2>2
<1>3. TypeOK'
  BY <1>1, <1>2 DEF IInv, TypeOK, sent, jobs
<1>4. AddressesApart' /\ WindowsAreOpen'
  BY <1>1 DEF IInv, Recipients, AddressesApart, WindowsAreOpen, Deliverable, Wants, jobs
<1>5. QED
  BY <1>1, <1>2, <1>3, <1>4, TellingStays DEF IInv, Recipients

LEMMA UpdateIInv ==
    ASSUME IInv, NEW r \in Rows, NEW ts \in Subscriptions, UpdateRecipient(r, ts)
    PROVE  IInv'
<1>1. /\ types' = [types EXCEPT ![r] = ts] /\ ts \subseteq Kinds
      /\ window' = [j \in Jobs |-> IF /\ at[j] # "idle"
                                      /\ r \in verified \ stopped
                                      /\ ts = {} \/ KindOf(about[j]) \in ts
                                   THEN window[j] \cup {r} ELSE window[j]]
      /\ UNCHANGED <<live, addr, verified, stopped, token, sent, jobs, resending, issued,
                     clicked, failures>>
  BY NotificationsAssumption DEF UpdateRecipient
<1>2. \A j \in Jobs : window[j] \subseteq window'[j] /\ window'[j] \subseteq Rows
  BY <1>1 DEF IInv, TypeOK
<1>3. TypeOK'
  BY <1>1, <1>2 DEF IInv, TypeOK, sent, jobs
<1>4. AddressesApart' /\ LinksAreFresh'
  BY <1>1 DEF IInv, Recipients, AddressesApart, LinksAreFresh, jobs
<1>5. WindowsAreOpen'
  <2>1. ASSUME NEW j \in Jobs, at[j] # "idle", NEW q \in Deliverable(KindOf(about[j]))'
        PROVE  q \in window'[j]
    <3>1. q \in verified \ stopped /\ q \in Rows /\ Wants(q, KindOf(about[j]))'
      BY <1>1 DEF Deliverable, IInv, TypeOK, jobs
    <3>2. CASE q = r
      BY <1>1, <2>1, <3>1, <3>2 DEF Wants, IInv, TypeOK, jobs
    <3>3. CASE q # r
      <4>1. q \in Deliverable(KindOf(about[j]))
        BY <1>1, <3>1, <3>3 DEF Deliverable, Wants, IInv, TypeOK, jobs
      <4>2. QED
        BY <1>2, <2>1, <4>1 DEF IInv, Recipients, WindowsAreOpen
    <3>4. QED
      BY <3>2, <3>3
  <2>2. QED
    BY <1>1, <1>2, <2>1 DEF IInv, Recipients, WindowsAreOpen, jobs
<1>6. QED
  BY <1>1, <1>3, <1>4, <1>5, TellingStays DEF IInv, Recipients

LEMMA RemoveIInv == ASSUME IInv, NEW r \in Rows, RemoveRecipient(r) PROVE IInv'
<1>1. /\ live' = live \ {r} /\ verified' = verified \ {r} /\ stopped' = stopped \ {r}
      /\ token' = [token EXCEPT ![r] = 0] /\ types' = [types EXCEPT ![r] = {}]
      /\ UNCHANGED <<addr, sent, jobs, resending, issued, clicked, window, failures>>
  BY DEF RemoveRecipient, history
<1>2. TypeOK'
  BY <1>1, NotificationsAssumption DEF IInv, TypeOK, sent, jobs
<1>3. AddressesApart'
  BY <1>1 DEF IInv, Recipients, AddressesApart, jobs
<1>4. LinksAreFresh'
  <2>1. token'[r] = 0 /\ \A q \in Rows \ {r} : token'[q] = token[q]
    BY <1>1 DEF IInv, TypeOK
  <2>2. 0 \notin clicked /\ 0 <= issued
    BY NotificationsAssumption DEF IInv, TypeOK
  <2>3. QED
    BY <1>1, <2>1, <2>2 DEF IInv, Recipients, LinksAreFresh
<1>5. WindowsAreOpen'
  <2>1. \A k : Deliverable(k)' \subseteq Deliverable(k)
    BY <1>1 DEF Deliverable, Wants, IInv, TypeOK
  <2>2. QED
    BY <1>1, <2>1 DEF IInv, Recipients, WindowsAreOpen, jobs
<1>6. QED
  BY <1>1, <1>2, <1>3, <1>4, <1>5, TellingStays DEF IInv, Recipients

LEMMA VerifyIInv ==
    ASSUME IInv, NEW r \in Rows, NEW n \in 1..MaxLinks, Verify(r, n) PROVE IInv'
<1>1. /\ r \in live /\ n # 0 /\ token[r] = n /\ token' = [token EXCEPT ![r] = 0]
      /\ verified' = verified \cup {r} /\ stopped' = stopped \ {r}
      /\ clicked' = clicked \cup {n}
      /\ window' = [j \in Jobs |-> IF at[j] # "idle" /\ Wants(r, KindOf(about[j]))
                                   THEN window[j] \cup {r} ELSE window[j]]
      /\ UNCHANGED <<live, addr, types, sent, jobs, resending, issued, failures>>
  BY DEF Verify, Confirm
<1>2. \A j \in Jobs : window[j] \subseteq window'[j] /\ window'[j] \subseteq Rows
  BY <1>1 DEF IInv, TypeOK
<1>3. TypeOK'
  BY <1>1, <1>2, NotificationsAssumption DEF IInv, TypeOK, sent, jobs
<1>4. AddressesApart'
  BY <1>1 DEF IInv, Recipients, AddressesApart, jobs
<1>5. LinksAreFresh'
  <2>1. token'[r] = 0 /\ \A q \in Rows \ {r} : token'[q] = token[q] /\ token[q] # n
    BY <1>1 DEF IInv, TypeOK, Recipients, LinksAreFresh
  <2>2. 0 \notin clicked /\ 0 <= issued /\ n <= issued
    BY <1>1, NotificationsAssumption DEF IInv, TypeOK, Recipients, LinksAreFresh
  <2>3. QED
    BY <1>1, <2>1, <2>2 DEF IInv, Recipients, LinksAreFresh
<1>6. WindowsAreOpen'
  <2>1. ASSUME NEW j \in Jobs, at[j] # "idle", NEW q \in Deliverable(KindOf(about[j]))'
        PROVE  q \in window'[j]
    <3>1. q \in verified' \ stopped' /\ Wants(q, KindOf(about[j]))
      BY <1>1 DEF Deliverable, Wants, jobs
    <3>2. CASE q = r
      BY <1>1, <2>1, <3>1, <3>2
    <3>3. CASE q # r
      <4>1. q \in Deliverable(KindOf(about[j]))
        BY <1>1, <3>1, <3>3 DEF Deliverable
      <4>2. QED
        BY <1>2, <2>1, <4>1 DEF IInv, Recipients, WindowsAreOpen
    <3>4. QED
      BY <3>2, <3>3
  <2>2. QED
    BY <1>1, <1>2, <2>1 DEF IInv, Recipients, WindowsAreOpen, jobs
<1>7. QED
  BY <1>1, <1>3, <1>4, <1>5, <1>6, TellingStays DEF IInv, Recipients

LEMMA UnsubscribeIInv == ASSUME IInv, NEW link, Unsubscribe(link) PROVE IInv'
<1>1. /\ stopped \subseteq stopped' /\ stopped' \subseteq live
      /\ UNCHANGED <<live, addr, types, verified, token, sent, jobs, resending, issued,
                     clicked, window, failures>>
  BY DEF Unsubscribe, RowsOfLink, history, IInv, TypeOK
<1>2. TypeOK'
  BY <1>1 DEF IInv, TypeOK, sent, jobs
<1>3. AddressesApart' /\ LinksAreFresh'
  BY <1>1 DEF IInv, Recipients, AddressesApart, LinksAreFresh, jobs
<1>4. WindowsAreOpen'
  <2>1. \A k : Deliverable(k)' \subseteq Deliverable(k)
    BY <1>1 DEF Deliverable, Wants
  <2>2. QED
    BY <1>1, <2>1 DEF IInv, Recipients, WindowsAreOpen, jobs
<1>5. QED
  BY <1>1, <1>2, <1>3, <1>4, TellingStays DEF IInv, Recipients

-----------------------------------------------------------------------------
(* Jobs leave the recipients alone.                                        *)

LEMMA RecipientsStay ==
    ASSUME IInv, UNCHANGED <<table, issued, clicked>>, NEW j \in Jobs,
           \A i \in Jobs \ {j} : to'[i] = to[i] /\ at'[i] = at[i] /\ about'[i] = about[i]
                                 /\ window'[i] = window[i],
           to'[j] = {} \/ to'[j] = to[j] \/ to'[j] = Deliverable(KindOf(about[j])),
           to'[j] \subseteq window'[j],
           at'[j] # "idle" => Deliverable(KindOf(about'[j])) \subseteq window'[j]
    PROVE  Recipients'
<1>1. UNCHANGED <<live, addr, types, verified, stopped, token, issued, clicked>>
  BY DEF table
<1>2. LinksAreFresh'
  BY <1>1 DEF IInv, Recipients, LinksAreFresh
<1>3. \A k : Deliverable(k)' = Deliverable(k)
  BY <1>1 DEF Deliverable, Wants
<1>4. WindowsAreOpen'
  BY <1>3 DEF IInv, Recipients, WindowsAreOpen
<1>5. AddressesApart'
  <2>1. Deliverable(KindOf(about[j])) \subseteq live
    BY DEF Deliverable, IInv, TypeOK
  <2>2. \A q, r \in to'[j] : addr[q] = addr[r] => q = r
    BY <2>1 DEF IInv, Recipients, AddressesApart
  <2>3. \A r \in to'[j] : addr[r] # None
    BY <2>1 DEF IInv, Recipients, AddressesApart
  <2>4. QED
    BY <1>1, <2>2, <2>3 DEF IInv, Recipients, AddressesApart
<1>6. QED
  BY <1>2, <1>4, <1>5 DEF Recipients

LEMMA BeginIInv ==
    ASSUME IInv, NEW j \in Jobs, NEW s \in Subjects, NEW inapp \in BOOLEAN, Begin(j, s, inapp)
    PROVE  IInv'
<1>1. /\ at[j] = "idle"
      /\ at' = [at EXCEPT ![j] = FirstStep(s, inapp)]
      /\ about' = [about EXCEPT ![j] = s]
      /\ entry' = [entry EXCEPT ![j] = inapp /\ s \in Instants]
      /\ window' = [window EXCEPT ![j] = {r \in verified \ stopped : Wants(r, KindOf(s))}]
      /\ UNCHANGED <<table, sent, held, to, resending, issued, clicked, failures>>
  BY DEF Begin
<1>2. /\ FirstStep(s, inapp) \in {"claiming in-app", "reading"}
      /\ FirstStep(s, inapp) = "claiming in-app" => s \notin Instants
      /\ s # None
  BY NotificationsAssumption DEF FirstStep, Subjects
<1>3. held[j] = {} /\ to[j] = {}
  BY <1>1 DEF IInv, Telling, ClaimsAreMeant, Meant
<1>4. TypeOK'
  <2>1. {r \in verified \ stopped : Wants(r, KindOf(s))} \subseteq Rows
    BY DEF IInv, TypeOK
  <2>2. (inapp /\ s \in Instants) \in BOOLEAN /\ FirstStep(s, inapp) \in Steps
    BY <1>2 DEF Steps
  <2>3. QED
    BY <1>1, <2>1, <2>2 DEF IInv, TypeOK, table, sent
<1>5. Recipients'
  <2>1. window'[j] = Deliverable(KindOf(s)) /\ about'[j] = s
    BY <1>1 DEF IInv, TypeOK, Deliverable
  <2>2. \A i \in Jobs \ {j} : to'[i] = to[i] /\ at'[i] = at[i] /\ about'[i] = about[i]
                              /\ window'[i] = window[i]
    BY <1>1 DEF IInv, TypeOK
  <2>3. to'[j] = {}
    BY <1>1, <1>3
  <2>4. QED
    BY <1>1, <2>1, <2>2, <2>3, RecipientsStay
<1>6. ClaimsApart' /\ LedgerTellsTruth'
  BY <1>1 DEF IInv, Telling, ClaimsApart, LedgerTellsTruth, MailedOnce,
              ClaimedEntriesAreUnique, sent
<1>7. ClaimsAreMeant'
  <2>1. /\ at'[j] = FirstStep(s, inapp) /\ about'[j] = s /\ held'[j] = {} /\ to'[j] = {}
        /\ s \notin Instants => ~entry'[j]
    BY <1>1, <1>3 DEF IInv, TypeOK
  <2>2. \A i \in Jobs \ {j} : /\ to'[i] = to[i] /\ at'[i] = at[i] /\ about'[i] = about[i]
                              /\ held'[i] = held[i] /\ entry'[i] = entry[i]
    BY <1>1 DEF IInv, TypeOK
  <2>3. QED
    BY <1>2, <2>1, <2>2 DEF IInv, Telling, ClaimsAreMeant, Meant
<1>8. QED
  BY <1>4, <1>5, <1>6, <1>7 DEF IInv, Telling

(* What an insert leaves held. *)
LEMMA ClaimKeeps ==
    ASSUME IInv, NEW j \in Jobs, NEW c \in Claims, Claim(j, c), ledger' = ledger
    PROVE  /\ held' \in [Jobs -> SUBSET Claims] /\ ClaimsApart'
           /\ held'[j] = IF c \in ledger THEN held[j] ELSE held[j] \cup {c}
           /\ \A i \in Jobs \ {j} : held'[i] = held[i]
<1>1. /\ \A i \in Jobs \ {j} : c \notin held[i]
      /\ held' = [held EXCEPT ![j] = IF c \in ledger THEN @ ELSE @ \cup {c}]
  BY DEF Claim
<1>2. /\ held'[j] = IF c \in ledger THEN held[j] ELSE held[j] \cup {c}
      /\ \A i \in Jobs \ {j} : held'[i] = held[i]
      /\ held' \in [Jobs -> SUBSET Claims]
  BY <1>1 DEF IInv, TypeOK
<1>3. ClaimsApart'
  BY <1>1, <1>2 DEF IInv, Telling, ClaimsApart
<1>4. QED
  BY <1>2, <1>3

LEMMA LedgerStays ==
    ASSUME LedgerTellsTruth, UNCHANGED <<ledger, outbox, centre>> PROVE LedgerTellsTruth'
BY DEF LedgerTellsTruth, MailedOnce, ClaimedEntriesAreUnique

LEMMA ClaimInappIInv == ASSUME IInv, NEW j \in Jobs, ClaimInapp(j) PROVE IInv'
<1> DEFINE s == about[j]
           c == <<s, "inapp">>
<1>1. /\ at[j] = "claiming in-app" /\ Claim(j, c)
      /\ entry' = [entry EXCEPT ![j] = c \notin ledger]
      /\ at' = [at EXCEPT ![j] = IF s \in Updates THEN "committing" ELSE "reading"]
      /\ UNCHANGED <<table, sent, about, to, resending, history>>
  BY DEF ClaimInapp
<1>2. s \in Subjects /\ s \notin Instants /\ c \in Claims /\ to[j] = {} /\ ~entry[j]
  BY <1>1 DEF IInv, TypeOK, Telling, ClaimsAreMeant, Meant, Claims
<1>3. /\ held' \in [Jobs -> SUBSET Claims] /\ ClaimsApart'
      /\ held'[j] = IF c \in ledger THEN held[j] ELSE held[j] \cup {c}
      /\ \A i \in Jobs \ {j} : held'[i] = held[i]
  BY <1>1, <1>2, ClaimKeeps DEF sent
<1>4. /\ at'[j] \in {"committing", "reading"} /\ (entry'[j] <=> c \notin ledger)
      /\ \A i \in Jobs \ {j} : at'[i] = at[i] /\ entry'[i] = entry[i]
  BY <1>1 DEF IInv, TypeOK
<1>5. TypeOK'
  <2>1. at' \in [Jobs -> Steps] /\ entry' \in [Jobs -> BOOLEAN]
    BY <1>1 DEF IInv, TypeOK, Steps
  <2>2. QED
    BY <1>1, <1>3, <2>1 DEF IInv, TypeOK, table, sent, history
<1>6. Recipients'
  <2>1. to'[j] \subseteq window'[j] /\ Deliverable(KindOf(about'[j])) \subseteq window'[j]
    BY <1>1 DEF IInv, Recipients, WindowsAreOpen, history
  <2>2. QED
    BY <1>1, <1>4, <2>1, RecipientsStay DEF history
<1>7. ClaimsAreMeant'
  <2>1. /\ held'[j] \subseteq held[j] \cup {c} /\ c # <<s, "email">>
        /\ c \in held'[j] <=> c \notin ledger
    <3>1. c \notin held[j]
      BY <1>2 DEF IInv, Telling, ClaimsAreMeant, Meant
    <3>2. QED
      BY <1>3, <3>1
  <2>2. /\ <<s, "email">> \notin held'[j]
        /\ \A d \in held'[j] : d[1] = s
    <3>1. <<s, "email">> \notin held[j] /\ \A d \in held[j] : d[1] = s
      BY <1>1 DEF IInv, Telling, ClaimsAreMeant, Meant
    <3>2. QED
      BY <2>1, <3>1
  <2>3. s # None
    BY <1>2, NotificationsAssumption
  <2>4. about' = about /\ to' = to
    BY <1>1
  <2>5. Meant(at'[j], about'[j], held'[j], to'[j], entry'[j])
    BY <1>2, <1>4, <2>1, <2>2, <2>3, <2>4 DEF Meant
  <2>6. QED
    BY <1>3, <1>4, <2>4, <2>5 DEF IInv, Telling, ClaimsAreMeant
<1>8. QED
  BY <1>1, <1>3, <1>5, <1>6, <1>7, LedgerStays DEF IInv, Telling, sent

LEMMA ReadIInv == ASSUME IInv, NEW j \in Jobs, ReadRecipients(j) PROVE IInv'
<1> DEFINE rs == Deliverable(KindOf(about[j]))
<1>1. /\ at[j] = "reading" /\ to' = [to EXCEPT ![j] = rs]
      /\ at' = [at EXCEPT ![j] = IF rs = {} THEN "committing" ELSE "claiming"]
      /\ UNCHANGED <<table, sent, about, held, entry, resending, history>>
  BY DEF ReadRecipients
<1>2. rs \subseteq Rows
  BY DEF Deliverable, IInv, TypeOK
<1>3. /\ to'[j] = rs /\ at'[j] = (IF rs = {} THEN "committing" ELSE "claiming")
      /\ \A i \in Jobs \ {j} : to'[i] = to[i] /\ at'[i] = at[i]
  BY <1>1 DEF IInv, TypeOK
<1>4. TypeOK'
  BY <1>1, <1>2 DEF IInv, TypeOK, Steps, table, sent, history
<1>5. Recipients'
  <2>1. rs \subseteq window'[j] /\ about' = about
    BY <1>1 DEF IInv, Recipients, WindowsAreOpen, history
  <2>2. QED
    BY <1>1, <1>3, <2>1, RecipientsStay DEF history
<1>6. ClaimsAreMeant'
  <2>1. Meant("reading", about[j], held[j], to[j], entry[j])
    BY <1>1 DEF IInv, Telling, ClaimsAreMeant
  <2>2. Meant(at'[j], about[j], held[j], rs, entry[j])
    BY <1>3, <2>1 DEF Meant
  <2>3. QED
    BY <1>1, <1>3, <2>2 DEF IInv, Telling, ClaimsAreMeant
<1>7. ClaimsApart' /\ LedgerTellsTruth'
  BY <1>1, LedgerStays DEF IInv, Telling, ClaimsApart, sent
<1>8. QED
  BY <1>4, <1>5, <1>6, <1>7 DEF IInv, Telling

LEMMA ClaimEmailIInv == ASSUME IInv, NEW j \in Jobs, ClaimEmail(j) PROVE IInv'
<1> DEFINE s == about[j]
           c == <<s, "email">>
<1>1. /\ at[j] = "claiming" /\ Claim(j, c)
      /\ to' = [to EXCEPT ![j] = IF c \in ledger THEN {} ELSE @]
      /\ at' = [at EXCEPT ![j] = "committing"]
      /\ UNCHANGED <<table, sent, about, entry, resending, history>>
  BY DEF ClaimEmail
<1>2. s \in Subjects /\ s # None /\ c \in Claims /\ to[j] # {} /\ c \notin held[j]
  BY <1>1, NotificationsAssumption DEF IInv, TypeOK, Telling, ClaimsAreMeant, Meant, Claims
<1>3. /\ held' \in [Jobs -> SUBSET Claims] /\ ClaimsApart'
      /\ held'[j] = IF c \in ledger THEN held[j] ELSE held[j] \cup {c}
      /\ \A i \in Jobs \ {j} : held'[i] = held[i]
  BY <1>1, <1>2, ClaimKeeps DEF sent
<1>4. /\ at'[j] = "committing" /\ to'[j] = (IF c \in ledger THEN {} ELSE to[j])
      /\ \A i \in Jobs \ {j} : at'[i] = at[i] /\ to'[i] = to[i]
  BY <1>1 DEF IInv, TypeOK
<1>5. TypeOK'
  <2>1. at' \in [Jobs -> Steps] /\ to' \in [Jobs -> SUBSET Rows]
    BY <1>1 DEF IInv, TypeOK, Steps
  <2>2. QED
    BY <1>1, <1>3, <2>1 DEF IInv, TypeOK, table, sent, history
<1>6. Recipients'
  <2>1. to'[j] \subseteq window'[j] /\ Deliverable(KindOf(about'[j])) \subseteq window'[j]
    BY <1>1, <1>4 DEF IInv, Recipients, WindowsAreOpen, history
  <2>2. QED
    BY <1>1, <1>4, <2>1, RecipientsStay DEF history
<1>7. ClaimsAreMeant'
  <2>1. <<s, "inapp">> # c
    OBVIOUS
  <2>2. /\ c \in held'[j] <=> to'[j] # {}
        /\ <<s, "inapp">> \in held'[j] <=> <<s, "inapp">> \in held[j]
    BY <1>2, <1>3, <1>4, <2>1
  <2>3. \A d \in held'[j] : d[1] = s
    <3>1. \A d \in held[j] : d[1] = s
      BY DEF IInv, Telling, ClaimsAreMeant, Meant
    <3>2. QED
      BY <1>3, <3>1
  <2>4. Meant("claiming", s, held[j], to[j], entry[j])
    BY <1>1 DEF IInv, Telling, ClaimsAreMeant
  <2>5. Meant("committing", s, held'[j], to'[j], entry[j])
    BY <1>2, <2>2, <2>3, <2>4 DEF Meant
  <2>6. QED
    BY <1>1, <1>3, <1>4, <2>5 DEF IInv, Telling, ClaimsAreMeant
<1>8. QED
  BY <1>1, <1>3, <1>5, <1>6, <1>7, LedgerStays DEF IInv, Telling, sent

(* A job leaves, with or without what it did. *)
LEMMA LeaveKeeps ==
    ASSUME IInv, NEW j \in Jobs, Leave(j)
    PROVE  /\ at'[j] = "idle" /\ about'[j] = None /\ held'[j] = {} /\ ~entry'[j] /\ to'[j] = {}
           /\ \A i \in Jobs \ {j} : /\ to'[i] = to[i] /\ at'[i] = at[i] /\ about'[i] = about[i]
                                    /\ held'[i] = held[i] /\ entry'[i] = entry[i]
                                    /\ window'[i] = window[i]
           /\ /\ at' \in [Jobs -> Steps] /\ about' \in [Jobs -> Subjects \cup {None}]
              /\ held' \in [Jobs -> SUBSET Claims] /\ entry' \in [Jobs -> BOOLEAN]
              /\ to' \in [Jobs -> SUBSET Rows] /\ window' \in [Jobs -> SUBSET Rows]
           /\ ClaimsAreMeant'
<1>1. /\ at'[j] = "idle" /\ about'[j] = None /\ held'[j] = {} /\ ~entry'[j] /\ to'[j] = {}
      /\ \A i \in Jobs \ {j} : /\ to'[i] = to[i] /\ at'[i] = at[i] /\ about'[i] = about[i]
                               /\ held'[i] = held[i] /\ entry'[i] = entry[i]
                               /\ window'[i] = window[i]
  BY DEF Leave, IInv, TypeOK
<1>2. /\ at' \in [Jobs -> Steps] /\ about' \in [Jobs -> Subjects \cup {None}]
      /\ held' \in [Jobs -> SUBSET Claims] /\ entry' \in [Jobs -> BOOLEAN]
      /\ to' \in [Jobs -> SUBSET Rows] /\ window' \in [Jobs -> SUBSET Rows]
  BY DEF Leave, IInv, TypeOK, Steps
<1>3. ClaimsAreMeant'
  <2>1. Meant(at'[j], about'[j], held'[j], to'[j], entry'[j])
    BY <1>1, NotificationsAssumption DEF Meant, Subjects
  <2>2. QED
    BY <1>1, <2>1 DEF IInv, Telling, ClaimsAreMeant
<1>4. QED
  BY <1>1, <1>2, <1>3

LEMMA RollBackIInv == ASSUME IInv, NEW j \in Jobs, RollBack(j) PROVE IInv'
<1>1. /\ Leave(j) /\ failures' \in 0..MaxFailures
      /\ UNCHANGED <<table, sent, resending, issued, clicked>>
  BY NotificationsAssumption DEF RollBack, IInv, TypeOK
<1>2. TypeOK'
  BY <1>1, LeaveKeeps DEF IInv, TypeOK, table, sent
<1>3. Recipients'
  BY <1>1, LeaveKeeps, RecipientsStay
<1>4. ClaimsApart'
  BY <1>1, LeaveKeeps DEF IInv, Telling, ClaimsApart, sent
<1>5. LedgerTellsTruth'
  BY <1>1, LedgerStays DEF IInv, Telling, sent
<1>6. QED
  BY <1>1, <1>2, <1>3, <1>4, <1>5, LeaveKeeps DEF IInv, Telling

LEMMA CommitIInv == ASSUME IInv, NEW j \in Jobs, Commit(j) PROVE IInv'
<1> DEFINE s == about[j]
           new == {MessageTo(r, s) : r \in to[j]}
<1>1. /\ at[j] = "committing" /\ ledger' = ledger \cup held[j] /\ outbox' = outbox \cup new
      /\ centre' = IF entry[j] THEN [centre EXCEPT ![s] = @ + 1] ELSE centre
      /\ announced' = announced \cup (Instants \cap {s})
      /\ Leave(j)
      /\ UNCHANGED <<table, resending, issued, clicked, failures>>
  BY DEF Commit
<1>2. s \in Subjects /\ s # None
  BY <1>1, NotificationsAssumption DEF IInv, TypeOK, Telling, ClaimsAreMeant, Meant
<1>3. \A m \in new : m \in Messages /\ m.subject = s
  <2>1. \A r \in to[j] : r \in Rows /\ addr[r] \in Addresses
    BY DEF IInv, TypeOK, Recipients, AddressesApart
  <2>2. ASSUME NEW r \in to[j]
        PROVE  MessageTo(r, s) \in Messages /\ MessageTo(r, s).subject = s
    BY <1>2, <2>1 DEF MessageTo, Messages
  <2>3. QED
    BY <2>2
<1>4. \A r \in to[j] : MessageTo(r, s).to = addr[r] /\ MessageTo(r, s).subject = s
  BY DEF MessageTo
<1> HIDE DEF new
<1>5. TypeOK'
  <2>1. centre' \in [Subjects -> Nat]
    BY <1>1, <1>2 DEF IInv, TypeOK
  <2>2. QED
    BY <1>1, <1>3, <2>1, LeaveKeeps DEF IInv, TypeOK, table
<1>6. Recipients'
  BY <1>1, LeaveKeeps, RecipientsStay
<1>7. ClaimsApart'
  BY <1>1, LeaveKeeps DEF IInv, Telling, ClaimsApart
<1>8. /\ <<s, "email">> \in held[j] <=> new # {}
      /\ new # {} => <<s, "email">> \notin ledger
  <2>1. <<s, "email">> \in held[j] <=> to[j] # {}
    <3>1. Meant("committing", s, held[j], to[j], entry[j])
      BY <1>1 DEF IInv, Telling, ClaimsAreMeant
    <3>2. QED
      BY <3>1 DEF Meant
  <2>2. new # {} <=> to[j] # {}
    BY DEF new
  <2>3. QED
    BY <2>1, <2>2 DEF IInv, Telling, ClaimsApart
<1>9. MailedOnce'
  <2> SUFFICES ASSUME NEW m \in outbox', NEW n \in outbox', m.subject = n.subject, m.to = n.to
               PROVE  m = n
    BY DEF MailedOnce
  <2>1. CASE m \in outbox /\ n \in outbox
    BY <2>1 DEF IInv, Telling, LedgerTellsTruth, MailedOnce
  <2>2. CASE m \in new /\ n \in new
    <3>1. PICK q \in to[j], r \in to[j] : m = MessageTo(q, s) /\ n = MessageTo(r, s)
      BY <2>2 DEF new
    <3>2. addr[q] = addr[r]
      BY <1>4, <3>1
    <3>3. QED
      BY <3>1, <3>2 DEF IInv, Recipients, AddressesApart
  <2>3. CASE (m \in new /\ n \in outbox) \/ (n \in new /\ m \in outbox)
    <3>1. \E o \in outbox : o.subject = s
      BY <1>3, <2>3
    <3>2. <<s, "email">> \in ledger
      BY <1>2, <3>1 DEF IInv, Telling, LedgerTellsTruth
    <3>3. QED
      BY <1>8, <2>3, <3>2
  <2>4. QED
    BY <1>1, <2>1, <2>2, <2>3
<1>10. ASSUME NEW u \in Subjects
       PROVE  (<<u, "email">> \in ledger <=> \E m \in outbox : m.subject = u)'
  <2>1. <<u, "email">> \in held[j] <=> u = s /\ new # {}
    <3>1. <<u, "email">> \in held[j] => u = s
      BY DEF IInv, Telling, ClaimsAreMeant, Meant
    <3>2. QED
      BY <1>8, <3>1
  <2>2. (\E m \in new : m.subject = u) <=> u = s /\ new # {}
    BY <1>3
  <2>3. QED
    BY <1>1, <2>1, <2>2 DEF IInv, Telling, LedgerTellsTruth
<1>11. ClaimedEntriesAreUnique'
  <2> SUFFICES ASSUME NEW u \in Reminders \cup Updates
               PROVE  centre'[u] = IF <<u, "inapp">> \in ledger' THEN 1 ELSE 0
    BY DEF ClaimedEntriesAreUnique
  <2>1. u \notin Instants /\ u \in Subjects
    BY NotificationsAssumption DEF Subjects
  <2>2. centre[u] = IF <<u, "inapp">> \in ledger THEN 1 ELSE 0
    BY DEF IInv, Telling, LedgerTellsTruth, ClaimedEntriesAreUnique
  <2>3. <<u, "inapp">> \in held[j] => u = s /\ <<u, "inapp">> \notin ledger
    BY DEF IInv, Telling, ClaimsAreMeant, Meant, ClaimsApart
  <2>4. u = s => (entry[j] <=> <<u, "inapp">> \in held[j])
    BY <2>1 DEF IInv, Telling, ClaimsAreMeant, Meant
  <2>5. centre'[u] = IF u = s /\ entry[j] THEN centre[u] + 1 ELSE centre[u]
    BY <1>1, <1>2, <2>1 DEF IInv, TypeOK
  <2>6. <<u, "inapp">> \in ledger' <=> <<u, "inapp">> \in ledger \/ <<u, "inapp">> \in held[j]
    BY <1>1
  <2>7. QED
    BY <2>2, <2>3, <2>4, <2>5, <2>6
<1>12. LedgerTellsTruth'
  BY <1>9, <1>10, <1>11 DEF LedgerTellsTruth
<1>13. QED
  BY <1>1, <1>5, <1>6, <1>7, <1>12, LeaveKeeps DEF IInv, Telling

LEMMA StepIInv == IInv /\ [Next]_vars => IInv'
<1> SUFFICES ASSUME IInv, [Next]_vars PROVE IInv'
  OBVIOUS
<1>1. CASE Request
  BY <1>1, AddIInv, ResendIInv, UpdateIInv, RemoveIInv, VerifyIInv, UnsubscribeIInv DEF Request
<1>2. ASSUME NEW j \in Jobs, JobStep(j)
      PROVE  IInv'
  BY <1>2, BeginIInv, ClaimInappIInv, ReadIInv, ClaimEmailIInv, CommitIInv, RollBackIInv
  DEF JobStep
<1>3. CASE UNCHANGED vars
  <2>1. TypeOK'
    BY <1>3 DEF vars, IInv, TypeOK
  <2>2. Recipients'
    BY <1>3 DEF vars, IInv, Recipients, AddressesApart, WindowsAreOpen, LinksAreFresh,
                Deliverable, Wants
  <2>3. Telling'
    BY <1>3, TellingStays DEF vars, IInv, sent, jobs
  <2>4. QED
    BY <2>1, <2>2, <2>3 DEF IInv
<1>4. QED
  BY <1>1, <1>2, <1>3 DEF Next

-----------------------------------------------------------------------------
(* Requests of admins and recipients, and jobs that overlap, keep to the   *)
(* invariant (notifications/service.py, jobs/tasks/notifications.py).      *)
THEOREM NotificationsInductive == Spec => []IInv
<1>1. Init => IInv
  BY InitIInv
<1>2. IInv /\ [Next]_vars => IInv'
  BY StepIInv
<1>3. QED
  BY <1>1, <1>2, PTL DEF Spec

(* Every variable keeps its type.                                          *)
THEOREM NotificationsTypeCorrect == Spec => []TypeOK
<1>1. IInv => TypeOK
  BY DEF IInv
<1>2. QED
  BY <1>1, NotificationsInductive, PTL

(* The ledger is proof that one was told, and nobody is mailed the same    *)
(* thing twice (notifications/service.py, claim).                          *)
THEOREM LedgerIsProof == Spec => []LedgerTellsTruth
<1>1. IInv => LedgerTellsTruth
  BY DEF IInv, Telling
<1>2. QED
  BY <1>1, NotificationsInductive, PTL

(* A message goes to a row that was deliverable while its job ran, and a   *)
(* stop ends with a click on a link nobody has clicked before              *)
(* (notifications/service.py:233-257, 393-407).                            *)
THEOREM StopsHold == Spec => StopsAreHonoured
<1>1. IInv /\ [Next]_vars =>
        [\A m \in outbox' \ outbox : \E j \in Jobs : m.row \in window[j]]_vars
  <2> SUFFICES ASSUME IInv, Next, NEW m \in outbox' \ outbox
               PROVE  \E j \in Jobs : m.row \in window[j]
    OBVIOUS
  <2>1. PICK j \in Jobs : Commit(j)
    BY DEF Next, Request, JobStep, AddRecipient, ResendRead, ResendWrite, UpdateRecipient,
           RemoveRecipient, Verify, Unsubscribe, Begin, ClaimInapp, ReadRecipients, ClaimEmail,
           RollBack, sent
  <2>2. PICK r \in to[j] : m = MessageTo(r, about[j])
    BY <2>1 DEF Commit
  <2>3. m.row = r
    BY <2>2 DEF MessageTo
  <2>4. QED
    BY <2>2, <2>3 DEF IInv, Recipients, WindowsAreOpen
<1>2. IInv /\ [Next]_vars =>
        [\A r \in stopped \cap live' : r \notin stopped' =>
            token[r] # 0 /\ token[r] \in clicked' \ clicked]_vars
  <2> SUFFICES ASSUME IInv, Next, NEW r \in stopped \cap live', r \notin stopped'
               PROVE  token[r] # 0 /\ token[r] \in clicked' \ clicked
    OBVIOUS
  <2>1. PICK q \in Rows, n \in 1..MaxLinks : Verify(q, n)
    BY DEF Next, Request, JobStep, AddRecipient, ResendRead, ResendWrite, UpdateRecipient,
           RemoveRecipient, Unsubscribe, Begin, ClaimInapp, ReadRecipients, ClaimEmail,
           Commit, RollBack, table
  <2>2. q = r /\ n = token[r] /\ n # 0 /\ n \in clicked'
    BY <2>1 DEF Verify, Confirm
  <2>3. token[r] \notin clicked
    BY <2>2 DEF IInv, Recipients, LinksAreFresh
  <2>4. QED
    BY <2>2, <2>3
<1>3. QED
  BY <1>1, <1>2, NotificationsInductive, PTL
  DEF Spec, StopsAreHonoured, MailOnlyWhileDeliverable, StoppedForGood

-----------------------------------------------------------------------------
(* The daily digest.                                                       *)

(* A run has begun and not committed. *)
Underway == job \in {"running", "built"}

(* What a run has read, and what the last one that committed has left. *)
RunsRemembered ==
    /\ Underway =>
        /\ today \in Dates /\ since \in Int
        /\ run.start \in 0..MaxTime /\ run.start <= now /\ run.edits <= edits
    /\ job = "built" =>
        /\ run.read \in 0..MaxTime /\ run.start <= run.read
        /\ run.saw \subseteq visible
        /\ \A m \in run.saw : stamp[m] >= since => m \in picks
    /\ previous.edits <= edits
    /\ previous.read # Never =>
        /\ previous.start \in 0..MaxTime /\ previous.read \in 0..MaxTime
        /\ previous.start <= previous.read /\ last # Never

(* While the timezone stands, dates are covered in their order. *)
DatesInOrder ==
    edits = 0 =>
        /\ \A d \in Dates : covers[d] <= 1
        /\ ~swallowed
        /\ last # Never => last <= LocalDate
        /\ \A d \in Dates : covers[d] # 0 \/ d \in mailed => last # Never /\ d <= last
        /\ Underway => today <= LocalDate /\ (last # Never => last < today)

(* The moment of a date at which the digest is due, as the settings are. *)
DueAt(d) == d * DayLength + digestTime - offset

(* While the settings stand, a window opens before the digest it follows was
   read. *)
WindowsMeet ==
    /\ previous.read # Never /\ previous.onTime /\ previous.edits = edits =>
        DueAt(last) <= previous.start
    /\ Underway /\ run.onTime /\ run.edits = edits => DueAt(today) <= run.start
    /\ Underway /\ previous.read # Never /\ previous.onTime /\ previous.edits = run.edits =>
        since <= previous.read

(* The inductive invariant. *)
DigestIInv == DigestTypeOK /\ RunsRemembered /\ DatesInOrder /\ WindowsMeet

(* Bounds and lengths are natural numbers. *)
LEMMA DigestBounds ==
    /\ MaxTime \in Nat /\ MaxEdits \in Nat /\ MaxFailedRuns \in Nat
    /\ DayLength \in Nat /\ DayLength > 0
    /\ \A t \in DigestTimes : t \in Int
    /\ \A o \in Offsets : o \in Int
    /\ Never \notin Int
BY DigestAssumption

(* Division and remainder by a positive number. *)
LEMMA Quotient ==
    ASSUME NEW a \in Int, NEW k \in Nat, k > 0
    PROVE  /\ a \div k \in Int /\ a % k \in 0..(k - 1)
           /\ a = (a \div k) * k + (a % k)
<1>1. a \div k \in Int
  OBVIOUS
<1>2. a % k \in 0..(k - 1)
  OBVIOUS
<1>3. a = (a \div k) * k + (a % k)
  OBVIOUS
<1> QED  BY <1>1, <1>2, <1>3

(* A later moment is of no earlier date. *)
LEMMA QuotientGrows ==
    ASSUME NEW a \in Int, NEW b \in Int, NEW k \in Nat, k > 0, a <= b
    PROVE  a \div k <= b \div k
<1>1. PICK p \in Int, q \in 0..(k - 1) : p = a \div k /\ a = p * k + q
  BY Quotient
<1>2. PICK r \in Int, s \in 0..(k - 1) : r = b \div k /\ b = r * k + s
  BY Quotient
<1> QED  BY <1>1, <1>2

LEMMA DatesAreInt == \A d \in Dates : d \in Int /\ d # Never
<1> SUFFICES ASSUME NEW t \in 0..MaxTime, NEW o \in Offsets
             PROVE  (t + o) \div DayLength \in Int
  BY DigestBounds DEF Dates
<1> QED  BY Quotient, DigestBounds

LEMMA LocalDateIsDate ==
    ASSUME DigestTypeOK
    PROVE  LocalDate \in Dates /\ LocalDate \in Int /\ now + offset \in Int
<1>1. now \in 0..MaxTime /\ offset \in Offsets
  BY DEF DigestTypeOK
<1>2. LocalDate \in Dates
  BY <1>1 DEF LocalDate, Dates
<1> QED  BY <1>1, <1>2, DatesAreInt, DigestBounds

(* The invariant holds at first, and every step keeps it. *)
LEMMA InitDigest == DigestInit => DigestIInv
<1> SUFFICES ASSUME DigestInit PROVE DigestIInv
  OBVIOUS
<1> USE DigestBounds DEF DigestInit
<1>1. NoRun \in Runs
  BY DEF NoRun, Runs, Moments
<1>2. DigestTypeOK
  <2>1. now \in 0..MaxTime /\ edits \in 0..MaxEdits /\ failedRuns \in 0..MaxFailedRuns
    OBVIOUS
  <2>2. /\ enabled \in BOOLEAN /\ digestTime \in DigestTimes /\ offset \in Offsets
        /\ swallowed \in BOOLEAN /\ job = "none"
    OBVIOUS
  <2>3. stamp \in [Matches -> Moments] /\ covers \in [Dates -> Nat]
    BY DEF Moments
  <2>4. last = Never /\ today = Never /\ since = Never
    OBVIOUS
  <2>5. visible = {} /\ mailed = {} /\ picks = {} /\ run \in Runs /\ previous \in Runs
    BY <1>1
  <2> HIDE DEF DigestInit
  <2> QED  BY <2>1, <2>2, <2>3, <2>4, <2>5 DEF DigestTypeOK
<1>3. RunsRemembered
  BY DEF RunsRemembered, Underway, NoRun
<1>4. DatesInOrder
  BY DEF DatesInOrder, Underway
<1>5. WindowsMeet
  BY DEF WindowsMeet, Underway, NoRun
<1> QED  BY <1>2, <1>3, <1>4, <1>5 DEF DigestIInv

(* The clock moves the local date forward at most. *)
LEMMA TickDigest == DigestIInv /\ Tick => DigestIInv'
<1> SUFFICES ASSUME DigestIInv, Tick PROVE DigestIInv'
  OBVIOUS
<1> USE DigestBounds DEF Tick, settings
<1>1. DigestTypeOK'
  BY DEF DigestIInv, DigestTypeOK
<1>2. RunsRemembered'
  BY DEF DigestIInv, RunsRemembered, DigestTypeOK, Underway
<1>3. LocalDate <= LocalDate'
  <2>1. now + offset <= now' + offset' /\ now + offset \in Int /\ now' + offset' \in Int
    BY DEF DigestIInv, DigestTypeOK
  <2> QED  BY <2>1, QuotientGrows DEF LocalDate
<1>4. LocalDate \in Int /\ LocalDate' \in Int
  <2>1. now' + offset' \in Int
    BY DEF DigestIInv, DigestTypeOK
  <2> QED  BY <2>1, LocalDateIsDate, Quotient DEF DigestIInv, LocalDate
<1>5. DatesInOrder'
  BY <1>3, <1>4, DatesAreInt DEF DigestIInv, DatesInOrder, RunsRemembered, DigestTypeOK, Underway
<1>6. WindowsMeet'
  BY DEF DigestIInv, WindowsMeet, Underway, DueAt
<1> QED  BY <1>1, <1>2, <1>5, <1>6 DEF DigestIInv

(* Storing matches disturbs none of the dates. *)
LEMMA MatchDigest ==
    ASSUME DigestIInv, NEW m \in Matches, StampMatch(m) \/ CommitMatch(m)
    PROVE  DigestIInv'
<1> USE DigestBounds DEF settings
<1>1. CASE StampMatch(m)
  <2>1. stamp' \in [Matches -> Moments]
    BY <1>1 DEF StampMatch, DigestIInv, DigestTypeOK, Moments
  <2>2. \A k \in visible : stamp'[k] = stamp[k]
    BY <1>1 DEF StampMatch, DigestIInv, DigestTypeOK
  <2>3. DigestTypeOK'
    BY <1>1, <2>1, <2>2 DEF StampMatch, DigestIInv, DigestTypeOK
  <2>4. RunsRemembered'
    BY <1>1, <2>2 DEF StampMatch, DigestIInv, RunsRemembered, Underway
  <2>5. DatesInOrder' /\ WindowsMeet'
    BY <1>1 DEF StampMatch, DigestIInv, DatesInOrder, WindowsMeet, Underway, DueAt, LocalDate
  <2> QED  BY <2>3, <2>4, <2>5 DEF DigestIInv
<1>2. CASE CommitMatch(m)
  <2>1. DigestTypeOK'
    BY <1>2 DEF CommitMatch, DigestIInv, DigestTypeOK
  <2>2. RunsRemembered'
    BY <1>2 DEF CommitMatch, DigestIInv, RunsRemembered, Underway
  <2>3. DatesInOrder' /\ WindowsMeet'
    BY <1>2 DEF CommitMatch, DigestIInv, DatesInOrder, WindowsMeet, Underway, DueAt, LocalDate
  <2> QED  BY <2>1, <2>2, <2>3 DEF DigestIInv
<1> QED  BY <1>1, <1>2

(* A change of the settings is counted, and no promise outlives it. *)
LEMMA SettingsDigest ==
    ASSUME DigestIInv, NEW on \in BOOLEAN, NEW time \in DigestTimes, NEW zone \in Offsets,
           UpdateSettings(on, time, zone)
    PROVE  DigestIInv'
<1> USE DigestBounds DEF UpdateSettings
<1>1. edits \in Nat /\ edits' = edits + 1 /\ run \in Runs /\ previous \in Runs
  BY DEF DigestIInv, DigestTypeOK
<1>2. run.edits \in Nat /\ previous.edits \in Nat
  BY <1>1 DEF Runs
<1>3. DigestTypeOK'
  BY DEF DigestIInv, DigestTypeOK
<1>4. RunsRemembered'
  BY <1>1, <1>2 DEF DigestIInv, RunsRemembered, Underway
<1>5. DatesInOrder'
  BY <1>1 DEF DatesInOrder
<1>6. WindowsMeet'
  BY <1>1, <1>2 DEF DigestIInv, WindowsMeet, RunsRemembered, Underway
<1> QED  BY <1>3, <1>4, <1>5, <1>6 DEF DigestIInv

(* The jobs' own bookkeeping. *)
LEMMA QueueDigest == DigestIInv /\ (Dispatch \/ ExpireResult) => DigestIInv'
<1> SUFFICES ASSUME DigestIInv, Dispatch \/ ExpireResult PROVE DigestIInv'
  OBVIOUS
<1>0. /\ ~Underway /\ job' \in {"none", "queued"}
      /\ UNCHANGED <<now, enabled, digestTime, offset, last, stamp, visible, mailed, today, since,
                     picks, edits, failedRuns, run, previous, covers, swallowed>>
  BY DEF Dispatch, ExpireResult, settings, Underway
<1>1. DigestTypeOK'
  BY <1>0 DEF DigestIInv, DigestTypeOK
<1>2. RunsRemembered'
  BY <1>0 DEF DigestIInv, RunsRemembered, Underway
<1>3. DatesInOrder'
  BY <1>0 DEF DigestIInv, DatesInOrder, Underway, LocalDate
<1>4. WindowsMeet'
  BY <1>0 DEF DigestIInv, WindowsMeet, Underway, DueAt
<1> QED  BY <1>1, <1>2, <1>3, <1>4 DEF DigestIInv

(* A run opens its window where the last one was due. *)
LEMMA StartDigestIInv == DigestIInv /\ StartDigest => DigestIInv'
<1> SUFFICES ASSUME DigestIInv, StartDigest PROVE DigestIInv'
  OBVIOUS
<1> USE DigestBounds DEF settings
<1>0. UNCHANGED <<now, enabled, digestTime, offset, last, stamp, visible, mailed, picks, edits,
                  failedRuns, previous, covers, swallowed>>
  BY DEF StartDigest
<1>1. CASE job' = "kept" /\ UNCHANGED <<today, since, run>>
  <2>1. DigestTypeOK'
    BY <1>0, <1>1 DEF DigestIInv, DigestTypeOK
  <2>2. RunsRemembered'
    BY <1>0, <1>1 DEF DigestIInv, RunsRemembered, Underway
  <2>3. DatesInOrder'
    BY <1>0, <1>1 DEF DigestIInv, DatesInOrder, Underway, LocalDate
  <2>4. WindowsMeet'
    BY <1>0, <1>1 DEF DigestIInv, WindowsMeet, Underway, DueAt
  <2> QED  BY <2>1, <2>2, <2>3, <2>4 DEF DigestIInv
<1>2. CASE /\ last # LocalDate /\ job' = "running" /\ today' = LocalDate
           /\ since' = WindowStart(LocalDate)
           /\ run' = [NoRun EXCEPT !.start = now, !.edits = edits,
                                  !.onTime = LocalTime >= digestTime]
  <2>1. now \in 0..MaxTime /\ edits \in 0..MaxEdits /\ digestTime \in Int /\ offset \in Int
        /\ LocalDate \in Dates /\ LocalDate \in Int
    BY LocalDateIsDate DEF DigestIInv, DigestTypeOK
  <2>2. /\ run'.start = now /\ run'.edits = edits /\ run'.read = Never /\ run'.saw = {}
        /\ run'.onTime <=> LocalTime >= digestTime
    BY <1>2 DEF NoRun
  <2>3. run' \in Runs
    <3>2. run' = [start |-> now, edits |-> edits, onTime |-> run'.onTime, read |-> Never,
                  saw |-> {}]
      BY <1>2 DEF NoRun
    <3>3. run'.onTime \in BOOLEAN
      BY <1>2 DEF NoRun
    <3>4. now \in Moments /\ Never \in Moments
      BY <2>1 DEF Moments
    <3> QED  BY <2>1, <3>2, <3>3, <3>4 DEF Runs
  <2>4. last # Never => last \in Int
    BY DatesAreInt DEF DigestIInv, DigestTypeOK
  <2>5. since' \in Int /\ (last # Never => since' = DueAt(last))
    <3>1. CASE last = Never
      BY <1>2, <2>1, <3>1 DEF WindowStart
    <3>2. CASE last # Never
      BY <1>2, <2>1, <2>4, <3>2 DEF WindowStart, DueAt
    <3> QED  BY <3>1, <3>2
  <2>6. DigestTypeOK'
    BY <1>0, <1>2, <2>1, <2>3, <2>5 DEF DigestIInv, DigestTypeOK
  <2>7. RunsRemembered'
    BY <1>0, <1>2, <2>1, <2>2, <2>5 DEF DigestIInv, RunsRemembered, Underway
  <2>8. DatesInOrder'
    <3>1. LocalDate' = LocalDate
      BY <1>0 DEF LocalDate
    <3> QED
      BY <1>0, <1>2, <2>1, <2>4, <3>1, DatesAreInt DEF DigestIInv, DatesInOrder, DigestTypeOK
  <2>9. WindowsMeet'
    <3>1. \A d : DueAt(d)' = DueAt(d)
      BY <1>0 DEF DueAt
    <3>2. run'.onTime => DueAt(LocalDate) <= now
      <4>1. now + offset \in Int /\ now \in Int
        BY <2>1
      <4>2. LocalTime \in Int /\ now + offset = LocalDate * DayLength + LocalTime
        BY <4>1, Quotient DEF LocalDate, LocalTime
      <4> QED  BY <2>1, <2>2, <4>1, <4>2 DEF DueAt
    <3>3. previous.read # Never /\ previous.onTime /\ previous.edits = edits =>
            since' <= previous.read
      <4> SUFFICES ASSUME previous.read # Never, previous.onTime, previous.edits = edits
                   PROVE  since' <= previous.read
        OBVIOUS
      <4>1. /\ last # Never /\ previous.start <= previous.read
            /\ previous.start \in Int /\ previous.read \in Int
        BY DEF DigestIInv, RunsRemembered
      <4>2. DueAt(last) <= previous.start
        BY DEF DigestIInv, WindowsMeet
      <4> QED  BY <2>5, <4>1, <4>2
    <3> QED  BY <1>0, <1>2, <2>2, <3>1, <3>2, <3>3 DEF DigestIInv, WindowsMeet
  <2> QED  BY <2>6, <2>7, <2>8, <2>9 DEF DigestIInv
<1> QED  BY <1>1, <1>2 DEF StartDigest

(* A digest picks every match of its window it can see. *)
LEMMA BuildDigestIInv == DigestIInv /\ BuildDigest => DigestIInv'
<1> SUFFICES ASSUME DigestIInv, BuildDigest PROVE DigestIInv'
  OBVIOUS
<1> USE DigestBounds
<1>0. /\ job = "running" /\ job' = "built"
      /\ picks' = {m \in visible : stamp[m] >= since}
      /\ run' = [run EXCEPT !.read = now, !.saw = visible]
      /\ UNCHANGED <<now, enabled, digestTime, offset, last, stamp, visible, mailed, today, since,
                     edits, failedRuns, previous, covers, swallowed>>
  BY DEF BuildDigest, InWindow, settings
<1>1. run \in Runs /\ now \in 0..MaxTime /\ visible \subseteq Matches
  BY DEF DigestIInv, DigestTypeOK
<1>2. /\ run'.start = run.start /\ run'.edits = run.edits /\ run'.onTime = run.onTime
      /\ run'.read = now /\ run'.saw = visible
  BY <1>0, <1>1 DEF Runs
<1>3. run' \in Runs
  BY <1>0, <1>1 DEF Runs, Moments
<1>4. DigestTypeOK'
  BY <1>0, <1>3 DEF DigestIInv, DigestTypeOK
<1>5. RunsRemembered'
  BY <1>0, <1>1, <1>2 DEF DigestIInv, RunsRemembered, Underway
<1>6. DatesInOrder'
  BY <1>0 DEF DigestIInv, DatesInOrder, Underway, LocalDate
<1>7. WindowsMeet'
  BY <1>0, <1>2 DEF DigestIInv, WindowsMeet, Underway, DueAt
<1> QED  BY <1>4, <1>5, <1>6, <1>7 DEF DigestIInv

(* A commit covers a date later than every other. *)
LEMMA CommitDigestIInv ==
    ASSUME DigestIInv, NEW reachable \in BOOLEAN, CommitDigest(reachable)
    PROVE  DigestIInv'
<1> USE DigestBounds
<1>0. /\ job = "built" /\ job' = "kept" /\ last' = today /\ previous' = run
      /\ mailed' = IF reachable /\ picks # {} THEN mailed \cup {today} ELSE mailed
      /\ covers' = [covers EXCEPT ![today] = @ + 1]
      /\ today' = Never /\ since' = Never /\ picks' = {} /\ run' = NoRun
      /\ UNCHANGED <<now, enabled, digestTime, offset, stamp, visible, edits, failedRuns>>
  BY DEF CommitDigest, Stamped, Forget, settings
<1>1. swallowed' = (swallowed \/ (reachable /\ picks # {} /\ today \in mailed))
  BY DEF CommitDigest
<1>2. /\ today \in Dates /\ today # Never /\ Underway /\ ~Underway'
      /\ mailed \subseteq Dates /\ covers \in [Dates -> Nat]
  BY <1>0, DatesAreInt DEF DigestIInv, RunsRemembered, DigestTypeOK, Underway
<1>3. NoRun \in Runs
  BY DEF NoRun, Runs, Moments
<1>4. mailed' \subseteq Dates /\ mailed' \subseteq mailed \cup {today}
  BY <1>0, <1>2
<1>5. DigestTypeOK'
  <2>1. covers' \in [Dates -> Nat]
    BY <1>0, <1>2
  <2>2. swallowed' \in BOOLEAN
    BY <1>1
  <2> QED  BY <1>0, <1>2, <1>3, <1>4, <2>1, <2>2 DEF DigestIInv, DigestTypeOK
<1>6. RunsRemembered'
  BY <1>0, <1>2 DEF DigestIInv, RunsRemembered, Underway
<1>7. DatesInOrder'
  <2> SUFFICES ASSUME edits = 0
               PROVE  /\ \A d \in Dates : covers'[d] <= 1
                      /\ ~swallowed'
                      /\ today <= LocalDate'
                      /\ \A d \in Dates : covers'[d] # 0 \/ d \in mailed' => d <= today
    BY <1>0, <1>2 DEF DatesInOrder
  <2>1. LocalDate' = LocalDate
    BY <1>0 DEF LocalDate
  <2>2. /\ \A d \in Dates : covers[d] <= 1
        /\ ~swallowed
        /\ \A d \in Dates : covers[d] # 0 \/ d \in mailed => last # Never /\ d <= last
        /\ today <= LocalDate /\ (last # Never => last < today)
    BY <1>2 DEF DigestIInv, DatesInOrder
  <2>3. last # Never => last \in Int
    BY DatesAreInt DEF DigestIInv, DigestTypeOK
  <2>4. covers[today] = 0 /\ today \notin mailed
    BY <1>2, <2>2, <2>3, DatesAreInt
  <2>5. \A d \in Dates : covers'[d] = IF d = today THEN 1 ELSE covers[d]
    BY <1>0, <1>2, <2>4
  <2>6. \A d \in Dates : covers'[d] # 0 \/ d \in mailed' => d <= today
    BY <1>2, <1>4, <2>2, <2>3, <2>5, DatesAreInt
  <2>7. \A d \in Dates : covers'[d] <= 1
    BY <2>2, <2>5
  <2>8. ~swallowed'
    BY <1>1, <2>2, <2>4
  <2> QED  BY <2>1, <2>2, <2>6, <2>7, <2>8
<1>8. WindowsMeet'
  <2>1. DueAt(last)' = DueAt(today)
    BY <1>0 DEF DueAt
  <2> QED  BY <1>0, <1>2, <2>1 DEF DigestIInv, WindowsMeet
<1> QED  BY <1>5, <1>6, <1>7, <1>8 DEF DigestIInv

(* A run that fails forgets what it has read. *)
LEMMA FailDigest == DigestIInv /\ Fail => DigestIInv'
<1> SUFFICES ASSUME DigestIInv, Fail PROVE DigestIInv'
  OBVIOUS
<1> USE DigestBounds
<1>0. /\ job' \in {"queued", "kept"} /\ ~Underway'
      /\ failedRuns < MaxFailedRuns /\ failedRuns' = failedRuns + 1
      /\ today' = Never /\ since' = Never /\ picks' = {} /\ run' = NoRun
      /\ UNCHANGED <<now, enabled, digestTime, offset, last, stamp, visible, mailed, edits,
                     previous, covers, swallowed>>
  BY DEF Fail, Forget, settings, Underway
<1>1. NoRun \in Runs
  BY DEF NoRun, Runs, Moments
<1>2. DigestTypeOK'
  BY <1>0, <1>1 DEF DigestIInv, DigestTypeOK
<1>3. RunsRemembered'
  BY <1>0 DEF DigestIInv, RunsRemembered
<1>4. DatesInOrder'
  BY <1>0 DEF DigestIInv, DatesInOrder, LocalDate
<1>5. WindowsMeet'
  BY <1>0 DEF DigestIInv, WindowsMeet, DueAt
<1> QED  BY <1>2, <1>3, <1>4, <1>5 DEF DigestIInv

LEMMA StepDigest == DigestIInv /\ [DigestNext]_digestVars => DigestIInv'
<1> SUFFICES ASSUME DigestIInv, [DigestNext]_digestVars PROVE DigestIInv'
  OBVIOUS
<1>1. CASE UNCHANGED digestVars
  <2>1. DigestTypeOK'
    BY <1>1 DEF DigestIInv, DigestTypeOK, digestVars
  <2>2. RunsRemembered'
    BY <1>1 DEF DigestIInv, RunsRemembered, Underway, digestVars
  <2>3. DatesInOrder'
    BY <1>1 DEF DigestIInv, DatesInOrder, Underway, LocalDate, digestVars
  <2>4. WindowsMeet'
    BY <1>1 DEF DigestIInv, WindowsMeet, Underway, DueAt, digestVars
  <2> QED  BY <2>1, <2>2, <2>3, <2>4 DEF DigestIInv
<1> QED
  BY <1>1, TickDigest, MatchDigest, SettingsDigest, QueueDigest, StartDigestIInv, BuildDigestIInv,
     CommitDigestIInv, FailDigest
  DEF DigestNext, Worker

(* The invariant holds of every behaviour of the digest. *)
THEOREM DigestInductive == DigestSpec => []DigestIInv
<1> QED  BY InitDigest, StepDigest, PTL DEF DigestSpec

(* Clock, settings, window and stamp keep their types. *)
THEOREM DigestTypes == DigestSpec => []DigestTypeOK
<1>1. DigestIInv => DigestTypeOK
  BY DEF DigestIInv
<1> QED  BY DigestInductive, <1>1, PTL

(* A date gets one digest, and the ledger never stands in the way of one   *)
(* that has picks, while the timezone stands (notifications.py:277, 394).  *)
THEOREM DatesCoveredOnce == DigestSpec => []OneDigestPerDate
<1>1. DigestIInv => OneDigestPerDate
  BY DEF DigestIInv, DatesInOrder, OneDigestPerDate
<1> QED  BY DigestInductive, <1>1, PTL

(* Digests that run at or after their time, under settings that stand,     *)
(* together report every match they could see (notifications.py:352).      *)
THEOREM NothingLeftOutOfDigests == DigestSpec => SteadyDigestsLeaveNothingOut
<1>1. ASSUME DigestIInv, CommitsNextDigest, previous.onTime, previous.edits = run.edits
      PROVE  LeavesNothingOut
  <2>1. job = "built" /\ previous.read # Never /\ Underway
    BY <1>1 DEF CommitsNextDigest, Underway
  <2>2. since <= previous.read /\ since \in Int /\ previous.read \in Int
    BY <1>1, <2>1 DEF DigestIInv, WindowsMeet, RunsRemembered
  <2>3. \A m \in run.saw : stamp[m] \in Int /\ (stamp[m] >= since => m \in picks)
    BY <1>1, <2>1 DEF DigestIInv, DigestTypeOK, RunsRemembered, Moments
  <2> QED  BY <2>2, <2>3 DEF LeavesNothingOut
<1>2. DigestIInv /\ [DigestNext]_digestVars =>
        [CommitsNextDigest /\ previous.onTime /\ previous.edits = run.edits
            => LeavesNothingOut]_digestVars
  BY <1>1
<1> QED
  BY DigestInductive, <1>2, PTL DEF DigestSpec, SteadyDigestsLeaveNothingOut

=============================================================================
