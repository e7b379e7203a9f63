--------------------------- MODULE IngestionProofs ---------------------------
(***************************************************************************)
(* Theorems about module Ingestion, for every number of notices, runs,     *)
(* failures and errands, every window of known notices and every           *)
(* threshold.  What a good run lists is never lost because a walk may only *)
(* stop at a notice everything before which is accounted for already; a    *)
(* payload a row points at is on disk because a sweep spares what it knows *)
(* and what the open transaction writes, unless the two overlap; and the   *)
(* text of a row is then that of the newest capture.                       *)
(***************************************************************************)
EXTENDS Ingestion, SequenceTheorems, WellFoundedInduction, TLAPS

(* TypeOK in four parts: each step of a proof needs only some of them. *)
RowTypes ==
    /\ published \in 0..MaxNotices /\ says \in [Notices -> Texts]
    /\ held \in [Notices -> Texts \cup {None}]
    /\ firstSeen \in Seq(Notices)
    /\ captures \in [Notices -> Seq(Texts)]
    /\ since \in 0..MaxNotices
    /\ files \subseteq Payloads

RunTypes ==
    /\ pc \in {"idle", "visit", "commit", "replay", "enqueue"}
    /\ listed \in 0..MaxNotices /\ next \in 0..MaxNotices /\ bottom \in 0..MaxNotices
    /\ pc \in {"visit", "commit"} => bottom <= next /\ next <= listed
    /\ pc = "commit" => bottom < next
    /\ streak \in 0..GiveUpAfter
    /\ fetched \in Texts \cup {None} /\ (fetched # None <=> pc = "commit")
    /\ fatal \in BOOLEAN

QueueTypes ==
    /\ todo \subseteq Notices /\ replay \subseteq Notices
    /\ arq \in [Notices -> {"none", "queued", "kept"}]
    /\ processed \in [Notices -> Texts \cup {None}]
    /\ doomed = None \/ doomed \subseteq Payloads
    /\ amends \in 0..MaxAmends /\ runs \in 0..MaxRuns
    /\ failures \in 0..MaxFailures /\ errands \in 0..MaxErrands

HistoryTypes ==
    /\ leftOut \subseteq Notices /\ unasked \subseteq Notices /\ reverted \subseteq Notices
    /\ planted \subseteq Notices /\ typed \subseteq Notices
    /\ raced \subseteq Payloads

(* Held, or left out in a way the code accepts. *)
Accounted(n) == held[n] # None \/ n \in leftOut \/ \E p \in planted : n < p

(* ... or still to be visited by the run that goes on. *)
Covered(n) == Accounted(n) \/ (pc \in {"visit", "commit"} /\ n \in Ahead)

(* What the job has left behind between its stages. *)
Waiting ==
    /\ pc = "idle" => todo = {}
    /\ pc \in {"idle", "commit"} => ~fatal
    /\ ~fatal => streak < GiveUpAfter

(* Nothing is counted, held or replayed that the portal has not published. *)
Counters ==
    /\ listed <= published /\ since <= published
    /\ \A n \in Notices : held[n] # None => n <= published
    /\ \A i \in DOMAIN firstSeen : held[firstSeen[i]] # None
    /\ \A n \in replay : held[n] # None
    /\ Waiting

(* The walk of a run: what lies before its place is accounted for, and so is
   all that is older than a notice held, because a walk stops at one. *)
NothingForgotten ==
    /\ NothingLeftOut
    /\ pc \in {"visit", "commit"} => \A n \in 1..listed : Covered(n)
    /\ \A m \in Notices : held[m] # None => \A n \in 1..m : Covered(n)
    /\ fatal /\ pc = "visit" => Ahead \subseteq leftOut

(* The payload of the open transaction. *)
Written == <<next, fetched>>

(* A sweep deletes no payload that a row points at or the open transaction
   writes, except of those it raced. *)
SweepSpares ==
    /\ Known \subseteq files \cup raced
    /\ doomed # None => doomed \cap Known \subseteq raced
    /\ pc = "commit" => Written \in files \cup raced \cup Known
    /\ pc = "commit" /\ doomed # None /\ Written \in doomed => Written \in raced

(* The second half of TextIsNewestPayload, as it stands. *)
NewestText ==
    \A n \in Notices :
        held[n] # None /\ n \notin reverted \cup typed /\ (\A p \in raced : p[1] # n) =>
            captures[n] # <<>> /\ held[n] = captures[n][Len(captures[n])]

(* The inductive invariant. *)
IInv ==
    /\ TypeOK /\ Counters /\ NothingForgotten
    /\ AwaitsProcessing /\ SweepSpares /\ NewestText

-----------------------------------------------------------------------------
(* Constants, and the largest of a bounded set.                            *)

LEMMA BoundsAreNat ==
    /\ MaxNotices \in Nat /\ MaxAmends \in Nat /\ MaxRuns \in Nat
    /\ MaxFailures \in Nat /\ MaxErrands \in Nat
BY IngestionAssumption

LEMMA ThresholdsArePositive ==
    /\ SeenLimit \in Nat /\ SeenLimit > 0
    /\ GiveUpAfter \in Nat /\ GiveUpAfter > 0
    /\ \A limit \in Limits : limit \in Nat /\ limit > 0
BY IngestionAssumption

LEMMA NoneIsNoText == None \notin Texts
BY IngestionAssumption

LEMMA NoticesAreNat == \A n \in Notices : n \in Nat /\ n > 0 /\ n <= MaxNotices
BY BoundsAreNat DEF Notices

(* A set of naturals with a bound has a largest element: CHOOSE finds one. *)
LEMMA MaxExists ==
    ASSUME NEW N \in Nat, NEW S, S \subseteq 0..N, S # {}
    PROVE  \E m \in S : \A x \in S : x <= m
<1> DEFINE T == {N - x : x \in S}
<1>1. T \subseteq Nat /\ T # {}
  <2>1. PICK x \in S : TRUE
    OBVIOUS
  <2>2. N - x \in T
    BY <2>1
  <2>3. \A y \in T : y \in Nat
    OBVIOUS
  <2> QED  BY <2>2, <2>3
<1>2. PICK t \in T : \A y \in T : ~(<<y, t>> \in OpToRel(<, Nat))
  <2> HIDE DEF T
  <2> QED  BY <1>1, NatLessThanWellFounded, WFMin
<1>3. \A y \in T : ~(y < t)
  BY <1>1, <1>2 DEF OpToRel
<1>4. PICK m \in S : t = N - m
  OBVIOUS
<1>5. \A x \in S : x <= m
  <2> TAKE x \in S
  <2>1. N - x \in T  OBVIOUS
  <2>2. ~(N - x < N - m)  BY <1>3, <1>4, <2>1
  <2>3. x \in 0..N /\ m \in 0..N  OBVIOUS
  <2> QED  BY <2>2, <2>3
<1> QED  BY <1>5

-----------------------------------------------------------------------------
(* Types.                                                                  *)

LEMMA TypesApart == TypeOK <=> RowTypes /\ RunTypes /\ QueueTypes /\ HistoryTypes
<1>1. {listed, next, bottom} \subseteq 0..MaxNotices <=>
        listed \in 0..MaxNotices /\ next \in 0..MaxNotices /\ bottom \in 0..MaxNotices
  OBVIOUS
<1>2. {leftOut, unasked, reverted, planted, typed} \subseteq SUBSET Notices <=>
        /\ leftOut \subseteq Notices /\ unasked \subseteq Notices /\ reverted \subseteq Notices
        /\ planted \subseteq Notices /\ typed \subseteq Notices
  OBVIOUS
<1> QED
  BY <1>1, <1>2, Zenon DEF TypeOK, RowTypes, RunTypes, QueueTypes, HistoryTypes

LEMMA InitTypes == Init => TypeOK
<1> SUFFICES ASSUME Init PROVE TypeOK OBVIOUS
<1> USE BoundsAreNat, ThresholdsArePositive, NoneIsNoText, NoticesAreNat, EmptySeq DEF Init
<1>1. RowTypes BY DEF RowTypes
<1>2. RunTypes
  <2>1. 0 \in 0..MaxNotices /\ 0 \in 0..GiveUpAfter
    BY BoundsAreNat, ThresholdsArePositive
  <2> QED  BY <2>1 DEF RunTypes
<1>3. QueueTypes BY DEF QueueTypes
<1>4. HistoryTypes BY DEF HistoryTypes
<1> QED BY <1>1, <1>2, <1>3, <1>4, TypesApart

(* Where a walk stops: at a notice held, or at the date it was given. *)
LEMMA RecognisedIsSeen ==
    ASSUME TypeOK, Counters, NEW oldest \in 0..since
    PROVE  /\ Recognised(oldest) \in 0..published
           /\ Recognised(oldest) \in SeenIds \cup {oldest}
<1> DEFINE S == SeenIds \cup {oldest}
<1>1. SeenIds \subseteq 0..published
  <2> SUFFICES ASSUME NEW i \in 1..Len(firstSeen) PROVE firstSeen[i] \in 0..published
    BY DEF SeenIds
  <2>1. firstSeen[i] \in Notices /\ i \in DOMAIN firstSeen
    BY ElementOfSeq, LenProperties DEF TypeOK
  <2>2. firstSeen[i] <= published
    BY <2>1 DEF Counters
  <2> QED BY <2>1, <2>2, NoticesAreNat, BoundsAreNat DEF TypeOK
<1>2. S \subseteq 0..published /\ S # {}
  BY <1>1, BoundsAreNat DEF TypeOK, Counters
<1>3. \E m \in S : \A x \in S : x <= m
  <2>1. published \in Nat BY BoundsAreNat DEF TypeOK
  <2> HIDE DEF S
  <2> QED BY <2>1, <1>2, MaxExists
<1>4. Recognised(oldest) \in S
  BY <1>3 DEF Recognised
<1> QED BY <1>2, <1>4

(* Pages can only end a walk earlier. *)
LEMMA WalkEndsInListing ==
    ASSUME TypeOK, Counters, NEW oldest \in 0..since, NEW limit \in Limits
    PROVE  /\ WalkEnds(oldest, limit) \in 0..published
           /\ Recognised(oldest) <= WalkEnds(oldest, limit)
<1>1. published \in Nat /\ limit \in Nat /\ limit > 0
  BY BoundsAreNat, ThresholdsArePositive DEF TypeOK
<1>2. PICK r \in 0..published : r = Recognised(oldest)
  BY RecognisedIsSeen
<1> QED  BY <1>1, <1>2 DEF WalkEnds

(* load_documents finds the newest capture that can be read, if there is one. *)
LEMMA ReadableIsBounded ==
    ASSUME TypeOK, NEW n \in Notices, Readable(n) # {}
    PROVE  /\ NewestReadable(n) \in Readable(n)
           /\ \A j \in Readable(n) : j <= NewestReadable(n)
           /\ NewestReadable(n) \in 1..Len(captures[n])
           /\ captures[n][NewestReadable(n)] \in Texts
<1>1. captures[n] \in Seq(Texts) /\ Len(captures[n]) \in Nat
  BY LenProperties DEF TypeOK
<1>2. Readable(n) \subseteq 0..Len(captures[n]) /\ Readable(n) \subseteq 1..Len(captures[n])
  BY <1>1 DEF Readable
<1>3. \E m \in Readable(n) : \A j \in Readable(n) : j <= m
  BY <1>1, <1>2, MaxExists
<1>4. /\ NewestReadable(n) \in Readable(n)
      /\ \A j \in Readable(n) : j <= NewestReadable(n)
  BY <1>3 DEF NewestReadable
<1> QED  BY <1>1, <1>2, <1>4, ElementOfSeq

(* A parse writes a text, or nothing. *)
LEMMA ReparseKeepsTypes ==
    ASSUME TypeOK, NEW n \in Notices, Reparse(n)
    PROVE  held' \in [Notices -> Texts \cup {None}] /\ typed' \subseteq Notices
<1>1. CASE Readable(n) = {}
  BY <1>1 DEF Reparse, TypeOK
<1>2. CASE Readable(n) # {}
  <2>1. PICK t \in Texts : t = captures[n][NewestReadable(n)]
    BY <1>2, ReadableIsBounded
  <2>2. held' = [held EXCEPT ![n] = t] /\ typed' = typed \ {n}
    BY <1>2, <2>1 DEF Reparse
  <2> QED  BY <2>2 DEF TypeOK
<1> QED  BY <1>1, <1>2

(* Every step keeps the types. *)
LEMMA TypesStep ==
    ASSUME TypeOK, Counters, [Next]_vars
    PROVE  TypeOK'
<1> USE BoundsAreNat, ThresholdsArePositive, NoneIsNoText
<1> USE DEF portal, rows, run, queue, bounds, hand, history
<1>0. RowTypes /\ RunTypes /\ QueueTypes /\ HistoryTypes
  BY TypesApart
<1>a. TypeOK' <=> RowTypes' /\ RunTypes' /\ QueueTypes' /\ HistoryTypes'
  BY DEF TypeOK, RowTypes, RunTypes, QueueTypes, HistoryTypes
<1>b. \A n \in 0..MaxNotices : n # 0 => n \in Notices
  BY BoundsAreNat DEF Notices
<1>c. next > bottom => next - 1 \in 0..MaxNotices /\ next \in Notices /\ bottom <= next - 1
  BY <1>0, <1>b, BoundsAreNat DEF RunTypes
<1>d. Ahead \subseteq Notices
  BY <1>0, BoundsAreNat DEF RunTypes, Ahead, Notices
<1>1. CASE Publish
  <2>1. RowTypes'  BY <1>0, <1>1 DEF RowTypes, Publish
  <2>2. RunTypes'  BY <1>0, <1>1 DEF RunTypes, Publish
  <2>3. QueueTypes'  BY <1>0, <1>1 DEF QueueTypes, Publish
  <2>4. HistoryTypes'  BY <1>0, <1>1 DEF HistoryTypes, Publish
  <2> QED  BY <1>a, <2>1, <2>2, <2>3, <2>4
<1>2. ASSUME NEW n \in Notices, NEW t \in Texts, Amend(n, t) PROVE TypeOK'
  <2>1. RowTypes'  BY <1>0, <1>2 DEF RowTypes, Amend
  <2>2. RunTypes'  BY <1>0, <1>2 DEF RunTypes, Amend
  <2>3. QueueTypes'  BY <1>0, <1>2 DEF QueueTypes, Amend
  <2>4. HistoryTypes'  BY <1>0, <1>2 DEF HistoryTypes, Amend
  <2> QED  BY <1>a, <2>1, <2>2, <2>3, <2>4
<1>3. ASSUME NEW oldest \in 0..since, NEW limit \in Limits, StartScrape(oldest, limit) PROVE TypeOK'
  <2>1. RowTypes'  BY <1>0, <1>3 DEF RowTypes, StartScrape
  <2>2. RunTypes'
    <3>1. PICK b \in 0..published : b = WalkEnds(oldest, limit)
      BY WalkEndsInListing
    <3>2. published \in 0..MaxNotices
      BY <1>0 DEF RowTypes
    <3>3. pc' = "visit" /\ next' = published /\ listed' = published /\ bottom' = b
      BY <1>3, <3>1 DEF StartScrape
    <3>4. fetched = None /\ UNCHANGED <<streak, fetched, fatal>>
      BY <1>0, <1>3 DEF RunTypes, StartScrape
    <3> QED  BY <1>0, <3>1, <3>2, <3>3, <3>4 DEF RunTypes
  <2>3. QueueTypes'  BY <1>0, <1>3 DEF QueueTypes, StartScrape
  <2>4. HistoryTypes'
    <3>1. PICK b \in 0..published : b = WalkEnds(oldest, limit)
      BY WalkEndsInListing
    <3>2. PICK r \in 0..published : r = Recognised(oldest)
      BY RecognisedIsSeen
    <3>3. published \in 0..MaxNotices
      BY <1>0 DEF RowTypes
    <3>4. (r + 1)..b \subseteq Notices
      BY <3>1, <3>2, <3>3 DEF Notices
    <3>5. leftOut' = leftOut \cup ((r + 1)..b)
      BY <1>3, <3>1, <3>2 DEF StartScrape
    <3>6. UNCHANGED <<unasked, reverted, planted, typed, raced>>
      BY <1>3 DEF StartScrape
    <3> QED  BY <1>0, <3>4, <3>5, <3>6 DEF HistoryTypes
  <2> QED  BY <1>a, <2>1, <2>2, <2>3, <2>4
<1>4. CASE ListingFails
  <2>1. RowTypes'  BY <1>0, <1>4 DEF RowTypes, ListingFails, Fails, Ahead
  <2>2. RunTypes'  BY <1>0, <1>4 DEF RunTypes, ListingFails, Fails, Ahead
  <2>3. QueueTypes'  BY <1>0, <1>4 DEF QueueTypes, ListingFails, Fails, Ahead
  <2>4. HistoryTypes'
    BY <1>0, <1>d, <1>4 DEF HistoryTypes, ListingFails
  <2> QED  BY <1>a, <2>1, <2>2, <2>3, <2>4
<1>5. CASE FetchFails
  <2>1. RowTypes'  BY <1>0, <1>5 DEF RowTypes, FetchFails, Fails, Ahead
  <2>2. RunTypes'
    <3>1. fatal' \in BOOLEAN
      BY <1>5 DEF FetchFails
    <3>2. streak' \in 0..GiveUpAfter
      <4>1. streak < GiveUpAfter /\ streak' = streak + 1
        BY <1>5 DEF FetchFails, Counters, Waiting
      <4> QED  BY <1>0, <4>1 DEF RunTypes
    <3>3. next' \in 0..MaxNotices /\ bottom <= next' /\ next' <= listed
      BY <1>0, <1>c, <1>5 DEF RunTypes, FetchFails
    <3>4. pc' = "visit" /\ UNCHANGED <<listed, bottom, fetched, pc>>
      BY <1>5 DEF FetchFails
    <3> QED  BY <1>0, <3>1, <3>2, <3>3, <3>4 DEF RunTypes
  <2>3. QueueTypes'  BY <1>0, <1>5 DEF QueueTypes, FetchFails, Fails, Ahead
  <2>4. HistoryTypes'
    <3>1. next \in Notices
      BY <1>c, <1>5 DEF FetchFails
    <3>2. leftOut' \subseteq Notices
      BY <1>0, <1>d, <3>1, <1>5 DEF HistoryTypes, FetchFails
    <3> QED  BY <1>0, <3>2, <1>5 DEF HistoryTypes, FetchFails
  <2> QED  BY <1>a, <2>1, <2>2, <2>3, <2>4
<1>6. CASE Fetch
  <2>1. RowTypes'
    <3>1. next \in Notices /\ says[next] \in Texts
      BY <1>0, <1>c, <1>6 DEF RowTypes, Fetch
    <3>2. <<next, says[next]>> \in Payloads
      BY <3>1 DEF Payloads
    <3>3. files' = files \/ files' = files \cup {<<next, says[next]>>}
      BY <1>6 DEF Fetch
    <3>4. files' \subseteq Payloads
      BY <1>0, <3>2, <3>3 DEF RowTypes
    <3> QED  BY <1>0, <3>4, <1>6 DEF RowTypes, Fetch
  <2>2. RunTypes'
    <3>1. next \in Notices /\ says[next] \in Texts
      BY <1>0, <1>c, <1>6 DEF RowTypes, Fetch
    <3>2. pc = "visit" /\ streak' = 0 /\ UNCHANGED <<listed, bottom, fatal>>
      BY <1>6 DEF Fetch
    <3>3. CASE next' = next - 1 /\ UNCHANGED <<pc, fetched>>
      BY <1>0, <1>c, <3>2, <3>3, <1>6 DEF RunTypes, Fetch
    <3>4. CASE pc' = "commit" /\ fetched' = says[next] /\ UNCHANGED next
      BY <1>0, <3>1, <3>2, <3>4, <1>6 DEF RunTypes, Fetch
    <3> QED  BY <3>3, <3>4, <1>6 DEF Fetch
  <2>3. QueueTypes'  BY <1>0, <1>6 DEF QueueTypes, Fetch
  <2>4. HistoryTypes'
    <3>1. next \in Notices /\ says[next] \in Texts
      BY <1>0, <1>c, <1>6 DEF RowTypes, Fetch
    <3>2. <<next, says[next]>> \in Payloads
      BY <3>1 DEF Payloads
    <3>3. raced' = raced \/ raced' = raced \cup {<<next, says[next]>>}
      BY <1>6 DEF Fetch
    <3>4. raced' \subseteq Payloads
      BY <1>0, <3>2, <3>3 DEF HistoryTypes
    <3> QED  BY <1>0, <3>4, <1>6 DEF HistoryTypes, Fetch
  <2> QED  BY <1>a, <2>1, <2>2, <2>3, <2>4
<1>7. CASE Commit
  <2>1. RowTypes'
    <3>1. next \in Notices /\ fetched \in Texts
      BY <1>0, <1>c, <1>7 DEF RunTypes, Commit
    <3>2. held' \in [Notices -> Texts \cup {None}]
      BY <1>0, <3>1, <1>7 DEF RowTypes, Commit
    <3>3. firstSeen' \in Seq(Notices)
      BY <1>0, <3>1, <1>7, AppendProperties DEF RowTypes, Commit
    <3>4. CapturesWith(next, fetched) \in Seq(Texts)
      BY <1>0, <3>1, AppendProperties DEF RowTypes, CapturesWith
    <3>5. captures' \in [Notices -> Seq(Texts)]
      BY <1>0, <3>1, <3>4, <1>7 DEF RowTypes, Commit
    <3> QED  BY <1>0, <3>2, <3>3, <3>5, <1>7 DEF RowTypes, Commit
  <2>2. RunTypes'  BY <1>0, <1>7 DEF RunTypes, Commit
  <2>3. QueueTypes'
    <3>1. next \in Notices /\ fetched \in Texts
      BY <1>0, <1>c, <1>7 DEF RunTypes, Commit
    <3> QED  BY <1>0, <3>1, <1>7 DEF QueueTypes, Commit, TodoWith
  <2>4. HistoryTypes'
    <3>1. next \in Notices /\ fetched \in Texts
      BY <1>0, <1>c, <1>7 DEF RunTypes, Commit
    <3> QED  BY <1>0, <3>1, <1>7 DEF HistoryTypes, Commit
  <2> QED  BY <1>a, <2>1, <2>2, <2>3, <2>4
<1>8. CASE StoreFails
  <2>1. RowTypes'  BY <1>0, <1>8 DEF RowTypes, StoreFails, Fails
  <2>2. RunTypes'  BY <1>0, <1>8 DEF RunTypes, StoreFails, Fails
  <2>3. QueueTypes'  BY <1>0, <1>8 DEF QueueTypes, StoreFails, Fails
  <2>4. HistoryTypes'
    <3>1. next \in Notices
      BY <1>0, <1>c, <1>8 DEF RunTypes, StoreFails
    <3> QED  BY <1>0, <3>1, <1>8 DEF HistoryTypes, StoreFails
  <2> QED  BY <1>a, <2>1, <2>2, <2>3, <2>4
<1>9. CASE Finish
  <2>1. RowTypes'
    <3>1. since' \in 0..MaxNotices
      BY <1>0, <1>9 DEF RowTypes, RunTypes, Finish
    <3> QED  BY <1>0, <3>1, <1>9 DEF RowTypes, Finish
  <2>2. RunTypes'  BY <1>0, <1>9 DEF RunTypes, Finish
  <2>3. QueueTypes'  BY <1>0, <1>9 DEF QueueTypes, Finish
  <2>4. HistoryTypes'  BY <1>0, <1>9 DEF HistoryTypes, Finish
  <2> QED  BY <1>a, <2>1, <2>2, <2>3, <2>4
<1>10. CASE Return
  <2>1. RowTypes'  BY <1>0, <1>10 DEF RowTypes, Return
  <2>2. RunTypes'
    <3>1. 0 \in 0..MaxNotices /\ 0 \in 0..GiveUpAfter
      OBVIOUS
    <3> QED  BY <1>0, <3>1, <1>10 DEF RunTypes, Return
  <2>3. QueueTypes'  BY <1>0, <1>10 DEF QueueTypes, Return
  <2>4. HistoryTypes'  BY <1>0, <1>10 DEF HistoryTypes, Return
  <2> QED  BY <1>a, <2>1, <2>2, <2>3, <2>4
<1>11. CASE WorkerDies
  <2>1. RowTypes'  BY <1>0, <1>11 DEF RowTypes, WorkerDies, Fails, Ahead
  <2>2. RunTypes'
    <3>1. 0 \in 0..MaxNotices /\ 0 \in 0..GiveUpAfter
      OBVIOUS
    <3> QED  BY <1>0, <3>1, <1>11 DEF RunTypes, WorkerDies
  <2>3. QueueTypes'  BY <1>0, <1>11 DEF QueueTypes, WorkerDies, Fails, Ahead
  <2>4. HistoryTypes'
    BY <1>0, <1>d, <1>11 DEF HistoryTypes, QueueTypes, WorkerDies
  <2> QED  BY <1>a, <2>1, <2>2, <2>3, <2>4
<1>12. CASE StartReplay
  <2>1. RowTypes'  BY <1>0, <1>12 DEF RowTypes, StartReplay, ToSet
  <2>2. RunTypes'  BY <1>0, <1>12 DEF RunTypes, StartReplay, ToSet
  <2>3. QueueTypes'
    <3>1. ToSet(firstSeen) \subseteq Notices
      BY <1>0, ElementOfSeq DEF RowTypes, ToSet
    <3> QED  BY <1>0, <3>1, <1>12 DEF QueueTypes, StartReplay
  <2>4. HistoryTypes'  BY <1>0, <1>12 DEF HistoryTypes, StartReplay, ToSet
  <2> QED  BY <1>a, <2>1, <2>2, <2>3, <2>4
<1>13. ASSUME NEW n \in Notices, Ask(n) PROVE TypeOK'
  <2>1. RowTypes'  BY <1>0, <1>13 DEF RowTypes, Ask, Fails
  <2>2. RunTypes'  BY <1>0, <1>13 DEF RunTypes, Ask, Fails
  <2>3. QueueTypes'  BY <1>0, <1>13 DEF QueueTypes, Ask, Fails
  <2>4. HistoryTypes'  BY <1>0, <1>13 DEF HistoryTypes, Ask, Fails
  <2> QED  BY <1>a, <2>1, <2>2, <2>3, <2>4
<1>14. ASSUME NEW n \in Notices, TakeUp(n) PROVE TypeOK'
  <2>1. RowTypes'  BY <1>0, <1>14 DEF RowTypes, TakeUp
  <2>2. RunTypes'  BY <1>0, <1>14 DEF RunTypes, TakeUp
  <2>3. QueueTypes'
    BY <1>0, <1>14 DEF QueueTypes, RowTypes, TakeUp
  <2>4. HistoryTypes'  BY <1>0, <1>14 DEF HistoryTypes, TakeUp
  <2> QED  BY <1>a, <2>1, <2>2, <2>3, <2>4
<1>15. ASSUME NEW n \in Notices, ExpireResult(n) PROVE TypeOK'
  <2>1. RowTypes'  BY <1>0, <1>15 DEF RowTypes, ExpireResult
  <2>2. RunTypes'  BY <1>0, <1>15 DEF RunTypes, ExpireResult
  <2>3. QueueTypes'  BY <1>0, <1>15 DEF QueueTypes, ExpireResult
  <2>4. HistoryTypes'  BY <1>0, <1>15 DEF HistoryTypes, ExpireResult
  <2> QED  BY <1>a, <2>1, <2>2, <2>3, <2>4
<1>16. ASSUME NEW n \in Notices, ReplayOne(n) PROVE TypeOK'
  <2>1. RowTypes'
    <3>1. held' \in [Notices -> Texts \cup {None}]
      BY <1>0, ReparseKeepsTypes, <1>16 DEF ReplayOne
    <3> QED  BY <1>0, <3>1, <1>16 DEF RowTypes, ReplayOne
  <2>2. RunTypes'  BY <1>0, <1>16 DEF RunTypes, ReplayOne
  <2>3. QueueTypes'  BY <1>0, <1>16 DEF QueueTypes, ReplayOne
  <2>4. HistoryTypes'
    <3>1. typed' \subseteq Notices
      BY <1>0, ReparseKeepsTypes, <1>16 DEF ReplayOne
    <3> QED  BY <1>0, <3>1, <1>16 DEF HistoryTypes, ReplayOne
  <2> QED  BY <1>a, <2>1, <2>2, <2>3, <2>4
<1>17. ASSUME NEW n \in Notices, NEW t \in Texts, Import(n, t) PROVE TypeOK'
  <2>1. RowTypes'  BY <1>0, <1>17 DEF RowTypes, Import, ByHand, Errand
  <2>2. RunTypes'  BY <1>0, <1>17 DEF RunTypes, Import, ByHand, Errand
  <2>3. QueueTypes'  BY <1>0, <1>17 DEF QueueTypes, Import, ByHand, Errand
  <2>4. HistoryTypes'  BY <1>0, <1>17 DEF HistoryTypes, Import, ByHand, Errand
  <2> QED  BY <1>a, <2>1, <2>2, <2>3, <2>4
<1>18. ASSUME NEW n \in Notices, NEW reparse \in BOOLEAN, ReprocessTender(n, reparse) PROVE TypeOK'
  <2>1. RowTypes'
    <3>1. held' \in [Notices -> Texts \cup {None}]
      BY <1>0, ReparseKeepsTypes, <1>18 DEF ReprocessTender, RowTypes
    <3> QED  BY <1>0, <3>1, <1>18 DEF RowTypes, ReprocessTender
  <2>2. RunTypes'  BY <1>0, <1>18 DEF RunTypes, ReprocessTender, ByHand, Errand
  <2>3. QueueTypes'
    <3>1. held'[n] \in Texts \cup {None}
      BY <2>1 DEF RowTypes
    <3> QED  BY <1>0, <3>1, <1>18 DEF QueueTypes, ReprocessTender, ByHand, Errand
  <2>4. HistoryTypes'
    <3>1. typed' \subseteq Notices
      BY <1>0, ReparseKeepsTypes, <1>18 DEF ReprocessTender, HistoryTypes
    <3> QED  BY <1>0, <3>1, <1>18 DEF HistoryTypes, ReprocessTender
  <2> QED  BY <1>a, <2>1, <2>2, <2>3, <2>4
<1>19. CASE StartSweep
  <2>1. RowTypes'  BY <1>0, <1>19 DEF RowTypes, StartSweep, Errand
  <2>2. RunTypes'  BY <1>0, <1>19 DEF RunTypes, StartSweep, Errand
  <2>3. QueueTypes'
    <3>1. doomed' \subseteq Payloads
      BY <1>0, <1>19 DEF RowTypes, StartSweep
    <3> QED  BY <1>0, <3>1, <1>19 DEF QueueTypes, StartSweep, Errand
  <2>4. HistoryTypes'
    <3>1. raced' \subseteq Payloads
      BY <1>0, <1>19 DEF RowTypes, HistoryTypes, StartSweep
    <3> QED  BY <1>0, <3>1, <1>19 DEF HistoryTypes, StartSweep
  <2> QED  BY <1>a, <2>1, <2>2, <2>3, <2>4
<1>20. CASE EndSweep
  <2>1. RowTypes'  BY <1>0, <1>20 DEF RowTypes, EndSweep
  <2>2. RunTypes'  BY <1>0, <1>20 DEF RunTypes, EndSweep
  <2>3. QueueTypes'  BY <1>0, <1>20 DEF QueueTypes, EndSweep
  <2>4. HistoryTypes'  BY <1>0, <1>20 DEF HistoryTypes, EndSweep
  <2> QED  BY <1>a, <2>1, <2>2, <2>3, <2>4
<1>21. ASSUME NEW p \in Payloads, SweepFile(p) PROVE TypeOK'
  <2>1. RowTypes'  BY <1>0, <1>21 DEF RowTypes, SweepFile
  <2>2. RunTypes'  BY <1>0, <1>21 DEF RunTypes, SweepFile
  <2>3. QueueTypes'  BY <1>0, <1>21 DEF QueueTypes, SweepFile
  <2>4. HistoryTypes'  BY <1>0, <1>21 DEF HistoryTypes, SweepFile
  <2> QED  BY <1>a, <2>1, <2>2, <2>3, <2>4
<1>22. CASE UNCHANGED vars
  BY <1>0, <1>22 DEF TypeOK, vars
<1> QED
  BY <1>1, <1>2, <1>3, <1>4, <1>5, <1>6, <1>7, <1>8, <1>9, <1>10, <1>11,
     <1>12, <1>13, <1>14, <1>15, <1>16, <1>17, <1>18, <1>19, <1>20, <1>21, <1>22
  DEF Next

-----------------------------------------------------------------------------
(* No notice is forgotten.                                                 *)

(* A notice that is held stays held; a new one is the run's or was added by hand. *)
LEMMA HeldGrows ==
    ASSUME TypeOK, Counters, [Next]_vars, NEW n \in Notices
    PROVE  /\ held[n] # None => held'[n] # None
           /\ held[n] = None /\ held'[n] # None =>
                \/ Commit /\ n = next
                \/ n \in planted' /\ n <= published
<1> USE NoneIsNoText
<1>1. CASE UNCHANGED held
  BY <1>1
<1>2. CASE Commit
  <2>1. next \in Notices /\ fetched # None
    BY <1>2, BoundsAreNat DEF TypeOK, Commit, Notices
  <2> QED  BY <1>2, <2>1 DEF TypeOK, Commit
<1>3. ASSUME NEW k \in Notices, NEW t \in Texts, Import(k, t)
      PROVE  held[n] # None => held'[n] # None
  BY <1>3 DEF TypeOK, Import
<1>4. ASSUME NEW k \in Notices, NEW t \in Texts, Import(k, t), held[n] = None, held'[n] # None
      PROVE  n \in planted' /\ n <= published
  BY <1>4 DEF TypeOK, Import, ByHand
<1>5. ASSUME NEW k \in Notices, Reparse(k), held[k] # None
      PROVE  held[n] # None <=> held'[n] # None
  <2>1. CASE Readable(k) = {}
    BY <1>5, <2>1 DEF Reparse
  <2>2. CASE Readable(k) # {}
    <3>1. PICK t \in Texts : t = captures[k][NewestReadable(k)]
      BY <2>2, ReadableIsBounded
    <3>2. held' = [held EXCEPT ![k] = t]
      BY <1>5, <2>2, <3>1 DEF Reparse
    <3> QED  BY <1>5, <3>2 DEF TypeOK
  <2> QED  BY <2>1, <2>2
<1>6. ASSUME NEW k \in Notices, ReplayOne(k)
      PROVE  held[n] # None <=> held'[n] # None
  BY <1>5, <1>6 DEF ReplayOne, Counters
<1>7. ASSUME NEW k \in Notices, NEW reparse \in BOOLEAN, ReprocessTender(k, reparse)
      PROVE  held[n] # None <=> held'[n] # None
  BY <1>5, <1>7 DEF ReprocessTender
<1>8. ASSUME \/ Publish \/ ListingFails \/ FetchFails \/ Fetch \/ StoreFails \/ Finish
             \/ Return \/ WorkerDies \/ StartReplay \/ StartSweep \/ EndSweep
             \/ UNCHANGED vars
      PROVE  UNCHANGED held
  BY <1>8 DEF Publish, ListingFails, FetchFails, Fetch, StoreFails, Finish, Return, WorkerDies,
     StartReplay, StartSweep, EndSweep, rows, vars
<1>9. ASSUME NEW k \in Notices, \/ \E t \in Texts : Amend(k, t)
                                \/ Ask(k) \/ TakeUp(k) \/ ExpireResult(k)
      PROVE  UNCHANGED held
  BY <1>9 DEF Amend, Ask, TakeUp, ExpireResult, rows
<1>10. ASSUME NEW oldest \in 0..since, NEW limit \in Limits, StartScrape(oldest, limit)
       PROVE  UNCHANGED held
  BY <1>10 DEF StartScrape, rows
<1>11. ASSUME NEW p \in Payloads, SweepFile(p)
       PROVE  UNCHANGED held
  BY <1>11 DEF SweepFile, rows
<1> QED
  BY <1>1, <1>2, <1>3, <1>4, <1>6, <1>7, <1>8, <1>9, <1>10, <1>11 DEF Next

(* What was left out, and what was planted, is so for good. *)
LEMMA HistoryGrows ==
    ASSUME [Next]_vars
    PROVE  leftOut \subseteq leftOut' /\ planted \subseteq planted'
<1>1. ASSUME \/ Publish \/ ListingFails \/ FetchFails \/ Fetch \/ Commit \/ StoreFails \/ Finish
             \/ Return \/ WorkerDies \/ StartReplay \/ StartSweep \/ EndSweep
             \/ UNCHANGED vars
      PROVE  leftOut \subseteq leftOut' /\ planted \subseteq planted'
  BY <1>1 DEF Publish, ListingFails, FetchFails, Fetch, Commit, StoreFails, Finish, Return,
     WorkerDies, StartReplay, StartSweep, EndSweep, hand, history, vars
<1>2. ASSUME NEW k \in Notices, \/ \E t \in Texts : Amend(k, t) \/ Import(k, t)
                                \/ Ask(k) \/ TakeUp(k) \/ ExpireResult(k) \/ ReplayOne(k)
                                \/ \E reparse \in BOOLEAN : ReprocessTender(k, reparse)
      PROVE  leftOut \subseteq leftOut' /\ planted \subseteq planted'
  BY <1>2 DEF Amend, Import, Ask, TakeUp, ExpireResult, ReplayOne, ReprocessTender, hand, history
<1>3. ASSUME NEW oldest \in 0..since, NEW limit \in Limits, StartScrape(oldest, limit)
       PROVE  leftOut \subseteq leftOut' /\ planted \subseteq planted'
  BY <1>3 DEF StartScrape, hand
<1>4. ASSUME NEW p \in Payloads, SweepFile(p)
       PROVE  leftOut \subseteq leftOut' /\ planted \subseteq planted'
  BY <1>4 DEF SweepFile, hand, history
<1> QED
  BY <1>1, <1>2, <1>3, <1>4 DEF Next

(* Every step keeps the counters in order. *)
LEMMA CountersStep ==
    ASSUME TypeOK, Counters, [Next]_vars
    PROVE  Counters'
<1> USE BoundsAreNat, ThresholdsArePositive
<1> USE DEF portal, rows, run, queue, bounds, hand, history
<1>0. TypeOK'
  BY TypesStep
<1>1. published <= published' /\ published \in Nat /\ published' \in Nat
  <2>1. Publish \/ UNCHANGED published
    BY DEF Next, Amend, StartScrape, ListingFails, FetchFails, Fetch, Commit, StoreFails,
       Finish, Return, WorkerDies, StartReplay, Ask, TakeUp, ExpireResult, ReplayOne, Import,
       ReprocessTender, StartSweep, EndSweep, SweepFile, vars
  <2> QED  BY <1>0, <2>1 DEF TypeOK, Publish
<1>2. listed' <= published' /\ since' <= published'
  <2>1. \/ UNCHANGED <<listed, since>>
        \/ listed' = 0 /\ since' = since
        \/ listed' = published /\ since' = since
        \/ listed' = listed /\ since' = listed
    BY DEF Next, Publish, Amend, StartScrape, ListingFails, FetchFails, Fetch, Commit, StoreFails,
       Finish, Return, WorkerDies, StartReplay, Ask, TakeUp, ExpireResult, ReplayOne, Import,
       ReprocessTender, StartSweep, EndSweep, SweepFile, vars
  <2>2. listed \in Nat /\ since \in Nat /\ listed <= published /\ since <= published
    BY DEF TypeOK, Counters
  <2> QED  BY <1>1, <2>1, <2>2
<1>3. \A n \in Notices : held'[n] # None => n <= published'
  <2> SUFFICES ASSUME NEW n \in Notices, held'[n] # None PROVE n <= published
    BY <1>1, NoticesAreNat
  <2>1. CASE held[n] # None
    BY <2>1 DEF Counters
  <2>2. CASE Commit /\ n = next
    BY <2>2, <1>1 DEF Commit, Counters, TypeOK
  <2> QED  BY <2>1, <2>2, HeldGrows
<1>4. \A i \in DOMAIN firstSeen' : held'[firstSeen'[i]] # None
  <2> SUFFICES ASSUME NEW i \in DOMAIN firstSeen' PROVE held'[firstSeen'[i]] # None
    OBVIOUS
  <2>1. ASSUME NEW k \in Notices, firstSeen' = Append(firstSeen, k), held'[k] # None
        PROVE  held'[firstSeen'[i]] # None
    <3>1. firstSeen \in Seq(Notices) /\ Len(firstSeen) \in Nat
      BY LenProperties DEF TypeOK
    <3>2. CASE i = Len(firstSeen) + 1
      BY <2>1, <3>1, <3>2, AppendProperties
    <3>3. CASE i # Len(firstSeen) + 1
      <4>1. i \in DOMAIN firstSeen /\ firstSeen'[i] = firstSeen[i] /\ firstSeen[i] \in Notices
        BY <2>1, <3>1, <3>3, AppendProperties, ElementOfSeq, LenProperties
      <4> QED  BY <4>1, HeldGrows DEF Counters
    <3> QED  BY <3>2, <3>3
  <2>2. CASE UNCHANGED firstSeen
    <3>1. firstSeen[i] \in Notices
      BY <2>2, ElementOfSeq, LenProperties DEF TypeOK
    <3> QED  BY <2>2, <3>1, HeldGrows DEF Counters
  <2>3. CASE Commit
    <3>1. next \in Notices /\ held'[next] # None
      BY <2>3, NoneIsNoText DEF TypeOK, Commit, Notices
    <3> QED  BY <2>1, <2>2, <2>3, <3>1 DEF Commit
  <2>4. ASSUME NEW k \in Notices, NEW t \in Texts, Import(k, t) PROVE held'[firstSeen'[i]] # None
    <3>1. held'[k] # None
      BY <2>4, NoneIsNoText DEF TypeOK, Import
    <3> QED  BY <2>1, <2>2, <2>4, <3>1 DEF Import
  <2>5. \/ UNCHANGED firstSeen \/ Commit \/ \E k \in Notices, t \in Texts : Import(k, t)
    BY DEF Next, Publish, Amend, StartScrape, ListingFails, FetchFails, Fetch, StoreFails,
       Finish, Return, WorkerDies, StartReplay, Ask, TakeUp, ExpireResult, ReplayOne,
       ReprocessTender, StartSweep, EndSweep, SweepFile, vars
  <2> QED  BY <2>2, <2>3, <2>4, <2>5
<1>5. \A n \in replay' : held'[n] # None
  <2> SUFFICES ASSUME NEW n \in replay' PROVE held'[n] # None
    OBVIOUS
  <2>1. n \in Notices
    BY <1>0 DEF TypeOK
  <2>2. replay' \subseteq replay \/ StartReplay
    BY DEF Next, Publish, Amend, StartScrape, ListingFails, FetchFails, Fetch, Commit, StoreFails,
       Finish, Return, WorkerDies, Ask, TakeUp, ExpireResult, ReplayOne, Import,
       ReprocessTender, StartSweep, EndSweep, SweepFile, vars
  <2>3. CASE StartReplay
    <3>1. PICK i \in 1..Len(firstSeen) : n = firstSeen[i]
      BY <2>3 DEF StartReplay, ToSet
    <3> QED  BY <2>1, <3>1, HeldGrows, LenProperties DEF Counters, TypeOK
  <2> QED  BY <2>1, <2>2, <2>3, HeldGrows DEF Counters
<1>6. Waiting'
  <2>0. Waiting  BY DEF Counters
  <2>1. CASE FetchFails
    <3>1. pc' = "visit" /\ streak' = streak + 1 /\ (fatal' <=> streak + 1 >= GiveUpAfter)
      BY <2>0, <2>1 DEF FetchFails
    <3>2. streak \in Nat
      BY DEF TypeOK
    <3> QED  BY <3>1, <3>2 DEF Waiting
  <2>2. CASE Fetch
    BY <2>0, <2>2 DEF Fetch, TypeOK, Waiting
  <2>3. CASE Return \/ WorkerDies
    BY <2>0, <2>3 DEF Return, WorkerDies, TypeOK, Waiting
  <2>4. CASE ListingFails \/ Commit \/ StoreFails \/ Finish \/ StartReplay
    BY <2>0, <2>4 DEF ListingFails, Commit, StoreFails, Finish, StartReplay, TypeOK, Waiting
  <2>5. ASSUME NEW k \in Notices, Ask(k) \/ ReplayOne(k)
        PROVE  Waiting'
    BY <2>0, <2>5 DEF Ask, ReplayOne, TypeOK, Waiting
  <2>6. ASSUME NEW oldest \in 0..since, NEW limit \in Limits, StartScrape(oldest, limit)
        PROVE  Waiting'
    BY <2>0, <2>6 DEF StartScrape, TypeOK, Waiting
  <2>7. CASE UNCHANGED run
    BY <2>0, <2>7 DEF Waiting
  <2> QED
    BY <2>1, <2>2, <2>3, <2>4, <2>5, <2>6, <2>7
    DEF Next, Publish, Amend, TakeUp, ExpireResult, Import, ReprocessTender, StartSweep,
        EndSweep, SweepFile, vars
<1> QED
  BY <1>2, <1>3, <1>4, <1>5, <1>6 DEF Counters

(* What is accounted for stays so. *)
LEMMA AccountedStays ==
    ASSUME TypeOK, Counters, [Next]_vars, NEW n \in Notices, Accounted(n)
    PROVE  Accounted(n)'
BY HeldGrows, HistoryGrows DEF Accounted

(* A notice that is covered stays so, whatever becomes of the run. *)
LEMMA CoveredStays ==
    ASSUME TypeOK, Counters, NothingForgotten, [Next]_vars, NEW n \in Notices, Covered(n)
    PROVE  Covered(n)'
<1> USE BoundsAreNat
<1> USE DEF portal, rows, run, queue, bounds, hand, history
<1>0. CASE Accounted(n)
  BY <1>0, AccountedStays DEF Covered
<1> SUFFICES ASSUME pc \in {"visit", "commit"}, n \in Ahead PROVE Covered(n)'
  BY <1>0 DEF Covered
<1>a. n \in Nat /\ next \in Nat /\ bottom \in Nat /\ bottom < n /\ n <= next
  BY NoticesAreNat DEF TypeOK, Ahead
<1>b. ASSUME UNCHANGED bottom, next' = next - 1, pc' \in {"visit", "commit"},
             n = next => n \in leftOut' \/ held'[n] # None
      PROVE  Covered(n)'
  BY <1>a, <1>b DEF Covered, Accounted, Ahead
<1>c. ASSUME UNCHANGED <<pc, bottom, next>> PROVE Covered(n)'
  BY <1>c DEF Covered, Ahead
<1>d. ASSUME Ahead \subseteq leftOut' PROVE Covered(n)'
  BY <1>d DEF Covered, Accounted
<1>1. CASE ListingFails
  BY <1>1, <1>d DEF ListingFails
<1>2. CASE FetchFails
  <2>1. n = next => n \in leftOut'
    BY <1>2 DEF FetchFails
  <2> QED  BY <1>2, <1>b, <2>1 DEF FetchFails
<1>3. CASE Fetch
  <2>1. CASE held[next] = says[next] /\ next' = next - 1 /\ UNCHANGED <<pc, held>>
    <3>1. n = next => held'[n] # None
      BY <2>1, NoneIsNoText DEF TypeOK
    <3> QED  BY <1>3, <1>b, <2>1, <3>1 DEF Fetch
  <2>2. CASE pc' = "commit" /\ UNCHANGED <<bottom, next>>
    BY <2>2 DEF Covered, Ahead
  <2> QED  BY <1>3, <2>1, <2>2 DEF Fetch
<1>4. CASE Commit
  <2>1. n = next => held'[n] # None
    BY <1>4, NoneIsNoText DEF Commit, TypeOK
  <2> QED  BY <1>4, <1>b, <2>1 DEF Commit
<1>5. CASE StoreFails
  <2>1. n = next => n \in leftOut'
    BY <1>5 DEF StoreFails
  <2> QED  BY <1>5, <1>b, <2>1 DEF StoreFails
<1>6. CASE Finish
  <2>1. fatal /\ pc = "visit" /\ leftOut' = leftOut
    BY <1>6, <1>a DEF Finish
  <2> QED  BY <2>1, <1>d DEF NothingForgotten
<1>7. CASE WorkerDies
  BY <1>7, <1>d DEF WorkerDies
<1>8. CASE Return \/ StartReplay
  BY <1>8 DEF Return, StartReplay
<1>9. ASSUME NEW oldest \in 0..since, NEW limit \in Limits, StartScrape(oldest, limit) PROVE FALSE
  BY <1>9 DEF StartScrape
<1>10. ASSUME NEW k \in Notices, ReplayOne(k) PROVE FALSE
  BY <1>10 DEF ReplayOne
<1>11. ASSUME NEW k \in Notices, Ask(k) PROVE FALSE
  BY <1>11 DEF Ask
<1>12. CASE UNCHANGED run
  BY <1>12, <1>c
<1> QED
  BY <1>1, <1>2, <1>3, <1>4, <1>5, <1>6, <1>7, <1>8, <1>9, <1>10, <1>11, <1>12
  DEF Next, Publish, Amend, TakeUp, ExpireResult, Import, ReprocessTender, StartSweep,
      EndSweep, SweepFile, vars

(* The walk begins where everything older is accounted for. *)
LEMMA WalkCoversListing ==
    ASSUME TypeOK, Counters, NothingForgotten, [Next]_vars,
           NEW oldest \in 0..since, NEW limit \in Limits, StartScrape(oldest, limit),
           NEW n \in 1..published
    PROVE  Covered(n)'
<1>1. PICK r \in 0..published : r = Recognised(oldest) /\ r \in SeenIds \cup {oldest}
  BY RecognisedIsSeen
<1>2. PICK b \in 0..published : b = WalkEnds(oldest, limit) /\ r <= b
  BY <1>1, WalkEndsInListing
<1>3. /\ pc = "idle" /\ pc' = "visit" /\ next' = published /\ bottom' = b
      /\ leftOut' = leftOut \cup ((r + 1)..b)
  BY <1>1, <1>2 DEF StartScrape
<1>4. published \in 0..MaxNotices /\ since \in Nat /\ n \in Notices
  BY BoundsAreNat DEF TypeOK, Notices
<1>5. CASE n > b
  BY <1>2, <1>3, <1>4, <1>5 DEF Covered, Ahead
<1>6. CASE r < n /\ n <= b
  BY <1>1, <1>2, <1>3, <1>4, <1>6 DEF Covered, Accounted
<1>7. CASE n <= r
  <2>1. Accounted(n)
    <3>1. CASE r = oldest
      <4>1. n \in 1..since
        BY <1>4, <1>7, <3>1
      <4> QED  BY <4>1 DEF NothingForgotten, NothingLeftOut, Accounted
    <3>2. CASE r \in SeenIds
      <4>1. PICK i \in 1..Len(firstSeen) : r = firstSeen[i]
        BY <3>2 DEF SeenIds
      <4>2. r \in Notices /\ held[r] # None
        BY <4>1, ElementOfSeq, LenProperties DEF TypeOK, Counters
      <4>3. n \in 1..r
        BY <1>1, <1>4, <1>7
      <4> QED  BY <1>3, <4>2, <4>3 DEF NothingForgotten, Covered
    <3> QED  BY <1>1, <3>1, <3>2
  <2> QED  BY <1>4, <2>1, AccountedStays DEF Covered
<1> QED  BY <1>1, <1>2, <1>4, <1>5, <1>6, <1>7

(* Every step leaves everything covered. *)
LEMMA ForgottenStep ==
    ASSUME TypeOK, Counters, NothingForgotten, [Next]_vars
    PROVE  NothingForgotten'
<1> USE BoundsAreNat
<1> USE DEF portal, rows, run, queue, bounds, hand, history
<1>1. NothingLeftOut'
  <2> SUFFICES ASSUME NEW n \in 1..since' PROVE Accounted(n)'
    BY DEF NothingLeftOut, Accounted
  <2>1. CASE UNCHANGED since
    <3>1. n \in Notices
      BY <2>1 DEF TypeOK, Notices
    <3> QED  BY <2>1, <3>1, AccountedStays DEF NothingForgotten, NothingLeftOut, Accounted
  <2>2. CASE Finish /\ ~fatal
    <3>1. n \in 1..listed /\ n \in Notices /\ next = bottom /\ pc = "visit"
      BY <2>2 DEF TypeOK, Finish, Notices
    <3>2. n \notin Ahead
      BY <3>1 DEF TypeOK, Ahead
    <3> QED  BY <3>1, <3>2, AccountedStays DEF NothingForgotten, Covered
  <2>3. UNCHANGED since \/ (Finish /\ ~fatal)
    BY DEF Next, Publish, Amend, StartScrape, ListingFails, FetchFails, Fetch, Commit, StoreFails,
       Finish, Return, WorkerDies, StartReplay, Ask, TakeUp, ExpireResult, ReplayOne, Import,
       ReprocessTender, StartSweep, EndSweep, SweepFile, vars
  <2> QED  BY <2>1, <2>2, <2>3
<1>2. pc' \in {"visit", "commit"} => \A n \in 1..listed' : Covered(n)'
  <2> SUFFICES ASSUME pc' \in {"visit", "commit"}, NEW n \in 1..listed' PROVE Covered(n)'
    OBVIOUS
  <2>1. CASE pc \in {"visit", "commit"} /\ UNCHANGED listed
    <3>1. n \in Notices /\ Covered(n)
      BY <2>1 DEF NothingForgotten, TypeOK, Notices
    <3> QED  BY <3>1, CoveredStays
  <2>2. ASSUME NEW oldest \in 0..since, NEW limit \in Limits, StartScrape(oldest, limit)
        PROVE  Covered(n)'
    <3>1. listed' = published
      BY <2>2 DEF StartScrape
    <3> QED  BY <2>2, <3>1, WalkCoversListing
  <2>3. \/ pc \in {"visit", "commit"} /\ UNCHANGED listed
        \/ \E oldest \in 0..since, limit \in Limits : StartScrape(oldest, limit)
    BY DEF Next, Publish, Amend, ListingFails, FetchFails, Fetch, Commit, StoreFails,
       Finish, Return, WorkerDies, StartReplay, Ask, TakeUp, ExpireResult, ReplayOne, Import,
       ReprocessTender, StartSweep, EndSweep, SweepFile, vars
  <2> QED  BY <2>1, <2>2, <2>3
<1>3. \A m \in Notices : held'[m] # None => \A n \in 1..m : Covered(n)'
  <2> SUFFICES ASSUME NEW m \in Notices, held'[m] # None, NEW n \in 1..m PROVE Covered(n)'
    OBVIOUS
  <2>1. n \in Notices /\ n <= m /\ n \in Nat /\ m \in Nat
    BY DEF Notices
  <2>2. CASE held[m] # None
    BY <2>1, <2>2, CoveredStays DEF NothingForgotten
  <2>3. CASE Commit /\ m = next
    <3>1. pc = "commit" /\ n \in 1..listed
      BY <2>1, <2>3 DEF Commit, TypeOK
    <3> QED  BY <2>1, <3>1, CoveredStays DEF NothingForgotten
  <2>4. CASE m \in planted'
    BY <2>1, <2>4 DEF Covered, Accounted
  <2> QED  BY <2>2, <2>3, <2>4, HeldGrows
<1>4. fatal' /\ pc' = "visit" => Ahead' \subseteq leftOut'
  <2> SUFFICES ASSUME fatal', pc' = "visit" PROVE Ahead' \subseteq leftOut'
    OBVIOUS
  <2>1. CASE ListingFails
    BY <2>1 DEF ListingFails, Ahead
  <2>2. CASE FetchFails
    BY <2>2 DEF FetchFails, Ahead, TypeOK
  <2>3. ASSUME NEW oldest \in 0..since, NEW limit \in Limits, StartScrape(oldest, limit)
        PROVE  FALSE
    BY <2>3 DEF StartScrape, Counters, Waiting
  <2>4. CASE Fetch \/ Commit \/ StoreFails
    BY <2>4 DEF Fetch, Commit, StoreFails, Counters, Waiting
  <2>5. CASE UNCHANGED run
    BY <2>5, HistoryGrows DEF NothingForgotten, Ahead
  <2> QED
    BY <2>1, <2>2, <2>3, <2>4, <2>5
    DEF Next, Publish, Amend, Finish, Return, WorkerDies, StartReplay, Ask, ReplayOne, TakeUp,
        ExpireResult, Import, ReprocessTender, StartSweep, EndSweep, SweepFile, vars
<1> QED
  BY <1>1, <1>2, <1>3, <1>4 DEF NothingForgotten

(* Every step leaves a text that was not taken up in a place that asks for it. *)
LEMMA AwaitsStep ==
    ASSUME TypeOK, Counters, AwaitsProcessing, [Next]_vars
    PROVE  AwaitsProcessing'
<1> USE DEF portal, rows, run, queue, bounds, hand, history
<1> SUFFICES ASSUME NEW n \in Notices, held'[n] # processed'[n]
             PROVE  n \in todo' \cup unasked' \/ arq'[n] = "queued"
  BY DEF AwaitsProcessing
<1>0. held[n] # processed[n] => n \in todo \cup unasked \/ arq[n] = "queued"
  BY DEF AwaitsProcessing
<1>1. CASE Commit
  BY <1>0, <1>1 DEF Commit, TodoWith, TypeOK
<1>2. ASSUME NEW k \in Notices, Ask(k) PROVE n \in todo' \cup unasked' \/ arq'[n] = "queued"
  <2>1. CASE n = k
    BY <1>2, <2>1 DEF Ask, TypeOK
  <2>2. CASE n # k
    BY <1>0, <1>2, <2>2 DEF Ask, TypeOK
  <2> QED  BY <2>1, <2>2
<1>3. CASE WorkerDies
  BY <1>0, <1>3 DEF WorkerDies
<1>4. CASE StartReplay
  BY <1>0, <1>4 DEF StartReplay, Counters, Waiting
<1>5. ASSUME NEW oldest \in 0..since, NEW limit \in Limits, StartScrape(oldest, limit)
      PROVE  n \in todo' \cup unasked' \/ arq'[n] = "queued"
  BY <1>0, <1>5 DEF StartScrape, Counters, Waiting
<1>6. ASSUME NEW k \in Notices, ReplayOne(k)
      PROVE  n \in todo' \cup unasked' \/ arq'[n] = "queued"
  <2>1. n # k => held'[n] = held[n]
    BY <1>6 DEF ReplayOne, Reparse, TypeOK
  <2>2. todo \subseteq todo' /\ (held'[k] # held[k] => k \in todo')
    BY <1>6 DEF ReplayOne
  <2> QED  BY <1>0, <1>6, <2>1, <2>2 DEF ReplayOne
<1>7. ASSUME NEW k \in Notices, TakeUp(k)
      PROVE  n \in todo' \cup unasked' \/ arq'[n] = "queued"
  BY <1>0, <1>7 DEF TakeUp, TypeOK
<1>8. ASSUME NEW k \in Notices, ExpireResult(k)
      PROVE  n \in todo' \cup unasked' \/ arq'[n] = "queued"
  BY <1>0, <1>8 DEF ExpireResult, TypeOK
<1>9. ASSUME NEW k \in Notices, NEW t \in Texts, Import(k, t)
      PROVE  n \in todo' \cup unasked' \/ arq'[n] = "queued"
  BY <1>0, <1>9 DEF Import, TypeOK
<1>10. ASSUME NEW k \in Notices, NEW reparse \in BOOLEAN, ReprocessTender(k, reparse)
       PROVE  n \in todo' \cup unasked' \/ arq'[n] = "queued"
  <2>1. n # k /\ held'[n] = held[n] /\ processed'[n] = processed[n]
    BY <1>10 DEF ReprocessTender, Reparse, TypeOK
  <2> QED  BY <1>0, <1>10, <2>1 DEF ReprocessTender
<1>11. CASE UNCHANGED <<held, processed, arq, todo, unasked>>
  BY <1>0, <1>11
<1> QED
  BY <1>1, <1>2, <1>3, <1>4, <1>5, <1>6, <1>7, <1>8, <1>9, <1>10, <1>11
  DEF Next, Publish, Amend, ListingFails, FetchFails, Fetch, StoreFails, Finish, Return,
      StartSweep, EndSweep, SweepFile, vars

-----------------------------------------------------------------------------
(* Payloads and the sweep.                                                 *)

(* Which captures a commit leaves. *)
LEMMA CommitCaptures ==
    ASSUME TypeOK, Commit
    PROVE  /\ next \in Notices /\ fetched \in Texts
           /\ Known' = Known \cup {Written}
           /\ \A n \in Notices : n # next => captures'[n] = captures[n]
           /\ fetched \notin ToSet(captures[next]) =>
                captures'[next] = Append(captures[next], fetched)
<1>1. next \in Notices /\ fetched \in Texts
  BY BoundsAreNat DEF TypeOK, Commit, Notices
<1>2. captures[next] \in Seq(Texts) /\ Len(captures[next]) \in Nat
  BY <1>1, LenProperties DEF TypeOK
<1>3. /\ \A n \in Notices : n # next => captures'[n] = captures[n]
      /\ captures'[next] = CapturesWith(next, fetched)
  BY <1>1 DEF TypeOK, Commit
<1>4. ToSet(CapturesWith(next, fetched)) = ToSet(captures[next]) \cup {fetched}
  <2>1. CASE fetched \in ToSet(captures[next])
    BY <2>1 DEF CapturesWith
  <2>2. CASE fetched \notin ToSet(captures[next])
    <3>1. PICK s \in Seq(Texts) : s = Append(captures[next], fetched)
      BY <1>1, <1>2, AppendProperties
    <3>2. /\ Len(s) = Len(captures[next]) + 1 /\ s[Len(s)] = fetched
          /\ \A i \in 1..Len(captures[next]) : s[i] = captures[next][i]
      BY <1>1, <1>2, <3>1, AppendProperties
    <3>3. ToSet(s) = ToSet(captures[next]) \cup {fetched}
      BY <1>2, <3>2 DEF ToSet
    <3> QED  BY <2>2, <3>1, <3>3 DEF CapturesWith
  <2> QED  BY <2>1, <2>2
<1>5. Known' = Known \cup {Written}
  <2>1. ASSUME NEW p \in Payloads PROVE p \in Known' <=> p \in Known \cup {Written}
    <3>1. PICK n \in Notices, t \in Texts : p = <<n, t>>
      BY DEF Payloads
    <3>2. p[1] = n /\ p[2] = t
      BY <3>1
    <3>3. p \in Known <=> t \in ToSet(captures[n])
      BY <3>2 DEF Known
    <3>4. p \in Known' <=> t \in ToSet(captures'[n])
      BY <3>2 DEF Known, ToSet
    <3>5. p = Written <=> n = next /\ t = fetched
      BY <3>1 DEF Written
    <3>6. CASE n = next
      BY <1>3, <1>4, <3>3, <3>4, <3>5, <3>6
    <3>7. CASE n # next
      BY <1>3, <3>3, <3>4, <3>5, <3>7
    <3> QED  BY <3>6, <3>7
  <2>2. Known \subseteq Payloads /\ Known' \subseteq Payloads /\ Written \in Payloads
    BY <1>1 DEF Known, Payloads, Written
  <2> QED  BY <2>1, <2>2
<1>6. fetched \notin ToSet(captures[next]) =>
        captures'[next] = Append(captures[next], fetched)
  BY <1>3 DEF CapturesWith
<1> QED  BY <1>1, <1>3, <1>5, <1>6

(* A payload is kept when it is known and on disk, or raced. *)
LEMMA KeptIsKnown == TypeOK => (PayloadsKept <=> Known \subseteq files \cup raced)
<1> SUFFICES ASSUME TypeOK PROVE PayloadsKept <=> Known \subseteq files \cup raced
  OBVIOUS
<1>1. ASSUME PayloadsKept, NEW p \in Known PROVE p \in files \cup raced
  <2>1. PICK n \in Notices, t \in Texts : p = <<n, t>> /\ t \in ToSet(captures[n])
    BY DEF Known, Payloads
  <2>2. PICK i \in 1..Len(captures[n]) : t = captures[n][i]
    BY <2>1 DEF ToSet
  <2> QED  BY <1>1, <2>1, <2>2 DEF PayloadsKept
<1>2. ASSUME Known \subseteq files \cup raced, NEW n \in Notices, NEW i \in 1..Len(captures[n])
      PROVE  <<n, captures[n][i]>> \in files \cup raced
  <2>1. PICK t \in Texts : t = captures[n][i]
    BY ElementOfSeq DEF TypeOK
  <2>2. <<n, t>> \in Known
    BY <2>1 DEF Known, Payloads, ToSet
  <2> QED  BY <1>2, <2>1, <2>2
<1> QED  BY <1>1, <1>2 DEF PayloadsKept

(* Which payloads are known depends on the captures alone. *)
LEMMA KnownStays == captures' = captures => Known' = Known
BY DEF Known, Payloads, ToSet

(* Every step spares the payloads the sweep must not delete. *)
LEMMA SpareStep ==
    ASSUME TypeOK, SweepSpares, [Next]_vars
    PROVE  SweepSpares'
<1> USE DEF portal, rows, run, queue, bounds, hand, history
<1>1. CASE Fetch
  <2>1. captures' = captures /\ doomed' = doomed /\ Known' = Known
    BY <1>1, KnownStays DEF Fetch
  <2>2. CASE pc' = "visit" /\ UNCHANGED <<files, raced>>
    BY <2>1, <2>2 DEF SweepSpares
  <2>3. CASE pc' = "commit"
    <3>1. PICK k \in Notices, t \in Texts : k = next /\ t = says[next]
      <4>1. next \in 0..MaxNotices /\ bottom \in 0..MaxNotices /\ bottom < next
        BY <1>1 DEF Fetch, TypeOK
      <4>2. next \in Notices
        BY <4>1, BoundsAreNat DEF Notices
      <4> QED  BY <4>2 DEF TypeOK
    <3>2. /\ files' = IF t \in ToSet(captures[k]) THEN files ELSE files \cup {<<k, t>>}
          /\ raced' = IF doomed # None /\ <<k, t>> \in doomed THEN raced \cup {<<k, t>>} ELSE raced
          /\ next' = k /\ fetched' = t
      BY <1>1, <2>3, <3>1 DEF Fetch
    <3>3. Written' = <<k, t>>
      BY <3>2 DEF Written
    <3>4. <<k, t>> \in files' \cup Known
      <4>1. t \in ToSet(captures[k]) => <<k, t>> \in Known
        BY DEF Known, Payloads
      <4> QED  BY <3>2, <4>1
    <3>5. files \subseteq files' /\ raced \subseteq raced'
      BY <3>2
    <3>6. doomed # None /\ <<k, t>> \in doomed => <<k, t>> \in raced'
      BY <3>2
    <3>7. Known \subseteq files' \cup raced'
      BY <3>5 DEF SweepSpares
    <3>8. doomed # None => doomed \cap Known \subseteq raced'
      BY <3>5 DEF SweepSpares
    <3> QED  BY <2>1, <3>3, <3>4, <3>6, <3>7, <3>8 DEF SweepSpares
  <2> QED  BY <1>1, <2>2, <2>3 DEF Fetch
<1>2. CASE Commit
  <2>1. Known' = Known \cup {Written}
    BY <1>2, CommitCaptures
  <2>2. pc = "commit" /\ pc' = "visit" /\ UNCHANGED <<files, raced, doomed>>
    BY <1>2 DEF Commit
  <2> QED  BY <2>1, <2>2 DEF SweepSpares
<1>3. CASE StartSweep
  <2>1. /\ Known' = Known /\ Written' = Written /\ pc' = pc /\ files' = files
        /\ doomed' = files \ Known
    BY <1>3, KnownStays DEF StartSweep, Written
  <2>2. raced' = IF pc = "commit" THEN raced \cup ({Written} \cap (files \ Known)) ELSE raced
    BY <1>3 DEF StartSweep, Written
  <2>3. raced \subseteq raced' /\ (pc = "commit" /\ Written \in files \ Known => Written \in raced')
    BY <2>2
  <2> QED  BY <2>1, <2>3 DEF SweepSpares
<1>4. CASE EndSweep
  <2>1. Known' = Known /\ Written' = Written
    BY <1>4, KnownStays DEF EndSweep, Written
  <2> QED  BY <1>4, <2>1 DEF EndSweep, SweepSpares
<1>5. ASSUME NEW p \in Payloads, SweepFile(p) PROVE SweepSpares'
  <2>1. Known' = Known /\ Written' = Written
    BY <1>5, KnownStays DEF SweepFile, Written
  <2>2. /\ doomed # None /\ p \in doomed /\ files' = files \ {p} /\ doomed' = doomed \ {p}
        /\ pc' = pc /\ raced' = raced
    BY <1>5 DEF SweepFile
  <2>3. p \in Known => p \in raced
    BY <2>2 DEF SweepSpares
  <2>4. pc = "commit" /\ p = Written => p \in raced
    BY <2>2 DEF SweepSpares
  <2> QED  BY <2>1, <2>2, <2>3, <2>4 DEF SweepSpares
<1>6. CASE /\ UNCHANGED <<captures, files, raced, doomed>>
           /\ pc' # "commit" \/ UNCHANGED <<pc, next, fetched>>
  <2>1. Known' = Known
    BY <1>6, KnownStays
  <2>2. CASE pc' # "commit"
    BY <1>6, <2>1, <2>2 DEF SweepSpares
  <2>3. CASE UNCHANGED <<pc, next, fetched>>
    BY <1>6, <2>1, <2>3 DEF SweepSpares, Written
  <2> QED  BY <1>6, <2>2, <2>3
<1>7. \/ Fetch \/ Commit \/ StartSweep \/ EndSweep \/ \E p \in Payloads : SweepFile(p)
      \/ /\ UNCHANGED <<captures, files, raced, doomed>>
         /\ pc' # "commit" \/ UNCHANGED <<pc, next, fetched>>
  BY DEF Next, Publish, Amend, StartScrape, ListingFails, FetchFails, StoreFails, Finish, Return,
     WorkerDies, StartReplay, Ask, TakeUp, ExpireResult, ReplayOne, Import, ReprocessTender, vars
<1> QED
  BY <1>1, <1>2, <1>3, <1>4, <1>5, <1>6, <1>7

(* With every payload of a notice on disk, a parse reads the newest. *)
LEMMA ReparseReadsNewest ==
    ASSUME TypeOK, SweepSpares, NEW n \in Notices, Reparse(n), Readable(n) # {},
           \A p \in raced : p[1] # n
    PROVE  captures[n] # <<>> /\ held'[n] = captures[n][Len(captures[n])]
<1>1. captures[n] \in Seq(Texts) /\ Len(captures[n]) \in Nat
  BY LenProperties DEF TypeOK
<1>2. NewestReadable(n) \in 1..Len(captures[n])
  BY ReadableIsBounded
<1>3. Len(captures[n]) \in 1..Len(captures[n])
  BY <1>1, <1>2
<1>4. <<n, captures[n][Len(captures[n])]>> \in Known
  <2>1. PICK t \in Texts : t = captures[n][Len(captures[n])]
    BY <1>1, <1>3, ElementOfSeq
  <2> QED  BY <1>3, <2>1 DEF Known, Payloads, ToSet
<1>5. Len(captures[n]) \in Readable(n)
  BY <1>3, <1>4 DEF SweepSpares, Readable
<1>6. NewestReadable(n) = Len(captures[n])
  BY <1>1, <1>2, <1>5, ReadableIsBounded
<1>7. held'[n] = captures[n][NewestReadable(n)]
  BY DEF Reparse, TypeOK
<1>8. captures[n] # <<>>
  BY <1>2
<1> QED  BY <1>6, <1>7, <1>8

(* Every step keeps the text of a row that of its newest capture. *)
LEMMA NewestTextStep ==
    ASSUME TypeOK, SweepSpares, NewestText, [Next]_vars
    PROVE  NewestText'
<1> USE DEF portal, rows, run, queue, bounds, hand, history
<1> SUFFICES ASSUME NEW n \in Notices, held'[n] # None, n \notin reverted' \cup typed',
                    \A p \in raced' : p[1] # n
             PROVE  captures'[n] # <<>> /\ held'[n] = captures'[n][Len(captures'[n])]
  BY DEF NewestText
<1>a. ASSUME held'[n] = held[n], captures'[n] = captures[n], raced \subseteq raced',
             n \in reverted \cup typed => n \in reverted' \cup typed'
      PROVE  captures'[n] # <<>> /\ held'[n] = captures'[n][Len(captures'[n])]
  BY <1>a DEF NewestText
<1>b. ASSUME NEW k \in Notices, Reparse(k), UNCHANGED <<captures, raced, reverted>>
      PROVE  captures'[n] # <<>> /\ held'[n] = captures'[n][Len(captures'[n])]
  <2>1. CASE n # k \/ Readable(k) = {}
    <3>1. held'[n] = held[n] /\ (n \in typed => n \in typed')
      BY <1>b, <2>1 DEF Reparse, TypeOK
    <3> QED  BY <1>a, <1>b, <3>1
  <2>2. CASE n = k /\ Readable(n) # {}
    BY <1>b, <2>2, ReparseReadsNewest
  <2> QED  BY <2>1, <2>2
<1>1. CASE Commit
  <2>1. UNCHANGED raced /\ reverted \subseteq reverted' /\ typed' = typed \ {next}
    BY <1>1 DEF Commit
  <2>2. CASE n # next
    <3>1. held'[n] = held[n] /\ captures'[n] = captures[n]
      BY <1>1, <2>2, CommitCaptures DEF Commit, TypeOK
    <3> QED  BY <1>a, <2>1, <2>2, <3>1
  <2>3. CASE n = next
    <3>1. fetched \notin ToSet(captures[next])
      BY <1>1, <2>3 DEF Commit
    <3>2. captures'[n] = Append(captures[n], fetched) /\ held'[n] = fetched
      BY <1>1, <2>3, <3>1, CommitCaptures DEF Commit, TypeOK
    <3>3. captures[n] \in Seq(Texts) /\ fetched \in Texts
      BY <1>1, CommitCaptures DEF TypeOK
    <3>4. PICK s : s = Append(captures[n], fetched)
      OBVIOUS
    <3>5. s # <<>> /\ s[Len(s)] = fetched
      BY <3>3, <3>4, AppendProperties, LenProperties
    <3> QED  BY <3>2, <3>4, <3>5
  <2> QED  BY <2>2, <2>3
<1>2. ASSUME NEW k \in Notices, NEW t \in Texts, Import(k, t)
      PROVE  captures'[n] # <<>> /\ held'[n] = captures'[n][Len(captures'[n])]
  <2>1. n # k
    BY <1>2 DEF Import
  <2>2. held'[n] = held[n] /\ typed \subseteq typed' /\ UNCHANGED <<captures, raced, reverted>>
    BY <1>2, <2>1 DEF Import, TypeOK
  <2> QED  BY <1>a, <2>2
<1>3. ASSUME NEW k \in Notices, ReplayOne(k)
      PROVE  captures'[n] # <<>> /\ held'[n] = captures'[n][Len(captures'[n])]
  BY <1>3, <1>b DEF ReplayOne
<1>4. ASSUME NEW k \in Notices, NEW reparse \in BOOLEAN, ReprocessTender(k, reparse)
      PROVE  captures'[n] # <<>> /\ held'[n] = captures'[n][Len(captures'[n])]
  <2>1. UNCHANGED <<captures, raced, reverted>>
    BY <1>4 DEF ReprocessTender
  <2>2. CASE Reparse(k)
    BY <1>b, <2>1, <2>2
  <2>3. CASE UNCHANGED <<held, typed>>
    BY <1>a, <2>1, <2>3
  <2> QED  BY <1>4, <2>2, <2>3 DEF ReprocessTender
<1>5. CASE UNCHANGED <<held, captures, reverted, typed>> /\ raced \subseteq raced'
  BY <1>a, <1>5
<1>6. \/ Commit
      \/ \E k \in Notices : \/ ReplayOne(k)
                            \/ \E t \in Texts : Import(k, t)
                            \/ \E reparse \in BOOLEAN : ReprocessTender(k, reparse)
      \/ UNCHANGED <<held, captures, reverted, typed>> /\ raced \subseteq raced'
  BY DEF Next, Publish, Amend, StartScrape, ListingFails, FetchFails, Fetch, StoreFails, Finish,
     Return, WorkerDies, StartReplay, Ask, TakeUp, ExpireResult, StartSweep, EndSweep,
     SweepFile, vars
<1> QED
  BY <1>1, <1>2, <1>3, <1>4, <1>5, <1>6

-----------------------------------------------------------------------------
(* The invariant.                                                          *)

LEMMA InitIInv == Init => IInv
<1> SUFFICES ASSUME Init PROVE IInv
  OBVIOUS
<1>1. TypeOK
  BY InitTypes
<1>2. Counters
  BY ThresholdsArePositive DEF Init, Counters, Waiting
<1>3. NothingForgotten
  BY DEF Init, NothingForgotten, NothingLeftOut
<1>4. AwaitsProcessing
  BY DEF Init, AwaitsProcessing
<1>5. SweepSpares
  <2>1. Known = {}
    BY DEF Init, Known, Payloads, ToSet
  <2> QED  BY <2>1 DEF Init, SweepSpares
<1>6. NewestText
  BY DEF Init, NewestText
<1> QED  BY <1>1, <1>2, <1>3, <1>4, <1>5, <1>6 DEF IInv

LEMMA IInvStep == IInv /\ [Next]_vars => IInv'
<1> SUFFICES ASSUME IInv, [Next]_vars PROVE IInv'
  OBVIOUS
<1> USE DEF IInv
<1>1. TypeOK'  BY TypesStep
<1>2. Counters'  BY CountersStep
<1>3. NothingForgotten'  BY ForgottenStep
<1>4. AwaitsProcessing'  BY AwaitsStep
<1>5. SweepSpares'  BY SpareStep
<1>6. NewestText'  BY NewestTextStep
<1> QED  BY <1>1, <1>2, <1>3, <1>4, <1>5, <1>6

(* The invariant holds of every behaviour of the portal and its notices.   *)
THEOREM IngestionInductive == Spec => []IInv
<1> QED  BY InitIInv, IInvStep, PTL DEF Spec

-----------------------------------------------------------------------------
(* The variables of the scrape, the replay, the sweep and the queue keep   *)
(* their types through every order of their steps.                         *)
THEOREM IngestionTypes == Spec => []TypeOK
<1>1. IInv => TypeOK
  BY DEF IInv
<1> QED  BY IngestionInductive, <1>1, PTL

(* What a good run lists is held or was left out in a way the code accepts *)
(* (scraping.py:45), and a text that is stored and not taken up by the     *)
(* pipeline is asked for, or its request is one the code loses             *)
(* (service.py:29).                                                        *)
THEOREM NoticesProcessed == Spec => []NoticesReachThePipeline
<1>1. IInv => NoticesReachThePipeline
  BY DEF IInv, NothingForgotten, NoticesReachThePipeline
<1> QED  BY IngestionInductive, <1>1, PTL

(* A payload with a row stays on disk and is the one its row was parsed    *)
(* from (ingestion/reprocess.py:61), except where a sweep overlapped the   *)
(* transaction, a text came back, or somebody typed it.                    *)
THEOREM NewestPayload == Spec => []TextIsNewestPayload
<1>1. IInv => TextIsNewestPayload
  <2> SUFFICES ASSUME IInv PROVE TextIsNewestPayload
    OBVIOUS
  <2>1. PayloadsKept
    BY KeptIsKnown DEF IInv, SweepSpares
  <2>2. NewestText
    BY DEF IInv
  <2> QED  BY <2>1, <2>2 DEF TextIsNewestPayload, NewestText
<1> QED  BY IngestionInductive, <1>1, PTL
==============================================================================
