------------------------------ MODULE Ingestion ------------------------------
(***************************************************************************)
(* One portal and the notices held from it: the scrape                     *)
(* (app/jobs/tasks/scraping.py), the walk of the listing                   *)
(* (app/ingestion/adapters), the upsert of a notice with its payloads      *)
(* (app/ingestion/service.py), the replay of stored payloads               *)
(* (app/jobs/tasks/reprocessing.py, app/ingestion/reprocess.py), what an   *)
(* admin adds by hand (app/ingestion/importer.py) and the sweep of orphan  *)
(* payloads (app/jobs/tasks/maintenance.py).                               *)
(*                                                                         *)
(* Notices are numbered in the order of their publication.  A portal may   *)
(* change the text of a notice, and change it back.  Scrapes and replays   *)
(* of a source share a worker that runs one job at a time; the sweep and   *)
(* the jobs that are asked for run on another.  A payload is a file on     *)
(* disk, written before the transaction of its row commits.                *)
(***************************************************************************)
EXTENDS Naturals, Sequences, FiniteSets

CONSTANTS
    None,
    Texts,        \* what a notice may say
    Limits,       \* how many rows of the listing a run may walk
    SeenLimit,    \* how many identifiers a run knows again (500)
    GiveUpAfter,  \* MAX_CONSECUTIVE_FAILURES
    MaxNotices,   \* bound: notices published
    MaxAmends,    \* bound: changes of a text
    MaxRuns,      \* bound: scrapes and replays
    MaxFailures,  \* bound: failed fetches, transactions, calls to Redis, crashes
    MaxErrands    \* bound: sweeps of orphan payloads, and notices an admin
                  \* adds or sends through again

ASSUME IngestionAssumption ==
    /\ None \notin Texts
    /\ Limits \subseteq Nat \ {0}
    /\ {SeenLimit, GiveUpAfter} \subseteq Nat \ {0}
    /\ {MaxNotices, MaxAmends, MaxRuns, MaxFailures, MaxErrands} \subseteq Nat

Notices == 1..MaxNotices

VARIABLES
    \* the portal
    published,   \* how many notices it has published
    says,        \* what each of them says
    \* tenders, tender_documents, tender_sources.last_success_at, and the disk
    held,        \* the text of a notice, None when it is not held
    firstSeen,   \* the notices held, in the order they were first stored
    captures,    \* the texts captured of each notice, in the order of created_at
    since,       \* how many notices were published when the last good run began
    files,       \* payloads on disk: <<notice, text>>
    \* the job on the scrape queue
    pc,
    listed,      \* how many notices were published when it began
    next,        \* the notice it is at ...
    bottom,      \* ... and the first one of the listing it does not get to
    streak,      \* consecutive_failures
    fetched,     \* the text of `next' in an open transaction
    fatal,
    todo,        \* notices to ask the pipeline for at the end
    replay,      \* notices a replay has still to look at
    \* the default queue
    arq,         \* process_tender:<id>: "none", "queued", or "kept" (begun; a result)
    processed,   \* the text the pipeline last took up
    doomed,      \* payloads the sweep will delete, None when no sweep runs
    \* bounds and history (no code reads these)
    amends, runs, failures, errands,
    leftOut,     \* notices a run failed at, or did not get to
    unasked,     \* notices whose request was lost with a worker, or refused
    raced,       \* payloads written in a transaction a sweep overlapped
    reverted,    \* notices whose text went back to one captured before
    planted,     \* notices first stored by hand
    typed        \* notices whose text is from no payload

portal  == <<published, says>>
rows    == <<held, firstSeen, captures, since>>
run     == <<pc, listed, next, bottom, streak, fetched, fatal, todo, replay>>
queue   == <<arq, processed>>
bounds  == <<amends, runs, failures, errands>>
hand    == <<planted, typed>>
history == <<leftOut, unasked, raced, reverted>>
vars == <<published, says, held, firstSeen, captures, since, files, pc, listed, next,
          bottom, streak, fetched, fatal, todo, replay, arq, processed, doomed, amends,
          runs, failures, errands, leftOut, unasked, raced, reverted, planted, typed>>

Payloads == Notices \X Texts

TypeOK ==
    /\ published \in 0..MaxNotices /\ says \in [Notices -> Texts]
    /\ held \in [Notices -> Texts \cup {None}]
    /\ firstSeen \in Seq(Notices)
    /\ captures \in [Notices -> Seq(Texts)]
    /\ since \in 0..MaxNotices
    /\ files \subseteq Payloads
    /\ pc \in {"idle", "visit", "commit", "replay", "enqueue"}
    /\ {listed, next, bottom} \subseteq 0..MaxNotices
    /\ pc \in {"visit", "commit"} => bottom <= next /\ next <= listed
    /\ pc = "commit" => bottom < next
    /\ streak \in 0..GiveUpAfter
    /\ fetched \in Texts \cup {None} /\ (fetched # None <=> pc = "commit")
    /\ fatal \in BOOLEAN
    /\ todo \subseteq Notices /\ replay \subseteq Notices
    /\ arq \in [Notices -> {"none", "queued", "kept"}]
    /\ processed \in [Notices -> Texts \cup {None}]
    /\ doomed = None \/ doomed \subseteq Payloads
    /\ amends \in 0..MaxAmends /\ runs \in 0..MaxRuns
    /\ failures \in 0..MaxFailures /\ errands \in 0..MaxErrands
    /\ {leftOut, unasked, reverted, planted, typed} \subseteq SUBSET Notices
    /\ raced \subseteq Payloads

Init ==
    /\ published = 0
    /\ \E t \in Texts : says = [n \in Notices |-> t]  \* texts of two notices are never compared
    /\ held = [n \in Notices |-> None] /\ firstSeen = <<>>
    /\ captures = [n \in Notices |-> <<>>] /\ since = 0 /\ files = {}
    /\ pc = "idle" /\ listed = 0 /\ next = 0 /\ bottom = 0 /\ streak = 0
    /\ fetched = None /\ fatal = FALSE /\ todo = {} /\ replay = {}
    /\ arq = [n \in Notices |-> "none"]
    /\ processed = [n \in Notices |-> None]
    /\ doomed = None
    /\ amends = 0 /\ runs = 0 /\ failures = 0 /\ errands = 0
    /\ leftOut = {} /\ unasked = {} /\ raced = {} /\ reverted = {}
    /\ planted = {} /\ typed = {}

ToSet(s) == {s[i] : i \in 1..Len(s)}

-----------------------------------------------------------------------------
(* The portal.                                                             *)

Publish ==
    /\ published < MaxNotices
    /\ published' = published + 1
    /\ UNCHANGED <<hand, says, rows, files, run, queue, doomed, bounds, history>>

Amend(n, t) ==
    /\ n <= published
    /\ t # says[n]
    /\ amends < MaxAmends
    /\ amends' = amends + 1
    /\ says' = [says EXCEPT ![n] = t]
    /\ UNCHANGED <<hand, published, rows, files, run, queue, doomed, runs, failures, errands, history>>

-----------------------------------------------------------------------------
(* A scrape.                                                               *)

(* _recent_external_ids: the notices stored last, not those published last *)
SeenIds ==
    {firstSeen[i] : i \in {j \in 1..Len(firstSeen) : j + SeenLimit > Len(firstSeen)}}

(* The listing is newest first.  The walk ends at the first notice that is *)
(* known, or older than the last good run and the overlap of a day ...     *)
Recognised(oldest) ==
    CHOOSE n \in SeenIds \cup {oldest} : \A m \in SeenIds \cup {oldest} : m <= n

(* ... or where its pages are used up. *)
WalkEnds(oldest, limit) ==
    IF published > Recognised(oldest) + limit THEN published - limit ELSE Recognised(oldest)

(* The run notes what it holds and collects the whole listing. *)
StartScrape(oldest, limit) ==
    /\ pc = "idle"
    /\ runs < MaxRuns
    /\ runs' = runs + 1
    /\ oldest <= since
    /\ pc' = "visit"
    /\ listed' = published
    /\ next' = published
    /\ bottom' = WalkEnds(oldest, limit)
    /\ todo' = {}
    /\ leftOut' = leftOut \cup ((Recognised(oldest) + 1)..WalkEnds(oldest, limit))
    /\ UNCHANGED <<hand, portal, rows, files, streak, fetched, fatal, replay, queue, doomed, amends,
                   failures, errands, unasked, raced, reverted>>

Ahead == (bottom + 1)..next

Fails == failures < MaxFailures /\ failures' = failures + 1

(* The portal fails while it is asked for the listing: the run has nothing *)
(* to fetch.                                                               *)
ListingFails ==
    /\ pc = "visit" /\ next = listed /\ next > bottom /\ ~fatal
    /\ Fails
    /\ fatal' = TRUE
    /\ leftOut' = leftOut \cup Ahead
    /\ UNCHANGED <<hand, portal, rows, files, pc, listed, next, bottom, streak, fetched, todo,
                   replay, queue, doomed, amends, runs, errands, unasked, raced, reverted>>

(* Fault: one failure too many before the run gives up. *)
FetchFailsOnceMore ==
    /\ pc = "visit" /\ next > bottom /\ ~fatal
    /\ Fails
    /\ streak' = streak + 1
    /\ fatal' = (streak + 1 > GiveUpAfter)
    /\ leftOut' = leftOut \cup (IF fatal' THEN Ahead ELSE {next})
    /\ next' = next - 1
    /\ UNCHANGED <<hand, portal, rows, files, pc, listed, bottom, fetched, todo, replay, queue,
                   doomed, amends, runs, errands, unasked, raced, reverted>>

(* A detail page cannot be had or parsed; after several in a row the run   *)
(* gives up on the portal, and on the notices it has not got to.           *)
FetchFails ==
    /\ pc = "visit" /\ next > bottom /\ ~fatal
    /\ Fails
    /\ streak' = streak + 1
    /\ fatal' = (streak + 1 >= GiveUpAfter)
    /\ leftOut' = leftOut \cup (IF fatal' THEN Ahead ELSE {next})
    /\ next' = next - 1
    /\ UNCHANGED <<hand, portal, rows, files, pc, listed, bottom, fetched, todo, replay, queue,
                   doomed, amends, runs, errands, unasked, raced, reverted>>

(* The notice is fetched.  When it is held with this text already only     *)
(* last_seen_at moves; else its row is written, and its payload unless     *)
(* these bytes were captured before.                                       *)
Fetch ==
    /\ pc = "visit" /\ next > bottom /\ ~fatal
    /\ streak' = 0
    /\ LET text == says[next]
           payload == <<next, text>>
       IN  \/ /\ held[next] = text
              /\ next' = next - 1
              /\ UNCHANGED <<files, pc, fetched, raced>>
           \/ /\ held[next] # text
              /\ pc' = "commit"
              /\ fetched' = text
              /\ files' = IF text \in ToSet(captures[next]) THEN files
                          ELSE files \cup {payload}
              /\ raced' = IF doomed # None /\ payload \in doomed
                          THEN raced \cup {payload} ELSE raced
              /\ UNCHANGED next
    /\ UNCHANGED <<hand, portal, rows, listed, bottom, fatal, todo, replay, queue, doomed, bounds,
                   leftOut, unasked, reverted>>

(* Fault: only new notices go on to the pipeline. *)
TodoIfNew(n) == IF held[n] = None THEN todo \cup {n} ELSE todo

(* UpsertResult.needs_processing: new and amended notices go on to the     *)
(* pipeline.  (The news of an amendment is asked for beside it;            *)
(* OrgNotifications has what becomes of that.)                             *)
TodoWith(n) == todo \cup {n}

(* store_documents adds a row unless one has these bytes. *)
CapturesWith(n, text) ==
    IF text \in ToSet(captures[n]) THEN captures[n] ELSE Append(captures[n], text)

(* The transaction of one notice commits: the row and its payloads' rows. *)
Commit ==
    /\ pc = "commit"
    /\ held' = [held EXCEPT ![next] = fetched]
    /\ firstSeen' = IF held[next] = None THEN Append(firstSeen, next) ELSE firstSeen
    /\ captures' = [captures EXCEPT ![next] = CapturesWith(next, fetched)]
    /\ reverted' = IF fetched \in ToSet(captures[next]) THEN reverted \cup {next} ELSE reverted
    /\ todo' = TodoWith(next)
    /\ typed' = typed \ {next}
    /\ pc' = "visit" /\ next' = next - 1 /\ fetched' = None
    /\ UNCHANGED <<planted, portal, since, files, listed, bottom, streak, fatal, replay, queue, doomed,
                   bounds, leftOut, unasked, raced>>

(* ... or is rolled back, and the file stays. *)
StoreFails ==
    /\ pc = "commit"
    /\ Fails
    /\ leftOut' = leftOut \cup {next}
    /\ pc' = "visit" /\ next' = next - 1 /\ fetched' = None
    /\ UNCHANGED <<hand, portal, rows, files, listed, bottom, streak, fatal, todo, replay, queue,
                   doomed, amends, runs, errands, unasked, raced, reverted>>

(* Fault: a good run is dated by its end. *)
FinishDatedByItsEnd ==
    /\ pc = "visit" /\ (next = bottom \/ fatal)
    /\ since' = IF fatal THEN since ELSE published
    /\ pc' = "enqueue"
    /\ UNCHANGED <<hand, portal, held, firstSeen, captures, files, listed, next, bottom, streak,
                   fetched, fatal, todo, replay, queue, doomed, bounds, history>>

(* _finish and _record_health: a run that did not give up is a good one,   *)
(* and dated by its start.                                                 *)
Finish ==
    /\ pc = "visit" /\ (next = bottom \/ fatal)
    /\ since' = IF fatal THEN since ELSE listed
    /\ pc' = "enqueue"
    /\ UNCHANGED <<hand, portal, held, firstSeen, captures, files, listed, next, bottom, streak,
                   fetched, fatal, todo, replay, queue, doomed, bounds, history>>

(* After the last transaction the pipeline is asked for, notice by notice. *)
(* ARQ refuses an id that is queued (the queued job will read the new      *)
(* text) or kept; an unreachable Redis is only logged.                     *)
Ask(n) ==
    /\ pc = "enqueue"
    /\ n \in todo
    /\ todo' = todo \ {n}
    /\ \/ /\ arq' = [arq EXCEPT ![n] = IF @ = "none" THEN "queued" ELSE @]
          /\ unasked' = IF arq[n] = "kept" THEN unasked \cup {n} ELSE unasked
          /\ UNCHANGED failures
       \/ /\ Fails
          /\ unasked' = unasked \cup {n}
          /\ UNCHANGED arq
    /\ UNCHANGED <<hand, portal, rows, files, pc, listed, next, bottom, streak, fetched, fatal,
                   replay, processed, doomed, amends, runs, errands, leftOut, raced, reverted>>

Return ==
    /\ pc = "enqueue" /\ todo = {}
    /\ pc' = "idle"
    /\ next' = 0 /\ bottom' = 0 /\ listed' = 0 /\ streak' = 0 /\ fatal' = FALSE
    /\ UNCHANGED <<hand, portal, rows, files, fetched, todo, replay, queue, doomed, bounds, history>>

(* The worker dies, or the job's time is up.  ARQ runs the job again, from *)
(* the start.                                                              *)
WorkerDies ==
    /\ pc # "idle"
    /\ Fails
    /\ leftOut' = leftOut \cup Ahead
    /\ unasked' = unasked \cup todo
    /\ pc' = "idle"
    /\ next' = 0 /\ bottom' = 0 /\ listed' = 0 /\ streak' = 0 /\ fatal' = FALSE
    /\ fetched' = None /\ todo' = {} /\ replay' = {}
    /\ UNCHANGED <<hand, portal, rows, files, queue, doomed, amends, runs, errands, raced, reverted>>

-----------------------------------------------------------------------------
(* A replay of stored payloads.                                            *)

StartReplay ==
    /\ pc = "idle"
    /\ runs < MaxRuns
    /\ runs' = runs + 1
    /\ pc' = "replay"
    /\ replay' = ToSet(firstSeen)
    /\ todo' = {}
    /\ UNCHANGED <<hand, portal, rows, files, listed, next, bottom, streak, fetched, fatal, queue,
                   doomed, amends, failures, errands, history>>

Readable(n) == {i \in 1..Len(captures[n]) : <<n, captures[n][i]>> \in files}

(* Fault: the first capture is replayed. *)
FirstReadable(n) == CHOOSE i \in Readable(n) : \A j \in Readable(n) : i <= j

(* load_documents: the newest capture that can be read wins. *)
NewestReadable(n) == CHOOSE i \in Readable(n) : \A j \in Readable(n) : j <= i

(* reparse_tender: the payload is parsed again and the notice upserted;    *)
(* without one there is nothing to do.                                     *)
Reparse(n) ==
    IF Readable(n) = {}
    THEN UNCHANGED <<held, typed>>
    ELSE /\ held' = [held EXCEPT ![n] = captures[n][NewestReadable(n)]]
         /\ typed' = typed \ {n}

(* One notice of the source; a changed text goes to the pipeline, and is   *)
(* no news to anyone.                                                      *)
ReplayOne(n) ==
    /\ pc = "replay"
    /\ n \in replay
    /\ replay' = replay \ {n}
    /\ Reparse(n)
    /\ todo' = IF held'[n] = held[n] THEN todo ELSE todo \cup {n}
    /\ pc' = IF replay' = {} THEN "enqueue" ELSE "replay"
    /\ UNCHANGED <<planted, portal, firstSeen, captures, since, files, listed, next, bottom, streak,
                   fetched, fatal, queue, doomed, bounds, history>>

-----------------------------------------------------------------------------
(* The default queue.                                                      *)

(* The pipeline takes up the text as it is then (MatchPipeline); from the  *)
(* start of the job to the end of keep_result its id is refused.           *)
TakeUp(n) ==
    /\ arq[n] = "queued"
    /\ arq' = [arq EXCEPT ![n] = "kept"]
    /\ processed' = [processed EXCEPT ![n] = held[n]]
    /\ unasked' = unasked \ {n}
    /\ UNCHANGED <<hand, portal, rows, files, run, doomed, bounds, leftOut, raced, reverted>>

ExpireResult(n) ==
    /\ arq[n] = "kept"
    /\ arq' = [arq EXCEPT ![n] = "none"]
    /\ UNCHANGED <<hand, portal, rows, files, run, processed, doomed, bounds, history>>

Errand == errands < MaxErrands /\ errands' = errands + 1

(* What an admin does by hand to a notice (app/modules/admin/router.py).  A *)
(* row that a scrape has written and not committed is waited for.          *)
ByHand(n) ==
    /\ Errand
    /\ n <= published
    /\ ~(pc = "commit" /\ next = n)

(* import_tenders and create_tender: the same upsert, without a payload;   *)
(* and nobody asks for the pipeline.                                       *)
Import(n, text) ==
    /\ ByHand(n)
    /\ text # held[n]
    /\ held' = [held EXCEPT ![n] = text]
    /\ firstSeen' = IF held[n] = None THEN Append(firstSeen, n) ELSE firstSeen
    /\ planted' = IF held[n] = None THEN planted \cup {n} ELSE planted
    /\ typed' = typed \cup {n}
    /\ unasked' = unasked \cup {n}
    /\ UNCHANGED <<portal, captures, since, files, run, queue, doomed, amends, runs, failures,
                   leftOut, raced, reverted>>

(* reprocess_tender: the pipeline, after another parse or without it.      *)
ReprocessTender(n, reparse) ==
    /\ ByHand(n)
    /\ held[n] # None
    /\ IF reparse THEN Reparse(n) ELSE UNCHANGED <<held, typed>>
    /\ processed' = [processed EXCEPT ![n] = held'[n]]
    /\ unasked' = unasked \ {n}
    /\ UNCHANGED <<planted, portal, firstSeen, captures, since, files, run, arq, doomed, amends, runs,
                   failures, leftOut, raced, reverted>>

(* Fault: only the newest payload of a notice is known. *)
KnownNewest ==
    {p \in Payloads : captures[p[1]] # <<>> /\ p[2] = captures[p[1]][Len(captures[p[1]])]}

Known == {p \in Payloads : p[2] \in ToSet(captures[p[1]])}

(* purge_orphan_blobs: what no committed row points at ... (With nothing    *)
(* to delete a sweep changes nothing.)                                     *)
StartSweep ==
    /\ doomed = None /\ files \ Known # {}
    /\ Errand
    /\ doomed' = files \ Known
    /\ raced' = IF pc = "commit" THEN raced \cup ({<<next, fetched>>} \cap (files \ Known)) ELSE raced
    /\ UNCHANGED <<hand, portal, rows, files, run, queue, amends, runs, failures, leftOut, unasked,
                   reverted>>

(* ... is deleted, file after file. *)
SweepFile(p) ==
    /\ doomed # None
    /\ p \in doomed
    /\ files' = files \ {p}
    /\ doomed' = doomed \ {p}
    /\ UNCHANGED <<hand, portal, rows, run, queue, bounds, history>>

EndSweep ==
    /\ doomed = {}
    /\ doomed' = None
    /\ UNCHANGED <<hand, portal, rows, files, run, queue, bounds, history>>

Next ==
    \/ Publish
    \/ \E n \in Notices, t \in Texts : Amend(n, t)
    \/ \E oldest \in 0..since, limit \in Limits : StartScrape(oldest, limit)
    \/ ListingFails \/ FetchFails \/ Fetch \/ Commit \/ StoreFails \/ Finish
    \/ Return \/ WorkerDies
    \/ StartReplay
    \/ \E n \in Notices :
        \/ Ask(n) \/ TakeUp(n) \/ ExpireResult(n) \/ ReplayOne(n)
        \/ \E t \in Texts : Import(n, t)
        \/ \E reparse \in BOOLEAN : ReprocessTender(n, reparse)
    \/ StartSweep \/ EndSweep
    \/ \E p \in Payloads : SweepFile(p)

Spec == Init /\ [][Next]_vars
-----------------------------------------------------------------------------
(* What a good run has listed is held, or was left out in a way the code   *)
(* accepts: the notice failed, or a run gave up, died or ran out of pages  *)
(* before it.  No order of publications, runs and restarts loses another   *)
(* between two runs ("would otherwise never be seen", scraping.py:45).     *)
(* The exception: the walk stops at a notice somebody added by hand, and   *)
(* those before it are never listed.                                       *)
NothingLeftOut ==
    \A n \in 1..since :
        held[n] # None \/ n \in leftOut \/ \E p \in planted : n < p

(* A text that is stored reaches the pipeline, or the request for it was   *)
(* refused by ARQ, died with its worker or, for a notice added by hand,    *)
(* never made: "downstream work must re-run" (service.py:29) has no other  *)
(* gap.                                                                    *)
AwaitsProcessing ==
    \A n \in Notices : held[n] # processed[n] =>
        n \in todo \cup unasked \/ arq[n] = "queued"

(* A notice the portal publishes is stored, and what is stored is taken up *)
(* by the pipeline.                                                        *)
NoticesReachThePipeline == NothingLeftOut /\ AwaitsProcessing

(* A payload with a row stays on disk, unless it was written in a          *)
(* transaction that a sweep overlapped: reading the known keys first       *)
(* (maintenance.py:271) does not spare the one whose row is uncommitted.   *)
PayloadsKept ==
    \A n \in Notices : \A i \in 1..Len(captures[n]) : <<n, captures[n][i]>> \in files \cup raced

(* Payloads are kept, and the text of a row is that of its newest one,     *)
(* through amendments, replays, sweeps and failures; except of a notice    *)
(* that went back to a text it had before, has lost a payload to a sweep,  *)
(* or has a text somebody typed (ingestion/reprocess.py:61).               *)
TextIsNewestPayload ==
    /\ PayloadsKept
    /\ \A n \in Notices :
        held[n] # None /\ n \notin reverted \cup typed /\ (\A p \in raced : p[1] # n) =>
            /\ captures[n] # <<>>
            /\ held[n] = captures[n][Len(captures[n])]
=============================================================================
