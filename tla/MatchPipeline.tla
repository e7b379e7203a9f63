---------------------------- MODULE MatchPipeline ----------------------------
(***************************************************************************)
(* One organization's verdict on one notice, and everything that is        *)
(* supposed to keep it fresh: profile and rule edits, amendments of the    *)
(* notice, extraction and embedding (app/jobs/tasks/matching.py,           *)
(* app/modules/matching/embedding_store.py) and the scoring step with its  *)
(* fingerprint guard (app/modules/matching/service.py).                    *)
(*                                                                         *)
(* Three jobs may run at once, one per ARQ id: the pipeline of a notice    *)
(* under the ids "process:<tender>" (the scraper) and "reprocess:<tender>" *)
(* (an operator), and "rematch:<org>".  Each takes several transactions    *)
(* and calls the AI provider inside them.  Texts and contents are numbers  *)
(* that grow with every change; a vector, a verdict or an extraction is    *)
(* named by the numbers of what it was computed from.  The other notices   *)
(* of the pool touch nothing this pair reads; the time a job spends on     *)
(* them it may spend between any two of its steps.                         *)
(***************************************************************************)
EXTENDS Naturals

CONSTANTS
    Pipelines,    \* the ids under which ARQ may run process_tender
    Editors,      \* concurrent requests that edit the profile
    None,
    MaxEdits,     \* bound: profile edits
    MaxRuleSaves, \* bound: rule-set versions saved
    MaxAmends,    \* bound: amendments of the notice by its portal
    MaxFailures,  \* bound: AI calls that fail, workers that die
    MaxJobs       \* bound: jobs ARQ accepts

Opt(S) == S \cup {None}

(* A blank profile, one filled in earlier, and one text for each edit. *)
Texts == 0..(MaxEdits + 1)

(* A job stores an extraction each time it runs. *)
Extractions == 1..(MaxJobs + MaxFailures)

Prints == [version : 1..(MaxEdits + 1), rules : 0..MaxRuleSaves,
           extraction : Opt(Extractions), content : 0..MaxAmends]
Scores == [facets : Texts, headline : Opt(0..MaxAmends), scope : Opt(Extractions)]
Verdicts == [profile : Texts \X Texts, rules : 0..MaxRuleSaves, extraction : Opt(Extractions)]
Matches == [print : Prints, score : Scores, verdict : Verdicts]

ASSUME PipelineAssumption ==
    /\ {MaxEdits, MaxRuleSaves, MaxAmends, MaxFailures, MaxJobs} \subseteq Nat
    /\ None \notin Nat \cup Editors /\ None \notin Prints /\ None \notin Matches
    /\ "rematch" \notin Pipelines

Runs == Pipelines \cup {"rematch"}

VARIABLES
    \* company_profiles, rule_sets, tenders
    text,        \* what the profile says; 0 when it is blank
    version,     \* company_profiles.version
    rules,       \* the active rule-set version
    content,     \* what the notice says, and so its content_hash
    \* tender_extractions (the current row), profile_ and tender_embeddings
    extraction,  \* [id, of, ok], or None
    facets,      \* the text the profile vectors were computed from; 0 when there are none
    headline,    \* the content the first chunk was computed from
    scope,       \* the extraction the second chunk was computed from
    \* tender_matches and tender_match_history
    match,       \* None, or [print, score, verdict]
    recorded,    \* the [score, verdict] pairs in the history
    \* ARQ and the requests
    arq,         \* each job id: "none", "queued", "running", "kept" (a result)
    force,       \* the argument of the rematch that is queued or running
    editing,     \* the version an edit in progress has loaded
    saving,      \* the edit that has flushed, and so holds the row's lock
    \* the runs
    pc,
    my,          \* what a run has read and written in its open transaction
    \* bounds and history (no code reads these)
    failures, accepted,
    calm         \* runs nothing has disturbed since they started

inputs  == <<text, version, rules, content>>
derived == <<extraction, facets, headline, scope>>
stored  == <<match, recorded>>
queue   == <<arq, force>>
edits   == <<editing, saving>>
history == <<failures, accepted, calm>>
vars == <<text, version, rules, content, extraction, facets, headline, scope, match,
          recorded, arq, force, editing, saving, pc, my, failures, accepted, calm>>

NextText == IF text = 0 THEN 2 ELSE text + 1

(* What a run knows: the content, version and text it read, its profile    *)
(* vectors not committed yet, the fingerprint and the row it loaded.       *)
Nothing == [content |-> None, version |-> None, text |-> None, write |-> None,
            print |-> None, existing |-> None]

TypeOK ==
    /\ text \in Texts /\ version \in 1..(MaxEdits + 1)
    /\ rules \in 0..MaxRuleSaves /\ content \in 0..MaxAmends
    /\ extraction \in Opt([id : Extractions, of : 0..MaxAmends, ok : BOOLEAN])
    /\ facets \in Texts /\ headline \in Opt(0..MaxAmends)
    /\ scope \in Opt(Extractions)
    /\ match \in Opt(Matches)
    /\ recorded \subseteq Scores \X Verdicts
    /\ arq \in [Runs -> {"none", "queued", "running", "kept"}]
    /\ force \in BOOLEAN
    /\ editing \in [Editors -> Opt(1..(MaxEdits + 1))]
    /\ saving \in Opt(Editors)
    /\ pc \in [Runs -> {"idle", "extract", "store", "embed", "sync", "load", "score"}]
    /\ \A r \in Runs :
        /\ pc[r] = "idle" <=> arq[r] # "running"
        /\ my[r].write \in Opt(Texts)
        /\ my[r].print \in Opt(Prints)
        /\ my[r].existing \in Opt(Matches)
    /\ failures \in 0..MaxFailures /\ accepted \in 0..MaxJobs
    /\ calm \in SUBSET Runs

Init ==
    /\ text \in {0, 1} /\ version = 1 /\ rules = 0 /\ content = 0
    /\ extraction = None /\ facets = 0 /\ headline = None /\ scope = None
    /\ match = None /\ recorded = {}
    /\ arq = [r \in Runs |-> "none"] /\ force = FALSE
    /\ editing = [e \in Editors |-> None] /\ saving = None
    /\ pc = [r \in Runs |-> "idle"]
    /\ my = [r \in Runs |-> Nothing]
    /\ failures = 0 /\ accepted = 0
    /\ calm = {}

-----------------------------------------------------------------------------
(* Requests, the portal and the queue.                                     *)

(* enqueue_job with an id: refused while a job of this id is queued,       *)
(* running, or has left a result that is still kept.                       *)
Enqueue(r) ==
    IF arq[r] = "none" /\ accepted < MaxJobs
    THEN arq' = [arq EXCEPT ![r] = "queued"] /\ accepted' = accepted + 1
    ELSE UNCHANGED <<arq, accepted>>

(* A profile edit loads the row ... *)
EditRead(e) ==
    /\ editing[e] = None
    /\ NextText \in Texts
    /\ editing' = [editing EXCEPT ![e] = version]
    /\ UNCHANGED <<inputs, derived, stored, queue, saving, pc, my, history>>

(* ... touch_profile flushes version + 1, and the handler schedules the    *)
(* re-match ...                                                            *)
EditFlush(e) ==
    /\ editing[e] # None
    /\ saving = None
    /\ NextText \in Texts
    /\ saving' = e
    /\ Enqueue("rematch")
    /\ force' = (force /\ arq["rematch"] # "none")
    /\ UNCHANGED <<inputs, derived, stored, editing, pc, my, failures, calm>>

(* Fault: touch_profile is called twice by one handler. *)
EditCommitTouchingTwice(e) ==
    /\ saving = e
    /\ text' = NextText
    /\ version' = editing[e] + 2
    /\ saving' = None
    /\ editing' = [editing EXCEPT ![e] = None]
    /\ calm' = {}
    /\ UNCHANGED <<rules, content, derived, stored, queue, pc, my, failures, accepted>>

(* ... and the session commits once the response is made. *)
EditCommit(e) ==
    /\ saving = e
    /\ text' = NextText
    /\ version' = editing[e] + 1
    /\ saving' = None
    /\ editing' = [editing EXCEPT ![e] = None]
    /\ calm' = {}
    /\ UNCHANGED <<rules, content, derived, stored, queue, pc, my, failures, accepted>>

(* save_current: a new rule-set version in force, and a re-match.          *)
SaveRules ==
    /\ rules < MaxRuleSaves
    /\ rules' = rules + 1
    /\ Enqueue("rematch")
    /\ force' = (force /\ arq["rematch"] # "none")
    /\ calm' = {}
    /\ UNCHANGED <<text, version, content, derived, stored, edits, pc, my, failures>>

(* The scraper stores an amended notice; it asks for processing later, or  *)
(* never, if it dies first.                                                *)
Amend ==
    /\ content < MaxAmends
    /\ content' = content + 1
    /\ calm' = {}
    /\ UNCHANGED <<text, version, rules, derived, stored, queue, edits, pc, my, failures,
                   accepted>>

(* The scraper, an operator or "Re-score now" asks for a job. *)
Request(r, forced) ==
    /\ arq[r] = "none"
    /\ accepted < MaxJobs
    /\ forced => r = "rematch"
    /\ Enqueue(r)
    /\ force' = IF r = "rematch" THEN forced ELSE force
    /\ UNCHANGED <<inputs, derived, stored, edits, pc, my, failures, calm>>

ExpireResult(r) ==
    /\ arq[r] = "kept"
    /\ arq' = [arq EXCEPT ![r] = "none"]
    /\ UNCHANGED <<inputs, derived, stored, force, edits, pc, my, history>>

-----------------------------------------------------------------------------
(* The jobs.                                                               *)

Active == {r \in Runs : pc[r] # "idle"}

Start(r) ==
    /\ arq[r] = "queued"
    /\ arq' = [arq EXCEPT ![r] = "running"]
    /\ pc' = [pc EXCEPT ![r] = IF r \in Pipelines THEN "extract" ELSE "embed"]
    /\ calm' = IF Active = {} THEN {r} ELSE {}
    /\ UNCHANGED <<inputs, derived, stored, force, edits, my, failures, accepted>>

(* The job returns, or raises: either way ARQ keeps a result. *)
Finish(r) ==
    /\ pc' = [pc EXCEPT ![r] = "idle"]
    /\ my' = [my EXCEPT ![r] = Nothing]
    /\ arq' = [arq EXCEPT ![r] = "kept"]

(* An AI call fails where the job cannot go on: for the tenant's           *)
(* transaction of a pipeline, or for the whole re-match.                   *)
EmbeddingFails(r) ==
    /\ pc[r] = "sync"
    /\ facets # my[r].text /\ my[r].text # 0
    /\ failures < MaxFailures
    /\ failures' = failures + 1
    /\ Finish(r)
    /\ calm' = {}
    /\ UNCHANGED <<inputs, derived, stored, force, edits, accepted>>

(* The worker dies; ARQ runs the job again from the start. *)
WorkerDies(r) ==
    /\ pc[r] # "idle"
    /\ failures < MaxFailures
    /\ failures' = failures + 1
    /\ pc' = [pc EXCEPT ![r] = "idle"]
    /\ my' = [my EXCEPT ![r] = Nothing]
    /\ arq' = [arq EXCEPT ![r] = "queued"]
    /\ calm' = {}
    /\ UNCHANGED <<inputs, derived, stored, force, edits, accepted>>

(* process_tender loads the notice and asks for its attributes. *)
Extract(r) ==
    /\ pc[r] = "extract"
    /\ my' = [my EXCEPT ![r].content = content]
    /\ pc' = [pc EXCEPT ![r] = "store"]
    /\ UNCHANGED <<inputs, derived, stored, queue, edits, history>>

(* _run_extraction: an answer about an input that was extracted before     *)
(* leaves the current row, whatever its status; anything else becomes a    *)
(* new current row, failures included.                                     *)
NextExtraction(of, ok) ==
    IF extraction # None /\ extraction.of = of /\ ok
    THEN extraction
    ELSE [id |-> IF extraction = None THEN 1 ELSE extraction.id + 1, of |-> of, ok |-> ok]

(* ... and the chunks whose text changed are embedded.  A failed           *)
(* extraction has no second chunk, and the old one stays.  When the        *)
(* provider fails here the chunks stay as they were and the job goes on.   *)
StoreExtraction(r, ok, embedded) ==
    /\ pc[r] = "store"
    /\ LET new == NextExtraction(my[r].content, ok)
           newScope == IF new.ok THEN new.id ELSE scope
           calls == <<headline, scope>> # <<my[r].content, newScope>>
           failed == (IF ok THEN 0 ELSE 1) + (IF embedded THEN 0 ELSE 1)
       IN  /\ embedded \/ calls
           /\ failures + failed <= MaxFailures
           /\ failures' = failures + failed
           /\ calm' = IF failed > 0 THEN {} ELSE calm
           /\ extraction' = new
           /\ \/ /\ embedded
                 /\ headline' = my[r].content
                 /\ scope' = newScope
              \/ /\ ~embedded
                 /\ UNCHANGED <<headline, scope>>
    /\ my' = [my EXCEPT ![r] = Nothing]
    /\ pc' = [pc EXCEPT ![r] = "embed"]
    /\ UNCHANGED <<inputs, facets, stored, queue, edits, accepted>>

(* Two pipelines that store at once: one breaks on the unique index of     *)
(* versions and raises.                                                    *)
StoreCollides(r) ==
    /\ pc[r] = "store"
    /\ \E q \in Pipelines \ {r} : pc[q] # "idle"
    /\ Finish(r)
    /\ UNCHANGED <<inputs, derived, stored, force, edits, history>>

(* The profile (and in a pipeline's transaction the notice) is loaded.     *)
LoadProfile(r) ==
    /\ pc[r] = "embed"
    /\ my' = [my EXCEPT ![r].content = content, ![r].version = version, ![r].text = text]
    /\ pc' = [pc EXCEPT ![r] = "sync"]
    /\ UNCHANGED <<inputs, derived, stored, queue, edits, history>>

(* sync_profile_embeddings: vectors of a changed text are replaced, and    *)
(* those of a text that is gone are deleted.  The re-match commits that    *)
(* and lists the notices that have vectors; a pipeline flushes it into its *)
(* open transaction, and the rows stay locked until it ends.               *)
SyncProfile(r) ==
    /\ pc[r] = "sync"
    /\ facets # my[r].text => \A q \in Runs \ {r} : my[q].write = None
    /\ \/ /\ r \in Pipelines
          /\ my' = [my EXCEPT ![r].write = IF facets = my[r].text THEN None ELSE my[r].text]
          /\ pc' = [pc EXCEPT ![r] = "load"]
          /\ UNCHANGED <<facets, arq>>
       \/ /\ r = "rematch"
          /\ facets' = my[r].text
          /\ IF headline = None
             THEN Finish(r)
             ELSE /\ my' = [my EXCEPT ![r] = Nothing]
                  /\ pc' = [pc EXCEPT ![r] = "load"]
                  /\ UNCHANGED arq
    /\ UNCHANGED <<inputs, extraction, headline, scope, stored, force, edits, history>>

ExtractionId == IF extraction = None THEN None ELSE extraction.id

(* Fault: the fingerprint leaves the rule set out. *)
FingerprintWithoutRules(v, c) ==
    [version |-> v, rules |-> 0, extraction |-> ExtractionId, content |-> c]

(* inputs_fingerprint, for the profile version and the content a run       *)
(* loaded.                                                                 *)
Fingerprint(v, c) ==
    [version |-> v, rules |-> rules, extraction |-> ExtractionId, content |-> c]

(* What the transaction has written to the profile vectors is published. *)
Publish(r) == facets' = IF my[r].write = None THEN facets ELSE my[r].write

(* Fault: `force' is not looked at. *)
SkipsAlways(r, print) == match # None /\ match.print = print

(* The guard of match_tender_for_org: nothing that feeds the score changed. *)
Skips(r, print) ==
    /\ match # None
    /\ match.print = print
    /\ ~(r = "rematch" /\ force)

(* match_tender_for_org up to the guard.  A re-match loads the notice and  *)
(* the profile here, afresh.                                               *)
LoadMatch(r) ==
    /\ pc[r] = "load"
    /\ LET v == IF r = "rematch" THEN version ELSE my[r].version
           c == IF r = "rematch" THEN content ELSE my[r].content
           print == Fingerprint(v, c)
       IN  \/ /\ Skips(r, print)
              /\ Publish(r)
              /\ Finish(r)
           \/ /\ ~Skips(r, print)
              /\ my' = [my EXCEPT ![r].print = print, ![r].existing = match,
                                   ![r].text = IF r = "rematch" THEN text ELSE @]
              /\ pc' = [pc EXCEPT ![r] = "score"]
              /\ UNCHANGED <<facets, arq>>
    /\ UNCHANGED <<inputs, extraction, headline, scope, stored, force, edits, history>>

(* An UPDATE carries the columns whose value differs from the one loaded. *)
Column(new, loaded, current) == IF new # loaded THEN new ELSE current

UpdatedMatch(new, loaded) ==
    [print   |-> Column(new.print, loaded.print, match.print),
     score   |-> Column(new.score, loaded.score, match.score),
     verdict |-> Column(new.verdict, loaded.verdict, match.verdict)]

Vectors(r) == IF my[r].write = None THEN facets ELSE my[r].write

(* Fault: only a notice without vectors is not scorable. *)
ScorableWithoutFacets(r) == headline # None

(* Scoring against nothing would store a confident-looking weak fit. *)
Scorable(r) == Vectors(r) # 0 /\ headline # None

(* Fault: only a first match is put in the history. *)
MovedAtFirst(new, loaded) == loaded = None

(* The history records movement, not recomputation. *)
Moved(new, loaded) ==
    loaded = None \/ <<loaded.score, loaded.verdict>> # <<new.score, new.verdict>>

(* ... and from the guard to the commit.  The rules are applied to the     *)
(* profile as it was loaded and to its lists as they read now.             *)
ScoreMatch(r) ==
    /\ pc[r] = "score"
    /\ LET new == [print |-> my[r].print,
                   score |-> [facets |-> Vectors(r), headline |-> headline, scope |-> scope],
                   verdict |-> [profile |-> <<my[r].text, text>>, rules |-> my[r].print.rules,
                                extraction |-> my[r].print.extraction]]
           old == my[r].existing
       IN  \/ /\ ~Scorable(r)
              /\ Publish(r)
              /\ UNCHANGED stored
           \/ /\ Scorable(r)
              /\ old = None /\ match # None     \* the other run's row: unique index
              /\ UNCHANGED <<facets, stored>>
           \/ /\ Scorable(r)
              /\ old # None \/ match = None
              /\ Publish(r)
              /\ match' = IF old = None THEN new ELSE UpdatedMatch(new, old)
              /\ recorded' = IF Moved(new, old)
                             THEN recorded \cup {<<new.score, new.verdict>>} ELSE recorded
    /\ Finish(r)
    /\ UNCHANGED <<inputs, extraction, headline, scope, force, edits, history>>

RunStep(r) ==
    \/ Start(r)
    \/ Extract(r)
    \/ \E ok, embedded \in BOOLEAN : StoreExtraction(r, ok, embedded)
    \/ StoreCollides(r)
    \/ LoadProfile(r) \/ SyncProfile(r)
    \/ LoadMatch(r) \/ ScoreMatch(r)
    \/ EmbeddingFails(r) \/ WorkerDies(r)

Next ==
    \/ \E e \in Editors : EditRead(e) \/ EditFlush(e) \/ EditCommit(e)
    \/ SaveRules \/ Amend
    \/ \E r \in Runs :
        \/ \E forced \in BOOLEAN : Request(r, forced)
        \/ ExpireResult(r)
        \/ RunStep(r)

Spec == Init /\ [][Next]_vars

-----------------------------------------------------------------------------
(* However runs overlap, the score and the verdict a customer reads have   *)
(* each been recorded in the history, and compared something with          *)
(* something: no order of first edits, first notices and failing AI calls  *)
(* stores a verdict for a comparison that never happened                   *)
(* (matching/service.py:148).                                              *)
EveryMoveRecorded ==
    match # None =>
        /\ match.score.facets # 0 /\ match.score.headline # None
        /\ \E pair \in recorded : pair[1] = match.score
        /\ \E pair \in recorded : pair[2] = match.verdict

Finishes(r) == pc[r] # "idle" /\ arq'[r] = "kept"

(* A run that nothing disturbs (no edit, amendment, failure, or other run) *)
(* leaves a match with the fingerprint of the inputs as they are, unless   *)
(* the profile is blank.  A pipeline leaves an extraction of the text as   *)
(* it is, with its answer ("extract attributes and store them",            *)
(* jobs/tasks/matching.py:62); the exception: one that failed on the same  *)
(* text before stays, and the answer is discarded.  A forced re-match      *)
(* leaves the score of the inputs, too, whatever was stored before: "this  *)
(* is the lever that repairs those; nothing else will" (:220).             *)
CalmRunsSettle ==
    [][\A r \in calm \cap calm' : Finishes(r) /\ text # 0 /\ (r = "rematch" => headline # None) =>
          /\ match' # None
          /\ match'.print = [version |-> version, rules |-> rules,
                             extraction |-> ExtractionId, content |-> content]
          /\ r # "rematch" =>
                extraction.of = content /\ (extraction.ok \/ failures > 0)
          /\ r = "rematch" /\ force =>
                match'.score = [facets |-> text, headline |-> headline, scope |-> scope]]_vars
=============================================================================
