------------------------- MODULE MatchPipelineProofs -------------------------
(***************************************************************************)
(* Theorems about module MatchPipeline, for any number of pipelines, of    *)
(* concurrent edits and of everything else it bounds.  The invariant adds  *)
(* to the properties what a run has read by the time it comes to a step,   *)
(* how far an edit in progress may lie behind, how many extractions the    *)
(* accepted jobs can still store, and what an undisturbed run knows.       *)
(***************************************************************************)
EXTENDS MatchPipeline, FiniteSetTheorems, TLAPS

(* The type invariant, part by part.                                       *)
InputsOK ==
    /\ text \in Texts /\ version \in 1..(MaxEdits + 1)
    /\ rules \in 0..MaxRuleSaves /\ content \in 0..MaxAmends

DerivedOK ==
    /\ extraction \in Opt([id : Extractions, of : 0..MaxAmends, ok : BOOLEAN])
    /\ facets \in Texts /\ headline \in Opt(0..MaxAmends)
    /\ scope \in Opt(Extractions)

StoredOK ==
    /\ match \in Opt(Matches)
    /\ recorded \subseteq Scores \X Verdicts

EditsOK ==
    /\ editing \in [Editors -> Opt(1..(MaxEdits + 1))]
    /\ saving \in Opt(Editors)

RunsOK ==
    /\ arq \in [Runs -> {"none", "queued", "running", "kept"}]
    /\ force \in BOOLEAN
    /\ pc \in [Runs -> {"idle", "extract", "store", "embed", "sync", "load", "score"}]
    /\ \A r \in Runs : pc[r] = "idle" <=> arq[r] # "running"

CountsOK ==
    /\ failures \in 0..MaxFailures /\ accepted \in 0..MaxJobs
    /\ calm \in SUBSET Runs

(* What a run knows, and what it has read by the time it comes to a step.  *)
Records ==
    [content : Opt(0..MaxAmends), version : Opt(1..(MaxEdits + 1)), text : Opt(Texts),
     write : Opt(Texts), print : Opt(Prints), existing : Opt(Matches)]

HasLoaded(r) == my[r].content # None /\ my[r].version # None /\ my[r].text # None

HasRead(r) ==
    /\ pc[r] \in {"extract", "store"} => r \in Pipelines
    /\ pc[r] = "store" => my[r].content # None
    /\ pc[r] = "sync" \/ (r \in Pipelines /\ pc[r] \in {"load", "score"}) => HasLoaded(r)
    /\ pc[r] = "score" => my[r].print # None /\ my[r].text # None
    /\ my[r].existing # None => match # None
    /\ r \notin Pipelines => my[r].write = None

RunsHaveRead ==
    /\ my \in [Runs -> Records]
    /\ \A r \in Runs : HasRead(r)

(* No version is ahead of the text, and an edit that has flushed may       *)
(* commit.                                                                 *)
Behind(v) == IF text = 0 THEN v = 1 ELSE v <= text

EditsInTurn ==
    /\ saving # None => editing[saving] # None /\ NextText \in Texts
    /\ \A e \in Editors : editing[e] # None => Behind(editing[e])
    /\ Behind(version)

(* The pipelines that have still to store an extraction, and the number of *)
(* those stored, are no more than the jobs accepted and the workers dead.  *)
Pending == {r \in Pipelines : arq[r] = "queued" \/ pc[r] \in {"extract", "store"}}

Allowed == accepted + failures

Stored == IF extraction = None THEN 0 ELSE extraction.id

ExtractionsCounted ==
    /\ IsFiniteSet(Pending)
    /\ Stored + Cardinality(Pending) <= Allowed

(* What an undisturbed run has read is how things are.                     *)
IsUpToDate(r) ==
    /\ pc[r] = "store" => my[r].content = content
    /\ pc[r] = "sync" => my[r].text = text
    /\ r \in Pipelines /\ pc[r] \in {"sync", "load", "score"} =>
          my[r].content = content /\ my[r].version = version /\ my[r].text = text
    /\ r \in Pipelines /\ pc[r] \in {"embed", "sync", "load", "score"} =>
          /\ extraction.of = content /\ headline # None
          /\ extraction.ok \/ failures > 0
    /\ pc[r] \in {"load", "score"} => Vectors(r) = text
    /\ pc[r] = "score" =>
          /\ my[r].print = Fingerprint(version, content) /\ my[r].existing = match
          /\ my[r].text = text

CalmRuns == \A r \in calm : Active \subseteq {r} /\ IsUpToDate(r)

FailuresCounted == extraction # None => extraction.ok \/ failures > 0

Sound == InputsOK /\ DerivedOK /\ StoredOK /\ EditsOK /\ RunsOK /\ CountsOK
         /\ RunsHaveRead /\ EditsInTurn /\ ExtractionsCounted

IInv == Sound /\ EveryMoveRecorded /\ CalmRuns /\ FailuresCounted

-----------------------------------------------------------------------------
LEMMA BoundsAreNat ==
    /\ MaxEdits \in Nat /\ MaxRuleSaves \in Nat /\ MaxAmends \in Nat
    /\ MaxFailures \in Nat /\ MaxJobs \in Nat
BY PipelineAssumption

LEMMA NoneIsApart == None \notin Nat /\ None \notin Editors /\ None \notin Prints /\ None \notin Matches
BY PipelineAssumption

LEMMA RunsAre == Pipelines \subseteq Runs /\ "rematch" \in Runs /\ "rematch" \notin Pipelines
BY PipelineAssumption DEF Runs

LEMMA TypesFollow ==
    ASSUME InputsOK, DerivedOK, StoredOK, EditsOK, RunsOK, CountsOK, RunsHaveRead
    PROVE  TypeOK
<1>1. \A r \in Runs :
        my[r].write \in Opt(Texts) /\ my[r].print \in Opt(Prints) /\ my[r].existing \in Opt(Matches)
  BY DEF RunsHaveRead, Records
<1>2. QED
  BY <1>1 DEF TypeOK, InputsOK, DerivedOK, StoredOK, EditsOK, RunsOK, CountsOK

LEMMA InitIInv ==
    ASSUME Init PROVE IInv
<1>1. InputsOK /\ DerivedOK /\ StoredOK /\ EditsOK /\ RunsOK /\ CountsOK
  <2>1. InputsOK
    BY BoundsAreNat DEF Init, InputsOK, Texts
  <2>2. DerivedOK /\ StoredOK /\ EditsOK
    BY BoundsAreNat DEF Init, DerivedOK, StoredOK, EditsOK, Texts, Opt
  <2>3. RunsOK
    BY DEF Init, RunsOK
  <2>4. CountsOK
    BY BoundsAreNat DEF Init, CountsOK
  <2>5. QED
    BY <2>1, <2>2, <2>3, <2>4
<1>2. RunsHaveRead
  <2>1. Nothing \in Records
    BY DEF Nothing, Records, Opt
  <2>2. my \in [Runs -> Records]
    BY <2>1 DEF Init
  <2>3. \A r \in Runs : my[r].existing = None /\ my[r].write = None /\ pc[r] = "idle"
    BY DEF Init, Nothing
  <2>4. QED
    BY <2>2, <2>3 DEF RunsHaveRead, HasRead
<1>3. EditsInTurn
  <2>1. Behind(version)
    BY DEF Init, Behind
  <2>2. saving = None /\ \A e \in Editors : editing[e] = None
    BY DEF Init
  <2>3. QED
    BY <2>1, <2>2 DEF EditsInTurn
<1>4. ExtractionsCounted
  <2>1. Pending = {}
    BY RunsAre DEF Init, Pending
  <2>2. QED
    BY <2>1, FS_EmptySet DEF Init, ExtractionsCounted, Stored, Allowed
<1>5. EveryMoveRecorded /\ CalmRuns /\ FailuresCounted
  BY DEF Init, EveryMoveRecorded, CalmRuns, FailuresCounted
<1>6. QED
  BY <1>1, <1>2, <1>3, <1>4, <1>5 DEF IInv, Sound

-----------------------------------------------------------------------------
(* Counting what is still to be stored.                                    *)

LEMMA CountStays ==
    ASSUME ExtractionsCounted, Pending' = Pending, extraction' = extraction,
           Allowed \in Nat, Allowed' \in Nat, Stored \in Nat,
           Allowed' >= Allowed
    PROVE  ExtractionsCounted'
<1>1. IsFiniteSet(Pending) /\ Cardinality(Pending) \in Nat
      /\ Stored + Cardinality(Pending) <= Allowed
  BY FS_CardinalityType DEF ExtractionsCounted
<1>2. Stored' = Stored
  BY DEF Stored
<1>3. Stored' + Cardinality(Pending') <= Allowed'
  BY <1>1, <1>2
<1>4. QED
  BY <1>1, <1>3 DEF ExtractionsCounted

LEMMA OneMore ==
    ASSUME ExtractionsCounted, NEW r, Pending' = Pending \cup {r}, extraction' = extraction,
           Allowed \in Nat, Allowed' \in Nat, Stored \in Nat,
           Allowed' = Allowed + 1
    PROVE  ExtractionsCounted'
<1>1. IsFiniteSet(Pending) /\ Cardinality(Pending) \in Nat
      /\ Stored + Cardinality(Pending) <= Allowed
  BY FS_CardinalityType DEF ExtractionsCounted
<1>2. /\ IsFiniteSet(Pending')
      /\ \/ Cardinality(Pending') = Cardinality(Pending)
         \/ Cardinality(Pending') = Cardinality(Pending) + 1
  BY <1>1, FS_AddElement
<1>3. Stored' = Stored
  BY DEF Stored
<1>4. Stored' + Cardinality(Pending') <= Allowed'
  BY <1>1, <1>2, <1>3
<1>5. QED
  BY <1>2, <1>4 DEF ExtractionsCounted

LEMMA OneLess ==
    ASSUME ExtractionsCounted, NEW r \in Pending, Pending' = Pending \ {r},
           Allowed \in Nat, Allowed' \in Nat, Stored \in Nat, Stored' \in Nat,
           Stored' <= Stored + 1,
           Allowed' >= Allowed
    PROVE  ExtractionsCounted'
<1>1. IsFiniteSet(Pending) /\ Cardinality(Pending) \in Nat
      /\ Stored + Cardinality(Pending) <= Allowed
  BY FS_CardinalityType DEF ExtractionsCounted
<1>2. IsFiniteSet(Pending') /\ Cardinality(Pending') = Cardinality(Pending) - 1
  BY <1>1, FS_RemoveElement
<1>3. Stored' + Cardinality(Pending') <= Allowed'
  BY <1>1, <1>2
<1>4. QED
  BY <1>2, <1>3 DEF ExtractionsCounted

LEMMA CountsAreNat ==
    ASSUME CountsOK, DerivedOK
    PROVE  Allowed \in Nat /\ Stored \in Nat
<1>1. extraction # None => extraction.id \in Extractions
  BY DEF DerivedOK, Opt
<1>2. QED
  BY <1>1, BoundsAreNat DEF CountsOK, Allowed, Stored, Extractions

-----------------------------------------------------------------------------
(* Requests, the portal and the queue leave the runs as they are.          *)

LEMMA RunsStay ==
    ASSUME RunsHaveRead, UNCHANGED <<pc, my, match>>
    PROVE  RunsHaveRead'
BY DEF RunsHaveRead, HasRead, HasLoaded

LEMMA EnqueueKeeps ==
    ASSUME Sound, NEW r \in Runs, Enqueue(r), UNCHANGED <<pc, failures, extraction>>,
           force' \in BOOLEAN, calm' \in SUBSET Runs
    PROVE  RunsOK' /\ CountsOK' /\ ExtractionsCounted'
<1>1. CASE arq[r] = "none" /\ accepted < MaxJobs
  <2>1. RunsOK' /\ CountsOK'
    BY <1>1, BoundsAreNat DEF Sound, RunsOK, CountsOK, Enqueue
  <2>2. accepted' = accepted + 1 /\ failures' = failures /\ {accepted, failures} \subseteq Nat
    BY <1>1 DEF Enqueue, Sound, CountsOK
  <2>3. /\ Allowed \in Nat /\ Allowed' \in Nat /\ Stored \in Nat
        /\ Allowed' = Allowed + 1
    BY <2>2, CountsAreNat DEF Sound, Allowed
  <2>4. arq' = [arq EXCEPT ![r] = "queued"] /\ arq \in [Runs -> {"none", "queued", "running", "kept"}]
    BY <1>1 DEF Enqueue, Sound, RunsOK
  <2>5. CASE r \in Pipelines
    <3>1. Pending' = Pending \cup {r}
      BY <2>4, <2>5, RunsAre DEF Pending
    <3>2. QED
      BY <2>1, <2>2, <2>3, <3>1, OneMore DEF Sound
  <2>6. CASE r \notin Pipelines
    <3>1. Pending' = Pending
      BY <2>4, <2>6, RunsAre DEF Pending
    <3>2. QED
      BY <2>1, <2>2, <2>3, <3>1, CountStays DEF Sound
  <2>7. QED
    BY <2>5, <2>6
<1>2. CASE ~(arq[r] = "none" /\ accepted < MaxJobs)
  BY <1>2 DEF Sound, RunsOK, CountsOK, Enqueue, ExtractionsCounted, Pending, Stored, Allowed
<1>3. QED
  BY <1>1, <1>2

LEMMA EditReadKeeps ==
    ASSUME Sound, NEW e \in Editors, EditRead(e)
    PROVE  Sound'
<1>1. EditsOK' /\ EditsInTurn'
  <2>1. /\ editing \in [Editors -> Opt(1..(MaxEdits + 1))] /\ saving \in Opt(Editors)
        /\ version \in 1..(MaxEdits + 1) /\ editing' = [editing EXCEPT ![e] = version]
        /\ saving' = saving /\ UNCHANGED <<text, version>> /\ editing[e] = None
    BY DEF Sound, EditsOK, InputsOK, EditRead, inputs
  <2>2. EditsOK'
    BY <2>1 DEF EditsOK, Opt
  <2>3. version # None
    BY <2>1, NoneIsApart, BoundsAreNat
  <2>4. NextText' = NextText /\ \A v : Behind(v)' = Behind(v)
    BY <2>1 DEF NextText, Behind
  <2>5. \A d \in Editors : editing'[d] = IF d = e THEN version ELSE editing[d]
    BY <2>1
  <2>6. EditsInTurn'
    BY <2>1, <2>3, <2>4, <2>5 DEF Sound, EditsInTurn, Opt
  <2>7. QED
    BY <2>2, <2>6
<1>2. InputsOK' /\ DerivedOK' /\ StoredOK' /\ RunsOK' /\ CountsOK'
  BY DEF EditRead, Sound, inputs, derived, stored, queue, history,
         InputsOK, DerivedOK, StoredOK, RunsOK, CountsOK
<1>3. RunsHaveRead' /\ ExtractionsCounted'
  BY RunsStay DEF EditRead, Sound, derived, stored, queue, history, ExtractionsCounted, Pending, Stored, Allowed
<1>4. QED
  BY <1>1, <1>2, <1>3 DEF Sound

LEMMA EditFlushKeeps ==
    ASSUME Sound, NEW e \in Editors, EditFlush(e)
    PROVE  Sound'
<1>1. EditsOK' /\ EditsInTurn'
  BY DEF EditFlush, Sound, EditsOK, EditsInTurn, Behind, inputs, NextText, Opt
<1>2. InputsOK' /\ DerivedOK' /\ StoredOK'
  BY DEF EditFlush, Sound, inputs, derived, stored, InputsOK, DerivedOK, StoredOK
<1>3. RunsHaveRead'
  BY RunsStay DEF EditFlush, Sound, stored
<1>4. RunsOK' /\ CountsOK' /\ ExtractionsCounted'
  <2>1. force' \in BOOLEAN /\ Enqueue("rematch") /\ UNCHANGED <<pc, failures, extraction>>
        /\ calm' \in SUBSET Runs
    BY DEF EditFlush, Sound, RunsOK, CountsOK, derived
  <2>2. QED
    BY <2>1, EnqueueKeeps, RunsAre
<1>5. QED
  BY <1>1, <1>2, <1>3, <1>4 DEF Sound

(* Every commit brings a text of its own, so that the version, which may   *)
(* fall when edits overlap, stays behind it.                               *)
LEMMA EditCommitKeeps ==
    ASSUME Sound, NEW e \in Editors, EditCommit(e)
    PROVE  Sound'
<1>1. /\ saving = e /\ text' = NextText /\ version' = editing[e] + 1 /\ saving' = None
      /\ editing' = [editing EXCEPT ![e] = None]
      /\ UNCHANGED <<rules, content, derived, stored, queue, pc, my, failures, accepted>>
      /\ calm' = {}
  BY DEF EditCommit
<1>2. /\ editing \in [Editors -> Opt(1..(MaxEdits + 1))]
      /\ version \in 1..(MaxEdits + 1) /\ text \in 0..(MaxEdits + 1)
  BY DEF Sound, EditsOK, InputsOK, Texts
<1>3. editing[e] # None /\ NextText \in 0..(MaxEdits + 1) /\ Behind(editing[e])
  BY <1>1, NoneIsApart DEF Sound, EditsInTurn, Texts
<1>4. editing[e] \in 1..(MaxEdits + 1)
  BY <1>2, <1>3 DEF Opt
<1>5. text' # 0 /\ text' >= text + 1 /\ text' >= 2 /\ text' \in Texts
  BY <1>1, <1>2, <1>3, BoundsAreNat DEF NextText, Texts
<1>6. version' \in 1..(MaxEdits + 1) /\ Behind(version)'
  BY <1>1, <1>2, <1>3, <1>4, <1>5, BoundsAreNat DEF Behind, Texts
<1>7. \A d \in Editors : editing'[d] # None => Behind(editing[d])'
  <2>1. SUFFICES ASSUME NEW d \in Editors, editing'[d] # None
                 PROVE  editing'[d] <= text'
    BY <1>5 DEF Behind
  <2>2. editing'[d] = editing[d] /\ editing[d] \in 1..(MaxEdits + 1)
    BY <1>1, <1>2, <2>1 DEF Opt
  <2>3. IF text = 0 THEN editing[d] = 1 ELSE editing[d] <= text
    BY <2>1, <2>2 DEF Sound, EditsInTurn, Behind
  <2>4. editing[d] <= text'
    BY <1>2, <1>5, <2>2, <2>3, BoundsAreNat DEF Texts
  <2>5. QED
    BY <2>2, <2>4
<1>8. InputsOK' /\ EditsOK' /\ EditsInTurn'
  <2>1. InputsOK'
    BY <1>1, <1>5, <1>6 DEF Sound, InputsOK
  <2>2. EditsOK'
    BY <1>1, <1>2 DEF EditsOK, Opt
  <2>3. EditsInTurn'
    BY <1>1, <1>6, <1>7 DEF EditsInTurn
  <2>4. QED
    BY <2>1, <2>2, <2>3
<1>9. DerivedOK' /\ StoredOK' /\ RunsOK' /\ CountsOK'
  BY <1>1 DEF Sound, derived, stored, queue, DerivedOK, StoredOK, RunsOK, CountsOK
<1>10. RunsHaveRead' /\ ExtractionsCounted'
  BY <1>1, RunsStay DEF Sound, derived, stored, queue, ExtractionsCounted, Pending, Stored, Allowed
<1>11. QED
  BY <1>8, <1>9, <1>10 DEF Sound

LEMMA SaveRulesKeeps ==
    ASSUME Sound, SaveRules
    PROVE  Sound'
<1>1. InputsOK' /\ DerivedOK' /\ StoredOK' /\ EditsOK' /\ EditsInTurn'
  BY BoundsAreNat DEF SaveRules, Sound, derived, stored, edits, InputsOK, DerivedOK, StoredOK,
         EditsOK, EditsInTurn, Behind, NextText
<1>2. RunsHaveRead'
  BY RunsStay DEF SaveRules, Sound, stored
<1>3. RunsOK' /\ CountsOK' /\ ExtractionsCounted'
  <2>1. force' \in BOOLEAN /\ Enqueue("rematch") /\ UNCHANGED <<pc, failures, extraction>>
        /\ calm' \in SUBSET Runs
    BY DEF SaveRules, Sound, RunsOK, derived
  <2>2. QED
    BY <2>1, EnqueueKeeps, RunsAre
<1>4. QED
  BY <1>1, <1>2, <1>3 DEF Sound

LEMMA AmendKeeps ==
    ASSUME Sound, Amend
    PROVE  Sound'
<1>1. InputsOK' /\ DerivedOK' /\ StoredOK' /\ EditsOK' /\ EditsInTurn'
  BY BoundsAreNat DEF Amend, Sound, derived, stored, edits, InputsOK, DerivedOK, StoredOK,
         EditsOK, EditsInTurn, Behind, NextText
<1>2. RunsHaveRead' /\ ExtractionsCounted'
  BY RunsStay DEF Amend, Sound, derived, stored, queue, ExtractionsCounted, Pending, Stored, Allowed
<1>3. RunsOK' /\ CountsOK'
  BY DEF Amend, Sound, queue, RunsOK, CountsOK
<1>4. QED
  BY <1>1, <1>2, <1>3 DEF Sound

LEMMA RequestKeeps ==
    ASSUME Sound, NEW r \in Runs, NEW forced \in BOOLEAN, Request(r, forced)
    PROVE  Sound'
<1>1. InputsOK' /\ DerivedOK' /\ StoredOK' /\ EditsOK' /\ EditsInTurn'
  BY DEF Request, Sound, inputs, derived, stored, edits, InputsOK, DerivedOK, StoredOK,
         EditsOK, EditsInTurn, Behind, NextText
<1>2. RunsHaveRead'
  BY RunsStay DEF Request, Sound, stored
<1>3. RunsOK' /\ CountsOK' /\ ExtractionsCounted'
  <2>1. force' \in BOOLEAN /\ Enqueue(r) /\ UNCHANGED <<pc, failures, extraction>>
        /\ calm' \in SUBSET Runs
    BY DEF Request, Sound, RunsOK, CountsOK, derived
  <2>2. QED
    BY <2>1, EnqueueKeeps
<1>4. QED
  BY <1>1, <1>2, <1>3 DEF Sound

LEMMA ExpireResultKeeps ==
    ASSUME Sound, NEW r \in Runs, ExpireResult(r)
    PROVE  Sound'
<1>1. InputsOK' /\ DerivedOK' /\ StoredOK' /\ EditsOK' /\ EditsInTurn' /\ CountsOK'
  BY DEF ExpireResult, Sound, inputs, derived, stored, edits, history, InputsOK, DerivedOK,
         StoredOK, EditsOK, EditsInTurn, Behind, NextText, CountsOK
<1>2. RunsHaveRead'
  BY RunsStay DEF ExpireResult, Sound, stored
<1>3. RunsOK'
  BY DEF ExpireResult, Sound, RunsOK
<1>4. ExtractionsCounted'
  <2>1. Pending' = Pending /\ extraction' = extraction /\ Allowed' = Allowed
    BY RunsAre DEF ExpireResult, Sound, RunsOK, Pending, Allowed, derived, history
  <2>2. QED
    <3>1. Allowed \in Nat /\ Stored \in Nat /\ Allowed' >= Allowed
      BY <2>1, CountsAreNat DEF Sound
    <3>2. QED
      BY <2>1, <3>1, CountStays DEF Sound
<1>5. QED
  BY <1>1, <1>2, <1>3, <1>4 DEF Sound

-----------------------------------------------------------------------------
(* The steps of a run.                                                     *)

LEMMA NothingIsRead ==
    /\ Nothing \in Records
    /\ Nothing.existing = None /\ Nothing.write = None
BY DEF Nothing, Records, Opt

(* A step of a run leaves what the others have read.                       *)
LEMMA OneRunReads ==
    ASSUME RunsHaveRead, RunsOK, NEW r \in Runs, NEW record \in Records, NEW p,
           pc' = [pc EXCEPT ![r] = p], my' = [my EXCEPT ![r] = record],
           match # None => match' # None, HasRead(r)'
    PROVE  RunsHaveRead'
<1>1. my \in [Runs -> Records] /\ my' \in [Runs -> Records]
  BY DEF RunsHaveRead
<1>2. ASSUME NEW q \in Runs, q # r
      PROVE  HasRead(q)'
  <2>1. pc'[q] = pc[q] /\ my'[q] = my[q]
    BY <1>1, <1>2 DEF RunsOK
  <2>2. QED
    BY <2>1 DEF RunsHaveRead, HasRead, HasLoaded
<1>3. QED
  BY <1>1, <1>2 DEF RunsHaveRead

(* ... and so does its end.                                                *)
LEMMA FinishKeeps ==
    ASSUME Sound, NEW r \in Runs, pc[r] # "idle", Finish(r), force' = force,
           match # None => match' # None
    PROVE  /\ RunsOK' /\ RunsHaveRead'
           /\ Pending' = Pending \ {r}
           /\ r \in Pending <=> r \in Pipelines /\ pc[r] \in {"extract", "store"}
<1>1. /\ pc' = [pc EXCEPT ![r] = "idle"] /\ my' = [my EXCEPT ![r] = Nothing]
      /\ arq' = [arq EXCEPT ![r] = "kept"]
  BY DEF Finish
<1>2. RunsOK /\ RunsHaveRead
  BY DEF Sound
<1>3. RunsOK'
  BY <1>1, <1>2 DEF RunsOK
<1>4. RunsHaveRead'
  <2>1. pc'[r] = "idle" /\ my'[r] = Nothing
    BY <1>1, <1>2 DEF RunsOK, RunsHaveRead
  <2>2. HasRead(r)'
    BY <2>1, NothingIsRead DEF HasRead
  <2>3. QED
    BY <1>1, <1>2, <2>2, NothingIsRead, OneRunReads
<1>5. Pending' = Pending \ {r}
  <2>1. \A q \in Pipelines : q # r => arq'[q] = arq[q] /\ pc'[q] = pc[q]
    BY <1>1, <1>2, RunsAre DEF RunsOK
  <2>2. r \notin Pending'
    BY <1>1, <1>2 DEF RunsOK, Pending
  <2>3. QED
    BY <2>1, <2>2 DEF Pending
<1>6. arq[r] = "running"
  BY <1>2 DEF RunsOK
<1>7. QED
  BY <1>3, <1>4, <1>5, <1>6 DEF Pending

(* The end of a run that has stored its extraction, or failed to.          *)
LEMMA FinishCounts ==
    ASSUME Sound, NEW r \in Runs, pc[r] # "idle", Finish(r), force' = force,
           match # None => match' # None, extraction' = extraction,
           Allowed' \in Nat, Allowed' >= Allowed
    PROVE  RunsOK' /\ RunsHaveRead' /\ ExtractionsCounted'
<1>1. /\ RunsOK' /\ RunsHaveRead' /\ Pending' = Pending \ {r}
  BY FinishKeeps
<1>2. Allowed \in Nat /\ Stored \in Nat /\ Stored' = Stored
  BY CountsAreNat DEF Sound, Stored
<1>3. CASE r \in Pending
  <2>1. Stored' <= Stored + 1 /\ Stored' \in Nat
    BY <1>2
  <2>2. QED
    BY <1>1, <1>2, <1>3, <2>1, OneLess DEF Sound
<1>4. CASE r \notin Pending
  <2>1. Pending' = Pending
    BY <1>1, <1>4
  <2>2. QED
    BY <1>1, <1>2, <2>1, CountStays DEF Sound
<1>5. QED
  BY <1>3, <1>4

LEMMA EditsStay ==
    ASSUME Sound, UNCHANGED inputs, UNCHANGED edits
    PROVE  InputsOK' /\ EditsOK' /\ EditsInTurn'
BY DEF Sound, InputsOK, EditsOK, EditsInTurn, Behind, NextText, inputs, edits

LEMMA AllowedStays ==
    ASSUME Sound, UNCHANGED <<accepted, failures>>
    PROVE  Allowed \in Nat /\ Stored \in Nat /\ Allowed' \in Nat /\ Allowed' >= Allowed
BY CountsAreNat DEF Sound, Allowed

LEMMA AFailureIsCounted ==
    ASSUME Sound, accepted' = accepted, failures < MaxFailures, failures' = failures + 1,
           calm' \in SUBSET Runs
    PROVE  /\ CountsOK' /\ Allowed \in Nat /\ Stored \in Nat /\ Allowed' \in Nat
           /\ Allowed' = Allowed + 1
<1>1. accepted \in 0..MaxJobs /\ failures \in 0..MaxFailures
  BY DEF Sound, CountsOK
<1>2. CountsOK'
  BY <1>1, BoundsAreNat DEF CountsOK
<1>3. Allowed' = Allowed + 1
  BY <1>1, BoundsAreNat DEF Allowed
<1>4. QED
  BY <1>2, <1>3, CountsAreNat DEF Sound

LEMMA StartKeeps ==
    ASSUME Sound, NEW r \in Runs, Start(r)
    PROVE  Sound'
<1>1. /\ arq[r] = "queued" /\ arq' = [arq EXCEPT ![r] = "running"]
      /\ pc' = [pc EXCEPT ![r] = IF r \in Pipelines THEN "extract" ELSE "embed"]
      /\ calm' \in SUBSET Runs
      /\ UNCHANGED <<inputs, derived, stored, force, edits, my, failures, accepted>>
  BY DEF Start
<1>2. RunsOK /\ RunsHaveRead
  BY DEF Sound
<1>3. RunsOK'
  BY <1>1, <1>2 DEF RunsOK
<1>4. RunsHaveRead'
  <2>1. my[r] \in Records /\ my' = [my EXCEPT ![r] = my[r]]
    BY <1>1, <1>2 DEF RunsHaveRead
  <2>2. HasRead(r)'
    BY <1>1, <1>2 DEF RunsHaveRead, HasRead, RunsOK, stored
  <2>3. QED
    BY <1>1, <1>2, <2>1, <2>2, OneRunReads DEF stored
<1>5. ExtractionsCounted'
  <2>1. Pending' = Pending
    <3>1. \A q \in Pipelines : q # r => arq'[q] = arq[q] /\ pc'[q] = pc[q]
      BY <1>1, <1>2, RunsAre DEF RunsOK
    <3>2. r \in Pipelines => r \in Pending /\ r \in Pending'
      BY <1>1, <1>2 DEF RunsOK, Pending
    <3>3. QED
      BY <3>1, <3>2 DEF Pending
  <2>2. QED
    BY <1>1, <2>1, AllowedStays, CountStays DEF Sound, derived
<1>6. DerivedOK' /\ StoredOK' /\ CountsOK'
  BY <1>1 DEF Sound, derived, stored, DerivedOK, StoredOK, CountsOK
<1>7. QED
  BY <1>1, <1>3, <1>4, <1>5, <1>6, EditsStay DEF Sound

LEMMA EmbeddingFailsKeeps ==
    ASSUME Sound, NEW r \in Runs, EmbeddingFails(r)
    PROVE  Sound'
<1>1. /\ pc[r] # "idle" /\ Finish(r) /\ failures < MaxFailures /\ failures' = failures + 1
      /\ calm' = {} /\ UNCHANGED <<inputs, derived, stored, force, edits, accepted>>
  BY DEF EmbeddingFails
<1>2. CountsOK' /\ Allowed' \in Nat /\ Allowed' >= Allowed
  <2>1. CountsOK' /\ Allowed \in Nat /\ Allowed' \in Nat /\ Allowed' = Allowed + 1
    BY <1>1, AFailureIsCounted
  <2>2. QED
    BY <2>1
<1>3. RunsOK' /\ RunsHaveRead' /\ ExtractionsCounted'
  BY <1>1, <1>2, FinishCounts DEF stored, derived
<1>4. DerivedOK' /\ StoredOK'
  BY <1>1 DEF Sound, derived, stored, DerivedOK, StoredOK
<1>5. QED
  BY <1>1, <1>2, <1>3, <1>4, EditsStay DEF Sound

(* ARQ runs the job of a dead worker again.                                *)
LEMMA WorkerDiesKeeps ==
    ASSUME Sound, NEW r \in Runs, WorkerDies(r)
    PROVE  Sound'
<1>1. /\ pc[r] # "idle" /\ failures < MaxFailures /\ failures' = failures + 1
      /\ pc' = [pc EXCEPT ![r] = "idle"] /\ my' = [my EXCEPT ![r] = Nothing]
      /\ arq' = [arq EXCEPT ![r] = "queued"]
      /\ calm' = {} /\ UNCHANGED <<inputs, derived, stored, force, edits, accepted>>
  BY DEF WorkerDies
<1>2. RunsOK /\ RunsHaveRead
  BY DEF Sound
<1>3. RunsOK'
  BY <1>1, <1>2 DEF RunsOK
<1>4. RunsHaveRead'
  <2>1. pc'[r] = "idle" /\ my'[r] = Nothing
    BY <1>1, <1>2 DEF RunsOK, RunsHaveRead
  <2>2. HasRead(r)'
    BY <2>1, NothingIsRead DEF HasRead
  <2>3. QED
    BY <1>1, <1>2, <2>2, NothingIsRead, OneRunReads DEF stored
<1>5. /\ CountsOK' /\ Allowed \in Nat /\ Stored \in Nat /\ Allowed' \in Nat
      /\ Allowed' = Allowed + 1
  BY <1>1, AFailureIsCounted
<1>6. ExtractionsCounted'
  <2>1. extraction' = extraction
    BY <1>1 DEF derived
  <2>2. \A q \in Pipelines : q # r => arq'[q] = arq[q] /\ pc'[q] = pc[q]
    BY <1>1, <1>2, RunsAre DEF RunsOK
  <2>3. CASE r \in Pipelines
    <3>1. r \in Pending'
      BY <1>1, <1>2, <2>3 DEF RunsOK, Pending
    <3>2. Pending' = Pending \cup {r}
      BY <2>2, <2>3, <3>1 DEF Pending
    <3>3. QED
      BY <1>5, <2>1, <3>2, OneMore DEF Sound
  <2>4. CASE r \notin Pipelines
    <3>1. Pending' = Pending
      BY <2>2, <2>4 DEF Pending
    <3>2. Allowed' >= Allowed
      BY <1>5
    <3>3. QED
      BY <1>5, <2>1, <3>1, <3>2, CountStays DEF Sound
  <2>5. QED
    BY <2>3, <2>4
<1>7. DerivedOK' /\ StoredOK'
  BY <1>1 DEF Sound, derived, stored, DerivedOK, StoredOK
<1>8. QED
  BY <1>1, <1>3, <1>4, <1>5, <1>6, <1>7, EditsStay DEF Sound

(* A step within a run, after or before it stores its extraction.          *)
LEMMA GoesOn ==
    ASSUME Sound, NEW r \in Runs, pc[r] # "idle", NEW record \in Records,
           NEW p \in {"extract", "store", "embed", "sync", "load", "score"},
           pc[r] \in {"extract", "store"} <=> p \in {"extract", "store"},
           pc' = [pc EXCEPT ![r] = p], my' = [my EXCEPT ![r] = record],
           UNCHANGED <<arq, force, inputs, edits, stored, extraction, accepted, failures, calm>>,
           HasRead(r)', DerivedOK'
    PROVE  Sound'
<1>1. RunsOK /\ RunsHaveRead
  BY DEF Sound
<1>2. RunsOK'
  BY <1>1 DEF RunsOK
<1>3. RunsHaveRead'
  BY <1>1, OneRunReads DEF stored
<1>4. ExtractionsCounted'
  <2>1. Pending' = Pending
    <3>1. \A q \in Pipelines : q # r => pc'[q] = pc[q]
      BY <1>1, RunsAre DEF RunsOK
    <3>2. pc'[r] = p
      BY <1>1 DEF RunsOK
    <3>3. QED
      BY <3>1, <3>2 DEF Pending
  <2>2. QED
    BY <2>1, AllowedStays, CountStays DEF Sound
<1>5. StoredOK' /\ CountsOK'
  BY DEF Sound, stored, StoredOK, CountsOK
<1>6. QED
  BY <1>2, <1>3, <1>4, <1>5, EditsStay DEF Sound

LEMMA ExtractKeeps ==
    ASSUME Sound, NEW r \in Runs, Extract(r)
    PROVE  Sound'
<1>1. /\ pc[r] = "extract" /\ pc' = [pc EXCEPT ![r] = "store"]
      /\ my' = [my EXCEPT ![r] = [my[r] EXCEPT !.content = content]]
      /\ UNCHANGED <<inputs, derived, stored, queue, edits, history>>
  BY DEF Extract
<1>2. my \in [Runs -> Records] /\ HasRead(r) /\ RunsOK
  BY DEF Sound, RunsHaveRead
<1>3. content \in 0..MaxAmends /\ content # None
  BY NoneIsApart, BoundsAreNat DEF Sound, InputsOK
<1>4. [my[r] EXCEPT !.content = content] \in Records
  BY <1>2, <1>3 DEF Records, Opt
<1>5. HasRead(r)'
  <2>1. pc'[r] = "store" /\ my'[r] = [my[r] EXCEPT !.content = content]
    BY <1>1, <1>2 DEF RunsOK
  <2>2. my'[r].content # None /\ my'[r].existing = my[r].existing /\ my'[r].write = my[r].write
    BY <1>2, <1>3, <2>1 DEF Records
  <2>3. match' = match
    BY <1>1 DEF stored
  <2>4. QED
    BY <1>1, <1>2, <2>1, <2>2, <2>3 DEF HasRead
<1>6. DerivedOK' /\ UNCHANGED <<arq, force, extraction, accepted, failures, calm>>
  BY <1>1 DEF Sound, derived, queue, history, DerivedOK
<1>7. QED
  BY <1>1, <1>4, <1>5, <1>6, GoesOn

(* A new extraction takes the next number, which the count of jobs allows. *)
LEMMA StoreExtractionKeeps ==
    ASSUME Sound, NEW r \in Runs, NEW ok \in BOOLEAN, NEW embedded \in BOOLEAN,
           StoreExtraction(r, ok, embedded)
    PROVE  Sound'
<1> DEFINE new == NextExtraction(my[r].content, ok)
           newScope == IF new.ok THEN new.id ELSE scope
           failed == (IF ok THEN 0 ELSE 1) + (IF embedded THEN 0 ELSE 1)
<1>1. /\ pc[r] = "store" /\ failures + failed <= MaxFailures /\ failures' = failures + failed
      /\ calm' = (IF failed > 0 THEN {} ELSE calm)
      /\ extraction' = new
      /\ \/ headline' = my[r].content /\ scope' = newScope
         \/ UNCHANGED <<headline, scope>>
      /\ my' = [my EXCEPT ![r] = Nothing] /\ pc' = [pc EXCEPT ![r] = "embed"]
      /\ UNCHANGED <<inputs, facets, stored, queue, edits, accepted>>
  BY DEF StoreExtraction
<1>2. RunsOK /\ RunsHaveRead /\ my[r] \in Records /\ HasRead(r) /\ r \in Pipelines
  BY <1>1 DEF Sound, RunsHaveRead, HasRead
<1>3. my[r].content \in 0..MaxAmends
  BY <1>1, <1>2 DEF HasRead, Records, Opt
<1>4. CountsOK' /\ Allowed \in Nat /\ Stored \in Nat /\ Allowed' \in Nat /\ Allowed' >= Allowed
      /\ Allowed <= MaxJobs + MaxFailures
  <2>1. accepted \in 0..MaxJobs /\ failures \in 0..MaxFailures /\ calm \in SUBSET Runs
    BY DEF Sound, CountsOK
  <2>2. failed \in 0..2
    OBVIOUS
  <2>3. CountsOK'
    BY <1>1, <2>1, <2>2, BoundsAreNat DEF CountsOK
  <2>4. Allowed' = Allowed + failed /\ Allowed \in Nat /\ Allowed <= MaxJobs + MaxFailures
    BY <1>1, <2>1, <2>2, BoundsAreNat DEF Allowed
  <2>5. Allowed' \in Nat /\ Allowed' >= Allowed
    BY <2>2, <2>4
  <2>6. Stored \in Nat
    BY CountsAreNat DEF Sound
  <2>7. QED
    BY <2>3, <2>4, <2>5, <2>6
<1>5. r \in Pending /\ Pending' = Pending \ {r}
  <2>1. \A q \in Pipelines : q # r => pc'[q] = pc[q] /\ arq'[q] = arq[q]
    BY <1>1, <1>2, RunsAre DEF RunsOK, queue
  <2>2. arq[r] = "running" /\ arq'[r] = "running" /\ pc'[r] = "embed"
    BY <1>1, <1>2 DEF RunsOK, queue
  <2>3. r \in Pending /\ r \notin Pending'
    BY <1>1, <1>2, <2>2 DEF Pending
  <2>4. QED
    BY <2>1, <2>3 DEF Pending
<1>6. Stored + 1 <= MaxJobs + MaxFailures
  <2>1. /\ IsFiniteSet(Pending) /\ Stored + Cardinality(Pending) <= Allowed
    BY DEF Sound, ExtractionsCounted
  <2>2. Cardinality(Pending) \in Nat /\ Cardinality(Pending \ {r}) \in Nat
        /\ Cardinality(Pending \ {r}) = Cardinality(Pending) - 1
    BY <1>5, <2>1, FS_CardinalityType, FS_RemoveElement
  <2>3. Cardinality(Pending) >= 1
    BY <2>2
  <2>4. QED
    BY <1>4, <2>1, <2>2, <2>3, BoundsAreNat
<1>7. /\ new \in [id : Extractions, of : 0..MaxAmends, ok : BOOLEAN]
      /\ new.id <= Stored + 1
  <2>1. extraction # None => extraction \in [id : Extractions, of : 0..MaxAmends, ok : BOOLEAN]
    BY DEF Sound, DerivedOK, Opt
  <2>2. CASE extraction # None /\ extraction.of = my[r].content /\ ok
    BY <1>4, <2>1, <2>2, BoundsAreNat DEF NextExtraction, Stored, Extractions
  <2>3. CASE ~(extraction # None /\ extraction.of = my[r].content /\ ok)
    <3>1. new = [id |-> Stored + 1, of |-> my[r].content, ok |-> ok]
      BY <2>3 DEF NextExtraction, Stored
    <3>2. Stored + 1 \in Extractions
      BY <1>4, <1>6, BoundsAreNat DEF Extractions
    <3>3. QED
      BY <1>3, <1>4, <3>1, <3>2
  <2>4. QED
    BY <2>2, <2>3
<1>8. DerivedOK'
  <2>1. newScope \in Opt(Extractions)
    BY <1>7 DEF Sound, DerivedOK, Opt
  <2>2. my[r].content \in Opt(0..MaxAmends) /\ new \in Opt([id : Extractions, of : 0..MaxAmends, ok : BOOLEAN])
    BY <1>3, <1>7 DEF Opt
  <2>3. QED
    BY <1>1, <2>1, <2>2 DEF Sound, DerivedOK
<1>9. ExtractionsCounted'
  <2>1. Stored' \in Nat /\ Stored' <= Stored + 1
    <3>1. new.id \in Nat
      BY <1>7, BoundsAreNat DEF Extractions
    <3>2. Stored' = 0 \/ Stored' = new.id
      BY <1>1 DEF Stored
    <3>3. QED
      BY <1>4, <1>7, <3>1, <3>2
  <2>2. QED
    BY <1>4, <1>5, <2>1, OneLess DEF Sound
<1>10. RunsOK'
  BY <1>1, <1>2 DEF RunsOK, queue
<1>11. RunsHaveRead'
  <2>1. pc'[r] = "embed" /\ my'[r] = Nothing
    BY <1>1, <1>2 DEF RunsOK, RunsHaveRead
  <2>2. HasRead(r)'
    BY <2>1, NothingIsRead DEF HasRead
  <2>3. QED
    BY <1>1, <1>2, <2>2, NothingIsRead, OneRunReads DEF stored
<1>12. StoredOK'
  BY <1>1 DEF Sound, stored, StoredOK
<1>13. QED
  BY <1>1, <1>4, <1>8, <1>9, <1>10, <1>11, <1>12, EditsStay DEF Sound

LEMMA StoreCollidesKeeps ==
    ASSUME Sound, NEW r \in Runs, StoreCollides(r)
    PROVE  Sound'
<1>1. /\ pc[r] # "idle" /\ Finish(r)
      /\ UNCHANGED <<inputs, derived, stored, force, edits, accepted, failures, calm>>
  BY DEF StoreCollides, history
<1>2. Allowed' \in Nat /\ Allowed' >= Allowed
  BY <1>1, AllowedStays
<1>3. RunsOK' /\ RunsHaveRead' /\ ExtractionsCounted'
  BY <1>1, <1>2, FinishCounts DEF stored, derived
<1>4. DerivedOK' /\ StoredOK' /\ CountsOK'
  BY <1>1 DEF Sound, derived, stored, DerivedOK, StoredOK, CountsOK
<1>5. QED
  BY <1>1, <1>3, <1>4, EditsStay DEF Sound

LEMMA LoadProfileKeeps ==
    ASSUME Sound, NEW r \in Runs, LoadProfile(r)
    PROVE  Sound'
<1> DEFINE record == [my[r] EXCEPT !.content = content, !.version = version, !.text = text]
<1>1. /\ pc[r] = "embed" /\ pc' = [pc EXCEPT ![r] = "sync"]
      /\ my' = [my EXCEPT ![r] = record]
      /\ UNCHANGED <<inputs, derived, stored, queue, edits, history>>
  BY DEF LoadProfile
<1>2. my \in [Runs -> Records] /\ HasRead(r) /\ RunsOK
  BY DEF Sound, RunsHaveRead
<1>3. /\ content \in 0..MaxAmends /\ version \in 1..(MaxEdits + 1) /\ text \in Texts
      /\ content # None /\ version # None /\ text # None
  BY NoneIsApart, BoundsAreNat DEF Sound, InputsOK, Texts
<1>4. record \in Records
  BY <1>2, <1>3 DEF Records, Opt
<1>5. HasRead(r)'
  <2>1. pc'[r] = "sync" /\ my'[r] = record
    BY <1>1, <1>2 DEF RunsOK
  <2>2. /\ record.content # None /\ record.version # None /\ record.text # None
        /\ record.existing = my[r].existing /\ record.write = my[r].write
    BY <1>2, <1>3 DEF Records
  <2>3. match' = match
    BY <1>1 DEF stored
  <2>4. QED
    BY <1>2, <2>1, <2>2, <2>3 DEF HasRead, HasLoaded
<1>6. DerivedOK' /\ UNCHANGED <<arq, force, extraction, accepted, failures, calm>>
  BY <1>1 DEF Sound, derived, queue, history, DerivedOK
<1>7. QED
  BY <1>1, <1>4, <1>5, <1>6, GoesOn

LEMMA TextIsLoaded ==
    ASSUME Sound, NEW r \in Runs, my[r].text # None
    PROVE  my[r].text \in Texts
BY DEF Sound, RunsHaveRead, Records, Opt

LEMMA SyncProfileKeeps ==
    ASSUME Sound, NEW r \in Runs, SyncProfile(r)
    PROVE  Sound'
<1>1. /\ pc[r] = "sync"
      /\ UNCHANGED <<inputs, extraction, headline, scope, stored, force, edits,
                     accepted, failures, calm>>
  BY DEF SyncProfile, history
<1>2. my \in [Runs -> Records] /\ HasRead(r) /\ RunsOK /\ my[r].text \in Texts
  BY <1>1, TextIsLoaded DEF Sound, RunsHaveRead, HasRead, HasLoaded
<1>3. CASE r \in Pipelines /\ facets' = facets /\ arq' = arq
           /\ my' = [my EXCEPT ![r].write = IF facets = my[r].text THEN None ELSE my[r].text]
           /\ pc' = [pc EXCEPT ![r] = "load"]
  <2> DEFINE record == [my[r] EXCEPT !.write = IF facets = my[r].text THEN None ELSE my[r].text]
  <2>1. record \in Records
    BY <1>2 DEF Records, Opt
  <2>2. HasRead(r)'
    <3>1. pc'[r] = "load" /\ my'[r] = record
      BY <1>2, <1>3 DEF RunsOK
    <3>2. /\ record.content = my[r].content /\ record.version = my[r].version
          /\ record.text = my[r].text /\ record.existing = my[r].existing
      BY <1>2 DEF Records
    <3>3. match' = match
      BY <1>1 DEF stored
    <3>4. QED
      BY <1>1, <1>2, <1>3, <3>1, <3>2, <3>3 DEF HasRead, HasLoaded
  <2>3. DerivedOK'
    BY <1>1, <1>3 DEF Sound, DerivedOK
  <2>4. QED
    BY <1>1, <1>3, <2>1, <2>2, <2>3, GoesOn
<1>4. CASE r = "rematch" /\ facets' = my[r].text /\ Finish(r)
  <2>1. Allowed' \in Nat /\ Allowed' >= Allowed
    BY <1>1, AllowedStays
  <2>2. RunsOK' /\ RunsHaveRead' /\ ExtractionsCounted'
    BY <1>1, <1>4, <2>1, FinishCounts DEF stored
  <2>3. DerivedOK' /\ StoredOK' /\ CountsOK'
    BY <1>1, <1>2, <1>4 DEF Sound, stored, DerivedOK, StoredOK, CountsOK
  <2>4. QED
    BY <1>1, <2>2, <2>3, EditsStay DEF Sound
<1>5. CASE /\ r = "rematch" /\ facets' = my[r].text /\ my' = [my EXCEPT ![r] = Nothing]
           /\ pc' = [pc EXCEPT ![r] = "load"] /\ arq' = arq
  <2>1. HasRead(r)'
    <3>1. pc'[r] = "load" /\ my'[r] = Nothing
      BY <1>2, <1>5 DEF RunsOK
    <3>2. QED
      BY <1>5, <3>1, NothingIsRead, RunsAre DEF HasRead
  <2>2. DerivedOK'
    BY <1>1, <1>2, <1>5 DEF Sound, DerivedOK
  <2>3. QED
    BY <1>1, <1>5, <2>1, <2>2, NothingIsRead, GoesOn
<1>6. QED
  BY <1>3, <1>4, <1>5 DEF SyncProfile

LEMMA PublishKeeps ==
    ASSUME Sound, NEW r \in Runs, Publish(r), UNCHANGED <<extraction, headline, scope>>
    PROVE  DerivedOK' /\ facets' = Vectors(r) /\ Vectors(r) \in Texts
<1>1. my[r] \in Records
  BY DEF Sound, RunsHaveRead
<1>2. my[r].write # None => my[r].write \in Texts
  BY <1>1 DEF Records, Opt
<1>3. QED
  BY <1>2 DEF Publish, Vectors, Sound, DerivedOK

LEMMA FingerprintIsPrint ==
    ASSUME Sound, NEW v \in 1..(MaxEdits + 1), NEW c \in 0..MaxAmends
    PROVE  Fingerprint(v, c) \in Prints /\ Fingerprint(v, c) # None
<1>1. ExtractionId \in Opt(Extractions)
  BY DEF Sound, DerivedOK, ExtractionId, Opt
<1>2. Fingerprint(v, c) \in Prints
  BY <1>1 DEF Fingerprint, Prints, Sound, InputsOK
<1>3. QED
  BY <1>2, NoneIsApart

(* The version and the content a run takes the fingerprint of.             *)
LEMMA PrintOfRun ==
    ASSUME Sound, NEW r \in Runs, pc[r] = "load"
    PROVE  LET v == IF r = "rematch" THEN version ELSE my[r].version
               c == IF r = "rematch" THEN content ELSE my[r].content
           IN  Fingerprint(v, c) \in Prints /\ Fingerprint(v, c) # None
<1>1. my[r] \in Records /\ HasRead(r)
  BY DEF Sound, RunsHaveRead
<1>2. CASE r = "rematch"
  BY <1>2, FingerprintIsPrint DEF Sound, InputsOK
<1>3. CASE r # "rematch"
  <2>1. r \in Pipelines
    BY <1>3 DEF Runs
  <2>2. my[r].version \in 1..(MaxEdits + 1) /\ my[r].content \in 0..MaxAmends
    BY <1>1, <2>1 DEF HasRead, HasLoaded, Records, Opt
  <2>3. QED
    BY <1>3, <2>2, FingerprintIsPrint
<1>4. QED
  BY <1>2, <1>3

LEMMA LoadMatchKeeps ==
    ASSUME Sound, NEW r \in Runs, LoadMatch(r)
    PROVE  Sound'
<1> DEFINE v == IF r = "rematch" THEN version ELSE my[r].version
           c == IF r = "rematch" THEN content ELSE my[r].content
           print == Fingerprint(v, c)
<1>1. /\ pc[r] = "load"
      /\ UNCHANGED <<inputs, extraction, headline, scope, stored, force, edits,
                     accepted, failures, calm>>
  BY DEF LoadMatch, history
<1>2. my \in [Runs -> Records] /\ HasRead(r) /\ RunsOK
  BY DEF Sound, RunsHaveRead
<1>3. print \in Prints /\ print # None
  BY <1>1, PrintOfRun
<1>4. CASE Publish(r) /\ Finish(r)
  <2>1. Allowed' \in Nat /\ Allowed' >= Allowed
    BY <1>1, AllowedStays
  <2>2. RunsOK' /\ RunsHaveRead' /\ ExtractionsCounted'
    BY <1>1, <1>4, <2>1, FinishCounts DEF stored
  <2>3. DerivedOK' /\ StoredOK' /\ CountsOK'
    BY <1>1, <1>4, PublishKeeps DEF Sound, stored, StoredOK, CountsOK
  <2>4. QED
    BY <1>1, <2>2, <2>3, EditsStay DEF Sound
<1>5. CASE /\ my' = [my EXCEPT ![r].print = print, ![r].existing = match,
                               ![r].text = IF r = "rematch" THEN text ELSE @]
           /\ pc' = [pc EXCEPT ![r] = "score"]
           /\ UNCHANGED <<facets, arq>>
  <2> DEFINE record == [my[r] EXCEPT !.print = print, !.existing = match,
                                     !.text = IF r = "rematch" THEN text ELSE @]
  <2>1. my' = [my EXCEPT ![r] = record]
    BY <1>2, <1>5
  <2>2. text \in Texts /\ text # None /\ match \in Opt(Matches)
    BY NoneIsApart, BoundsAreNat DEF Sound, InputsOK, StoredOK, Texts
  <2>3. /\ record.content = my[r].content /\ record.version = my[r].version
        /\ record.write = my[r].write /\ record.print = print /\ record.existing = match
        /\ record.text = IF r = "rematch" THEN text ELSE my[r].text
    BY <1>2 DEF Records
  <2>4. record \in Records
    BY <1>2, <1>3, <2>2 DEF Records, Opt
  <2>5. HasRead(r)'
    <3>1. pc'[r] = "score" /\ my'[r] = record
      BY <1>2, <1>5, <2>1 DEF RunsOK
    <3>2. match' = match
      BY <1>1 DEF stored
    <3>3. record.text # None /\ (r \in Pipelines => HasLoaded(r) /\ record.text = my[r].text)
      BY <1>1, <1>2, <2>2, <2>3, RunsAre DEF HasRead, HasLoaded, Runs
    <3>4. QED
      BY <1>1, <1>2, <1>3, <2>3, <3>1, <3>2, <3>3 DEF HasRead, HasLoaded
  <2>6. DerivedOK'
    BY <1>1, <1>5 DEF Sound, DerivedOK
  <2>7. QED
    BY <1>1, <1>5, <2>1, <2>4, <2>5, <2>6, GoesOn
<1>6. QED
  BY <1>4, <1>5 DEF LoadMatch

(* What ScoreMatch stores.                                                 *)
NewMatch(r) ==
    [print |-> my[r].print,
     score |-> [facets |-> Vectors(r), headline |-> headline, scope |-> scope],
     verdict |-> [profile |-> <<my[r].text, text>>, rules |-> my[r].print.rules,
                  extraction |-> my[r].print.extraction]]

LEMMA NewMatchIsMatch ==
    ASSUME Sound, NEW r \in Runs, pc[r] = "score"
    PROVE  /\ NewMatch(r) \in Matches
           /\ NewMatch(r).print \in Prints
           /\ NewMatch(r).score \in Scores
           /\ NewMatch(r).verdict \in Verdicts
           /\ NewMatch(r).score.facets = Vectors(r)
           /\ NewMatch(r).score.headline = headline
<1>1. my[r] \in Records /\ HasRead(r)
  BY DEF Sound, RunsHaveRead
<1>2. my[r].print \in Prints /\ my[r].text \in Texts /\ Vectors(r) \in Texts
  BY <1>1 DEF HasRead, Records, Opt, Vectors, Sound, DerivedOK
<1>3. text \in Texts /\ headline \in Opt(0..MaxAmends) /\ scope \in Opt(Extractions)
  BY DEF Sound, InputsOK, DerivedOK
<1>4. [facets |-> Vectors(r), headline |-> headline, scope |-> scope] \in Scores
  BY <1>2, <1>3 DEF Scores
<1>5. [profile |-> <<my[r].text, text>>, rules |-> my[r].print.rules,
       extraction |-> my[r].print.extraction] \in Verdicts
  BY <1>2, <1>3 DEF Verdicts, Prints
<1>6. QED
  BY <1>2, <1>4, <1>5 DEF NewMatch, Matches

LEMMA ColumnIsOneOf ==
    ASSUME NEW new, NEW loaded, NEW current
    PROVE  \/ Column(new, loaded, current) = new /\ new # loaded
           \/ Column(new, loaded, current) = current /\ new = loaded
BY DEF Column

LEMMA UpdateIsMatch ==
    ASSUME NEW new \in Matches, NEW loaded, match \in Matches
    PROVE  UpdatedMatch(new, loaded) \in Matches
BY ColumnIsOneOf DEF UpdatedMatch, Matches

(* The three ends of a run that has come to score.                         *)
LEMMA ScoreMatchEnds ==
    ASSUME Sound, NEW r \in Runs, ScoreMatch(r)
    PROVE  /\ pc[r] = "score" /\ Finish(r)
           /\ UNCHANGED <<inputs, extraction, headline, scope, force, edits, history>>
           /\ \/ Publish(r) /\ UNCHANGED stored /\ ~Scorable(r)
              \/ /\ UNCHANGED <<facets, stored>>
                 /\ my[r].existing = None /\ match # None
              \/ /\ Scorable(r) /\ Publish(r)
                 /\ my[r].existing # None \/ match = None
                 /\ match' = IF my[r].existing = None THEN NewMatch(r)
                             ELSE UpdatedMatch(NewMatch(r), my[r].existing)
                 /\ recorded' = IF Moved(NewMatch(r), my[r].existing)
                                THEN recorded \cup {<<NewMatch(r).score, NewMatch(r).verdict>>}
                                ELSE recorded
BY DEF ScoreMatch, NewMatch

LEMMA ScoreMatchKeeps ==
    ASSUME Sound, NEW r \in Runs, ScoreMatch(r)
    PROVE  Sound'
<1>1. /\ pc[r] = "score" /\ Finish(r)
      /\ UNCHANGED <<inputs, extraction, headline, scope, force, edits,
                     accepted, failures, calm>>
  BY ScoreMatchEnds DEF history
<1>2. DerivedOK'
  <2>1. CASE Publish(r)
    BY <1>1, <2>1, PublishKeeps
  <2>2. CASE facets' = facets
    BY <1>1, <2>2 DEF Sound, DerivedOK
  <2>3. QED
    BY <2>1, <2>2, ScoreMatchEnds
<1>3. StoredOK' /\ (match # None => match' # None)
  <2>1. CASE UNCHANGED stored
    BY <2>1 DEF Sound, stored, StoredOK
  <2>2. CASE /\ my[r].existing # None \/ match = None
             /\ match' = IF my[r].existing = None THEN NewMatch(r)
                         ELSE UpdatedMatch(NewMatch(r), my[r].existing)
             /\ recorded' = IF Moved(NewMatch(r), my[r].existing)
                            THEN recorded \cup {<<NewMatch(r).score, NewMatch(r).verdict>>}
                            ELSE recorded
    <3>1. NewMatch(r) \in Matches /\ NewMatch(r).score \in Scores /\ NewMatch(r).verdict \in Verdicts
      BY <1>1, NewMatchIsMatch
    <3>2. my[r].existing # None => match \in Matches
      BY DEF Sound, RunsHaveRead, HasRead, StoredOK, Opt
    <3>3. match' \in Matches
      BY <2>2, <3>1, <3>2, UpdateIsMatch
    <3>4. recorded' \subseteq Scores \X Verdicts
      BY <2>2, <3>1 DEF Sound, StoredOK
    <3>5. QED
      BY <3>3, <3>4, NoneIsApart DEF StoredOK, Opt
  <2>3. QED
    BY <2>1, <2>2, ScoreMatchEnds DEF stored
<1>4. RunsOK' /\ RunsHaveRead' /\ ExtractionsCounted'
  <2>1. Allowed' \in Nat /\ Allowed' >= Allowed
    BY <1>1, AllowedStays
  <2>2. QED
    BY <1>1, <1>3, <2>1, FinishCounts
<1>5. CountsOK'
  BY <1>1 DEF Sound, CountsOK
<1>6. QED
  BY <1>1, <1>2, <1>3, <1>4, <1>5, EditsStay DEF Sound

LEMMA RunStepKeeps ==
    ASSUME Sound, NEW r \in Runs, RunStep(r)
    PROVE  Sound'
BY StartKeeps, ExtractKeeps, StoreExtractionKeeps, StoreCollidesKeeps, LoadProfileKeeps,
   SyncProfileKeeps, LoadMatchKeeps, ScoreMatchKeeps, EmbeddingFailsKeeps, WorkerDiesKeeps
   DEF RunStep

LEMMA NextKeeps ==
    ASSUME Sound, Next
    PROVE  Sound'
BY EditReadKeeps, EditFlushKeeps, EditCommitKeeps, SaveRulesKeeps, AmendKeeps, RequestKeeps,
   ExpireResultKeeps, RunStepKeeps DEF Next

LEMMA StutterKeeps ==
    ASSUME Sound, UNCHANGED vars
    PROVE  Sound'
<1>1. InputsOK' /\ EditsOK' /\ EditsInTurn'
  BY EditsStay DEF vars, inputs, edits
<1>2. DerivedOK' /\ StoredOK' /\ RunsOK' /\ CountsOK'
  BY DEF vars, Sound, DerivedOK, StoredOK, RunsOK, CountsOK
<1>3. RunsHaveRead' /\ ExtractionsCounted'
  BY RunsStay DEF vars, Sound, ExtractionsCounted, Pending, Stored, Allowed
<1>4. QED
  BY <1>1, <1>2, <1>3 DEF Sound

-----------------------------------------------------------------------------
(* The history.                                                            *)

LEMMA HistoryStays ==
    ASSUME EveryMoveRecorded, UNCHANGED stored
    PROVE  EveryMoveRecorded'
BY DEF EveryMoveRecorded, stored

(* A column that an update leaves alone was recorded when it was written,  *)
(* and one that it changes is recorded now.                                *)
LEMMA ScoreMatchRecords ==
    ASSUME Sound, EveryMoveRecorded, NEW r \in Runs, ScoreMatch(r)
    PROVE  EveryMoveRecorded'
<1> DEFINE new == NewMatch(r)
           old == my[r].existing
<1>1. CASE UNCHANGED stored
  BY <1>1, HistoryStays
<1>2. CASE /\ Scorable(r)
           /\ old # None \/ match = None
           /\ match' = IF old = None THEN new ELSE UpdatedMatch(new, old)
           /\ recorded' = IF Moved(new, old) THEN recorded \cup {<<new.score, new.verdict>>}
                          ELSE recorded
  <2>1. pc[r] = "score"
    BY DEF ScoreMatch
  <2>2. /\ new.score.facets # 0 /\ new.score.headline # None
        /\ new \in Matches
    BY <1>2, <2>1, NewMatchIsMatch DEF Scorable
  <2>3. CASE old = None
    <3>1. match' = new /\ recorded' = recorded \cup {<<new.score, new.verdict>>}
      BY <1>2, <2>3 DEF Moved
    <3>2. <<new.score, new.verdict>> \in recorded'
      BY <3>1
    <3>3. <<new.score, new.verdict>>[1] = new.score /\ <<new.score, new.verdict>>[2] = new.verdict
      OBVIOUS
    <3>4. QED
      BY <2>2, <3>1, <3>2, <3>3 DEF EveryMoveRecorded
  <2>4. CASE old # None
    <3>1. match # None /\ match' = UpdatedMatch(new, old)
      BY <1>2, <2>4 DEF Sound, RunsHaveRead, HasRead
    <3>2. /\ match'.score = Column(new.score, old.score, match.score)
          /\ match'.verdict = Column(new.verdict, old.verdict, match.verdict)
      BY <3>1 DEF UpdatedMatch
    <3>3. recorded \subseteq recorded'
      BY <1>2
    <3>4. (new.score # old.score \/ new.verdict # old.verdict) =>
             <<new.score, new.verdict>> \in recorded'
      BY <1>2, <2>4 DEF Moved
    <3>5. <<new.score, new.verdict>>[1] = new.score /\ <<new.score, new.verdict>>[2] = new.verdict
      OBVIOUS
    <3>6. /\ match'.score.facets # 0 /\ match'.score.headline # None
          /\ \E pair \in recorded' : pair[1] = match'.score
      BY <2>2, <3>1, <3>2, <3>3, <3>4, <3>5, ColumnIsOneOf DEF EveryMoveRecorded
    <3>7. \E pair \in recorded' : pair[2] = match'.verdict
      BY <3>1, <3>2, <3>3, <3>4, <3>5, ColumnIsOneOf DEF EveryMoveRecorded
    <3>8. QED
      BY <3>6, <3>7 DEF EveryMoveRecorded
  <2>5. QED
    BY <2>3, <2>4
<1>3. QED
  BY <1>1, <1>2, ScoreMatchEnds DEF stored

LEMMA RunStepRecords ==
    ASSUME Sound, EveryMoveRecorded, NEW r \in Runs, RunStep(r)
    PROVE  EveryMoveRecorded'
<1>1. Start(r) \/ Extract(r) \/ StoreCollides(r) \/ LoadProfile(r) => UNCHANGED stored
  BY DEF Start, Extract, StoreCollides, LoadProfile
<1>2. (\E ok, embedded \in BOOLEAN : StoreExtraction(r, ok, embedded)) => UNCHANGED stored
  BY DEF StoreExtraction
<1>3. SyncProfile(r) \/ LoadMatch(r) \/ EmbeddingFails(r) \/ WorkerDies(r) => UNCHANGED stored
  BY DEF SyncProfile, LoadMatch, EmbeddingFails, WorkerDies
<1>4. UNCHANGED stored \/ ScoreMatch(r)
  BY <1>1, <1>2, <1>3 DEF RunStep
<1>5. QED
  BY <1>4, HistoryStays, ScoreMatchRecords

LEMMA NextRecords ==
    ASSUME Sound, EveryMoveRecorded, Next
    PROVE  EveryMoveRecorded'
<1>1. CASE \E e \in Editors : EditRead(e) \/ EditFlush(e) \/ EditCommit(e)
  <2>1. UNCHANGED stored
    BY <1>1 DEF EditRead, EditFlush, EditCommit
  <2>2. QED
    BY <2>1, HistoryStays
<1>2. CASE SaveRules \/ Amend
  <2>1. UNCHANGED stored
    BY <1>2 DEF SaveRules, Amend
  <2>2. QED
    BY <2>1, HistoryStays
<1>3. ASSUME NEW r \in Runs,
             (\E forced \in BOOLEAN : Request(r, forced)) \/ ExpireResult(r)
      PROVE  EveryMoveRecorded'
  <2>1. UNCHANGED stored
    BY <1>3 DEF Request, ExpireResult
  <2>2. QED
    BY <2>1, HistoryStays
<1>4. QED
  BY <1>1, <1>2, <1>3, RunStepRecords DEF Next

-----------------------------------------------------------------------------
(* Undisturbed runs.                                                       *)

LEMMA StepKeepsCalm ==
    ASSUME CalmRuns, UNCHANGED <<inputs, derived, stored, pc, my, failures>>,
           calm' \subseteq calm
    PROVE  CalmRuns'
<1>1. Active' = Active
  BY DEF Active
<1>2. ASSUME NEW r \in calm'
      PROVE  IsUpToDate(r)'
  <2>1. IsUpToDate(r)
    BY DEF CalmRuns
  <2>2. /\ Vectors(r)' = Vectors(r) /\ Fingerprint(version, content)' = Fingerprint(version, content)
        /\ UNCHANGED <<pc, my, text, version, content, extraction, headline, match, failures>>
    BY DEF Vectors, Fingerprint, ExtractionId, inputs, derived, stored
  <2>3. QED
    BY <2>1, <2>2 DEF IsUpToDate
<1>3. QED
  BY <1>1, <1>2 DEF CalmRuns

(* A run that takes a step is the only one that may be undisturbed.        *)
LEMMA RunKeepsCalm ==
    ASSUME CalmRuns, RunsOK, NEW r \in Runs, pc[r] # "idle", NEW p,
           pc' = [pc EXCEPT ![r] = p], calm' \subseteq calm,
           r \in calm' => IsUpToDate(r)'
    PROVE  CalmRuns'
<1>1. SUFFICES ASSUME NEW q \in calm'
               PROVE  Active' \subseteq {q} /\ IsUpToDate(q)'
  BY DEF CalmRuns
<1>2. Active \subseteq {q}
  BY DEF CalmRuns
<1>3. r \in Active
  BY DEF Active
<1>4. q = r
  BY <1>2, <1>3
<1>5. Active' \subseteq {r}
  BY <1>2, <1>4 DEF Active, RunsOK
<1>6. QED
  BY <1>4, <1>5

LEMMA FinishKeepsCalm ==
    ASSUME CalmRuns, RunsOK, NEW r \in Runs, pc[r] # "idle", Finish(r), calm' \subseteq calm
    PROVE  CalmRuns'
<1>1. pc' = [pc EXCEPT ![r] = "idle"] /\ pc'[r] = "idle"
  BY DEF Finish, RunsOK
<1>2. IsUpToDate(r)'
  BY <1>1 DEF IsUpToDate
<1>3. QED
  BY <1>1, <1>2, RunKeepsCalm

LEMMA StartIsCalm ==
    ASSUME IInv, NEW r \in Runs, Start(r)
    PROVE  CalmRuns'
<1>1. pc' = [pc EXCEPT ![r] = IF r \in Pipelines THEN "extract" ELSE "embed"]
      /\ calm' = (IF Active = {} THEN {r} ELSE {})
  BY DEF Start
<1>2. CASE Active = {}
  <2>1. Active' \subseteq {r}
    BY <1>1, <1>2 DEF Active, IInv, Sound, RunsOK
  <2>2. IsUpToDate(r)'
    BY <1>1 DEF IInv, Sound, RunsOK, IsUpToDate
  <2>3. QED
    BY <1>1, <1>2, <2>1, <2>2 DEF CalmRuns
<1>3. CASE Active # {}
  BY <1>1, <1>3 DEF CalmRuns
<1>4. QED
  BY <1>2, <1>3

LEMMA ExtractIsCalm ==
    ASSUME IInv, NEW r \in Runs, Extract(r)
    PROVE  CalmRuns'
<1>1. /\ pc[r] = "extract" /\ pc' = [pc EXCEPT ![r] = "store"]
      /\ my' = [my EXCEPT ![r] = [my[r] EXCEPT !.content = content]]
      /\ content' = content /\ calm' = calm
  BY DEF Extract, inputs, history
<1>2. my \in [Runs -> Records] /\ RunsOK
  BY DEF IInv, Sound, RunsHaveRead
<1>3. pc'[r] = "store" /\ my'[r].content = content
  BY <1>1, <1>2 DEF RunsOK, Records
<1>4. IsUpToDate(r)'
  BY <1>1, <1>3 DEF IsUpToDate
<1>5. QED
  BY <1>1, <1>2, <1>4, RunKeepsCalm DEF IInv

(* A run that has stored its extraction without a failure has stored one   *)
(* of the content as it is, and embedded it.                               *)
LEMMA StoreExtractionIsCalm ==
    ASSUME IInv, NEW r \in Runs, NEW ok \in BOOLEAN, NEW embedded \in BOOLEAN,
           StoreExtraction(r, ok, embedded)
    PROVE  CalmRuns' /\ FailuresCounted'
<1> DEFINE new == NextExtraction(my[r].content, ok)
           failed == (IF ok THEN 0 ELSE 1) + (IF embedded THEN 0 ELSE 1)
<1>1. /\ pc[r] = "store" /\ failures' = failures + failed
      /\ calm' = (IF failed > 0 THEN {} ELSE calm)
      /\ extraction' = new
      /\ embedded => headline' = my[r].content
      /\ pc' = [pc EXCEPT ![r] = "embed"]
      /\ content' = content
  BY DEF StoreExtraction, inputs
<1>2. RunsOK /\ HasRead(r) /\ my[r].content # None
  BY <1>1 DEF IInv, Sound, RunsHaveRead, HasRead
<1>3. failures \in Nat
  BY BoundsAreNat DEF IInv, Sound, CountsOK
<1>4. new.of = my[r].content /\ (new.ok \/ ~ok \/ (new = extraction /\ extraction # None))
  <2>1. CASE extraction # None /\ extraction.of = my[r].content /\ ok
    <3>1. new = extraction
      BY <2>1 DEF NextExtraction
    <3>2. QED
      BY <2>1, <3>1
  <2>2. CASE ~(extraction # None /\ extraction.of = my[r].content /\ ok)
    <3>1. new = [id |-> IF extraction = None THEN 1 ELSE extraction.id + 1,
                 of |-> my[r].content, ok |-> ok]
      BY <2>2 DEF NextExtraction
    <3> HIDE DEF new
    <3>2. new.of = my[r].content
      BY <3>1
    <3>3. ok => new.ok = TRUE
      BY <3>1
    <3>4. QED
      BY <3>2, <3>3
  <2>3. QED
    BY <2>1, <2>2
<1>5. CalmRuns'
  <2>1. r \in calm' => IsUpToDate(r)'
    <3>1. SUFFICES ASSUME r \in calm' PROVE IsUpToDate(r)'
      OBVIOUS
    <3>2. ok /\ embedded /\ r \in calm
      BY <1>1, <3>1
    <3>3. my[r].content = content
      BY <1>1, <3>2 DEF IInv, CalmRuns, IsUpToDate
    <3>4. extraction'.of = content' /\ headline' # None /\ pc'[r] = "embed"
      BY <1>1, <1>2, <1>4, <3>2, <3>3 DEF RunsOK
    <3>5. failures' = failures
      BY <1>1, <1>3, <3>2
    <3>6. extraction'.ok \/ failures' > 0
      BY <1>1, <1>4, <3>2, <3>5 DEF IInv, FailuresCounted
    <3>7. QED
      BY <3>4, <3>6 DEF IsUpToDate
  <2>2. calm' \subseteq calm
    BY <1>1
  <2>3. QED
    BY <1>1, <1>2, <2>1, <2>2, RunKeepsCalm DEF IInv
<1>6. FailuresCounted'
  <2>1. CASE ok
    <3>1. new.ok \/ failures > 0
      BY <1>4, <2>1 DEF IInv, FailuresCounted
    <3>2. failed \in Nat
      OBVIOUS
    <3>3. failures > 0 => failures' > 0
      BY <1>1, <1>3, <3>2
    <3>4. QED
      BY <1>1, <3>1, <3>3 DEF FailuresCounted
  <2>2. CASE ~ok
    <3>1. failures' > 0
      BY <1>1, <1>3, <2>2
    <3>2. QED
      BY <3>1 DEF FailuresCounted
  <2>3. QED
    BY <2>1, <2>2
<1>7. QED
  BY <1>5, <1>6

LEMMA LoadProfileIsCalm ==
    ASSUME IInv, NEW r \in Runs, LoadProfile(r)
    PROVE  CalmRuns'
<1>1. /\ pc[r] = "embed" /\ pc' = [pc EXCEPT ![r] = "sync"]
      /\ my' = [my EXCEPT ![r] = [my[r] EXCEPT !.content = content, !.version = version,
                                               !.text = text]]
      /\ UNCHANGED <<content, version, text, extraction, headline, failures, calm>>
  BY DEF LoadProfile, inputs, derived, history
<1>2. my \in [Runs -> Records] /\ RunsOK
  BY DEF IInv, Sound, RunsHaveRead
<1>3. /\ pc'[r] = "sync" /\ my'[r].content = content /\ my'[r].version = version
      /\ my'[r].text = text
  BY <1>1, <1>2 DEF RunsOK, Records
<1>4. r \in calm' => IsUpToDate(r)'
  BY <1>1, <1>3 DEF IInv, CalmRuns, IsUpToDate
<1>5. QED
  BY <1>1, <1>2, <1>4, RunKeepsCalm DEF IInv

LEMMA SyncProfileIsCalm ==
    ASSUME IInv, NEW r \in Runs, SyncProfile(r)
    PROVE  CalmRuns'
<1>1. /\ pc[r] = "sync" /\ calm' = calm
      /\ UNCHANGED <<content, version, text, extraction, headline, failures>>
  BY DEF SyncProfile, inputs, history
<1>2. my \in [Runs -> Records] /\ RunsOK /\ HasRead(r) /\ my[r].text # None
  BY <1>1 DEF IInv, Sound, RunsHaveRead, HasRead, HasLoaded
<1>3. r \in calm => my[r].text = text
  BY <1>1 DEF IInv, CalmRuns, IsUpToDate
<1>4. CASE /\ r \in Pipelines /\ facets' = facets
           /\ my' = [my EXCEPT ![r].write = IF facets = my[r].text THEN None ELSE my[r].text]
           /\ pc' = [pc EXCEPT ![r] = "load"]
  <2>1. /\ my'[r].content = my[r].content /\ my'[r].version = my[r].version
        /\ my'[r].text = my[r].text
        /\ my'[r].write = IF facets = my[r].text THEN None ELSE my[r].text
    BY <1>2, <1>4 DEF Records
  <2>2. Vectors(r)' = my[r].text
    BY <1>2, <1>4, <2>1 DEF Vectors
  <2>3. pc'[r] = "load"
    BY <1>2, <1>4 DEF RunsOK
  <2>4. r \in calm' => IsUpToDate(r)'
    BY <1>1, <1>3, <2>1, <2>2, <2>3 DEF IInv, CalmRuns, IsUpToDate
  <2>5. QED
    BY <1>1, <1>2, <1>4, <2>4, RunKeepsCalm DEF IInv
<1>5. CASE Finish(r)
  BY <1>1, <1>2, <1>5, FinishKeepsCalm DEF IInv
<1>6. CASE /\ r = "rematch" /\ facets' = my[r].text /\ my' = [my EXCEPT ![r] = Nothing]
           /\ pc' = [pc EXCEPT ![r] = "load"]
  <2>1. Vectors(r)' = my[r].text /\ pc'[r] = "load"
    BY <1>2, <1>6, NothingIsRead DEF Vectors, RunsOK
  <2>2. r \in calm' => IsUpToDate(r)'
    BY <1>1, <1>3, <1>6, <2>1, RunsAre DEF IsUpToDate
  <2>3. QED
    BY <1>1, <1>2, <1>6, <2>2, RunKeepsCalm DEF IInv
<1>7. QED
  BY <1>4, <1>5, <1>6 DEF SyncProfile

(* The fingerprint of a run that nothing disturbs is that of the inputs.   *)
LEMMA CalmPrint ==
    ASSUME IInv, NEW r \in calm, pc[r] = "load"
    PROVE  LET v == IF r = "rematch" THEN version ELSE my[r].version
               c == IF r = "rematch" THEN content ELSE my[r].content
           IN  Fingerprint(v, c) = Fingerprint(version, content)
<1>1. r = "rematch" \/ r \in Pipelines
  BY DEF IInv, Sound, CountsOK, Runs
<1>2. r \in Pipelines => my[r].version = version /\ my[r].content = content
  BY DEF IInv, CalmRuns, IsUpToDate
<1>3. QED
  BY <1>1, <1>2

LEMMA LoadMatchIsCalm ==
    ASSUME IInv, NEW r \in Runs, LoadMatch(r)
    PROVE  CalmRuns'
<1> DEFINE v == IF r = "rematch" THEN version ELSE my[r].version
           c == IF r = "rematch" THEN content ELSE my[r].content
           print == Fingerprint(v, c)
<1>1. /\ pc[r] = "load" /\ calm' = calm
      /\ UNCHANGED <<content, version, text, rules, extraction, headline, match, failures>>
  BY DEF LoadMatch, inputs, stored, history
<1>2. my \in [Runs -> Records] /\ RunsOK /\ HasRead(r)
  BY DEF IInv, Sound, RunsHaveRead
<1>3. CASE Finish(r)
  BY <1>1, <1>2, <1>3, FinishKeepsCalm DEF IInv
<1>4. CASE /\ my' = [my EXCEPT ![r].print = print, ![r].existing = match,
                               ![r].text = IF r = "rematch" THEN text ELSE @]
           /\ pc' = [pc EXCEPT ![r] = "score"]
           /\ facets' = facets
  <2>1. /\ my'[r].content = my[r].content /\ my'[r].version = my[r].version
        /\ my'[r].write = my[r].write /\ my'[r].print = print /\ my'[r].existing = match
        /\ my'[r].text = IF r = "rematch" THEN text ELSE my[r].text
    BY <1>2, <1>4 DEF Records
  <2>2. pc'[r] = "score" /\ Vectors(r)' = Vectors(r)
    BY <1>2, <1>4, <2>1 DEF RunsOK, Vectors
  <2>3. r \in calm' => IsUpToDate(r)'
    <3>1. SUFFICES ASSUME r \in calm PROVE IsUpToDate(r)'
      BY <1>1
    <3>2. IsUpToDate(r) /\ print = Fingerprint(version, content)
      BY <1>1, <3>1, CalmPrint DEF IInv, CalmRuns
    <3>3. Fingerprint(version, content)' = Fingerprint(version, content)
      BY <1>1 DEF Fingerprint, ExtractionId
    <3>4. r = "rematch" \/ r \in Pipelines
      BY DEF Runs
    <3>5. my'[r].text = text
      BY <1>1, <2>1, <3>2, <3>4 DEF IsUpToDate
    <3>6. QED
      BY <1>1, <2>1, <2>2, <3>2, <3>3, <3>5 DEF IsUpToDate
  <2>4. QED
    BY <1>1, <1>2, <1>4, <2>3, RunKeepsCalm DEF IInv
<1>5. QED
  BY <1>3, <1>4 DEF LoadMatch

LEMMA RunStepIsCalm ==
    ASSUME IInv, NEW r \in Runs, RunStep(r)
    PROVE  CalmRuns'
<1>1. RunsOK /\ CalmRuns
  BY DEF IInv, Sound
<1>2. CASE EmbeddingFails(r) \/ WorkerDies(r)
  BY <1>2 DEF EmbeddingFails, WorkerDies, CalmRuns
<1>3. CASE StoreCollides(r)
  <2>1. pc[r] # "idle" /\ Finish(r) /\ calm' = calm
    BY <1>3 DEF StoreCollides, history
  <2>2. QED
    BY <1>1, <2>1, FinishKeepsCalm
<1>4. CASE ScoreMatch(r)
  <2>1. pc[r] # "idle" /\ Finish(r) /\ calm' = calm
    BY <1>4 DEF ScoreMatch, history
  <2>2. QED
    BY <1>1, <2>1, FinishKeepsCalm
<1>5. QED
  BY <1>2, <1>3, <1>4, StartIsCalm, ExtractIsCalm, StoreExtractionIsCalm, LoadProfileIsCalm,
     SyncProfileIsCalm, LoadMatchIsCalm DEF RunStep

LEMMA NextIsCalm ==
    ASSUME IInv, Next
    PROVE  CalmRuns'
<1>1. CASE \E e \in Editors : EditRead(e) \/ EditFlush(e)
  <2>1. UNCHANGED <<inputs, derived, stored, pc, my, calm, failures>>
    BY <1>1 DEF EditRead, EditFlush, history
  <2>2. QED
    BY <2>1, StepKeepsCalm DEF IInv
<1>2. CASE (\E e \in Editors : EditCommit(e)) \/ SaveRules \/ Amend
  BY <1>2 DEF EditCommit, SaveRules, Amend, CalmRuns
<1>3. ASSUME NEW r \in Runs,
             (\E forced \in BOOLEAN : Request(r, forced)) \/ ExpireResult(r)
      PROVE  CalmRuns'
  <2>1. UNCHANGED <<inputs, derived, stored, pc, my, calm, failures>>
    BY <1>3 DEF Request, ExpireResult, history
  <2>2. QED
    BY <2>1, StepKeepsCalm DEF IInv
<1>4. QED
  BY <1>1, <1>2, <1>3, RunStepIsCalm DEF Next

LEMMA NextCountsFailures ==
    ASSUME IInv, Next
    PROVE  FailuresCounted'
<1>1. failures \in Nat
  BY BoundsAreNat DEF IInv, Sound, CountsOK
<1>2. CASE extraction' = extraction /\ (failures' = failures \/ failures' = failures + 1)
  BY <1>1, <1>2 DEF IInv, FailuresCounted
<1>3. CASE \E e \in Editors : EditRead(e) \/ EditFlush(e) \/ EditCommit(e)
  BY <1>2, <1>3 DEF EditRead, EditFlush, EditCommit, derived, history
<1>4. CASE SaveRules \/ Amend
  BY <1>2, <1>4 DEF SaveRules, Amend, derived
<1>5. ASSUME NEW r \in Runs,
             (\E forced \in BOOLEAN : Request(r, forced)) \/ ExpireResult(r)
      PROVE  FailuresCounted'
  BY <1>2, <1>5 DEF Request, ExpireResult, derived, history
<1>6. ASSUME NEW r \in Runs, RunStep(r)
      PROVE  FailuresCounted'
  <2>1. Start(r) \/ Extract(r) \/ StoreCollides(r) \/ LoadProfile(r) =>
          extraction' = extraction /\ failures' = failures
    BY DEF Start, Extract, StoreCollides, LoadProfile, derived, history
  <2>2. SyncProfile(r) \/ LoadMatch(r) \/ ScoreMatch(r) =>
          extraction' = extraction /\ failures' = failures
    BY DEF SyncProfile, LoadMatch, ScoreMatch, history
  <2>3. EmbeddingFails(r) \/ WorkerDies(r) =>
          extraction' = extraction /\ failures' = failures + 1
    BY DEF EmbeddingFails, WorkerDies, derived
  <2>4. QED
    BY <1>2, <1>6, <2>1, <2>2, <2>3, StoreExtractionIsCalm DEF RunStep
<1>7. QED
  BY <1>3, <1>4, <1>5, <1>6 DEF Next

-----------------------------------------------------------------------------
(* What an undisturbed run leaves behind.                                  *)

Settled(r) ==
    /\ match' # None
    /\ match'.print = [version |-> version, rules |-> rules,
                       extraction |-> ExtractionId, content |-> content]
    /\ r # "rematch" =>
          extraction.of = content /\ (extraction.ok \/ failures > 0)
    /\ r = "rematch" /\ force =>
          match'.score = [facets |-> text, headline |-> headline, scope |-> scope]

SettlesAsItEnds(r) ==
    r \in calm /\ r \in calm' /\ Finishes(r) /\ text # 0 /\ (r = "rematch" => headline # None)
        => Settled(r)

LEMMA CalmExtraction ==
    ASSUME IInv, NEW r \in calm, pc[r] \in {"load", "score"}, r # "rematch"
    PROVE  extraction.of = content /\ (extraction.ok \/ failures > 0) /\ headline # None
<1>1. r \in Pipelines
  BY DEF IInv, Sound, CountsOK, Runs
<1>2. QED
  BY <1>1 DEF IInv, CalmRuns, IsUpToDate, FailuresCounted

LEMMA StoreCollidesSettles ==
    ASSUME IInv, NEW r \in Runs, StoreCollides(r)
    PROVE  SettlesAsItEnds(r)
<1>1. \E q \in Runs \ {r} : q \in Active
  BY RunsAre DEF StoreCollides, Active
<1>2. r \notin calm
  BY <1>1 DEF IInv, CalmRuns
<1>3. QED
  BY <1>2 DEF SettlesAsItEnds

LEMMA SyncProfileSettles ==
    ASSUME IInv, NEW r \in Runs, SyncProfile(r)
    PROVE  SettlesAsItEnds(r)
<1>1. pc[r] = "sync" /\ arq[r] = "running"
  BY DEF SyncProfile, IInv, Sound, RunsOK
<1>2. arq' = arq \/ (r = "rematch" /\ headline = None)
  BY DEF SyncProfile
<1>3. QED
  BY <1>1, <1>2 DEF SettlesAsItEnds, Finishes

LEMMA LoadMatchSettles ==
    ASSUME IInv, NEW r \in Runs, LoadMatch(r)
    PROVE  SettlesAsItEnds(r)
<1> DEFINE v == IF r = "rematch" THEN version ELSE my[r].version
           c == IF r = "rematch" THEN content ELSE my[r].content
           print == Fingerprint(v, c)
<1>1. pc[r] = "load" /\ arq[r] = "running" /\ match' = match
  BY DEF LoadMatch, stored, IInv, Sound, RunsOK
<1>2. SUFFICES ASSUME r \in calm, Finishes(r) PROVE Settled(r)
  BY DEF SettlesAsItEnds
<1>3. Skips(r, print)
  BY <1>1, <1>2 DEF LoadMatch, Finishes
<1>4. print = Fingerprint(version, content)
  BY <1>1, <1>2, CalmPrint
<1>5. match' # None /\ match'.print = Fingerprint(version, content)
  BY <1>1, <1>3, <1>4 DEF Skips
<1>6. r # "rematch" => extraction.of = content /\ (extraction.ok \/ failures > 0)
  BY <1>1, <1>2, CalmExtraction
<1>7. ~(r = "rematch" /\ force)
  BY <1>3 DEF Skips
<1>8. QED
  BY <1>5, <1>6, <1>7 DEF Settled, Fingerprint

LEMMA ScoreMatchSettles ==
    ASSUME IInv, NEW r \in Runs, ScoreMatch(r)
    PROVE  SettlesAsItEnds(r)
<1> DEFINE new == NewMatch(r)
           old == my[r].existing
<1>1. pc[r] = "score" /\ HasRead(r) /\ Sound
  BY DEF ScoreMatch, IInv, Sound, RunsHaveRead
<1>2. SUFFICES ASSUME r \in calm, text # 0, r = "rematch" => headline # None
               PROVE  Settled(r)
  BY DEF SettlesAsItEnds
<1>3. /\ Vectors(r) = text /\ my[r].print = Fingerprint(version, content)
      /\ old = match /\ my[r].text = text
  BY <1>1, <1>2 DEF IInv, CalmRuns, IsUpToDate
<1>4. r # "rematch" =>
        extraction.of = content /\ (extraction.ok \/ failures > 0) /\ headline # None
  BY <1>1, <1>2, CalmExtraction
<1>5. Scorable(r)
  BY <1>2, <1>3, <1>4 DEF Scorable
<1>6. match' = IF old = None THEN new ELSE UpdatedMatch(new, old)
  BY <1>3, <1>5, ScoreMatchEnds, <1>1
<1>7. /\ new \in Matches /\ new.print = Fingerprint(version, content)
      /\ new.score = [facets |-> text, headline |-> headline, scope |-> scope]
  <2>1. new \in Matches
    BY <1>1, NewMatchIsMatch
  <2>2. QED
    BY <1>3, <2>1 DEF NewMatch
<1>8. /\ match' # None /\ match'.print = Fingerprint(version, content)
      /\ match'.score = [facets |-> text, headline |-> headline, scope |-> scope]
  <2>1. CASE old = None
    BY <1>6, <1>7, <2>1, NoneIsApart
  <2>2. CASE old # None
    <3>1. match \in Matches /\ match' = UpdatedMatch(new, match)
      BY <1>1, <1>3, <1>6, <2>2 DEF Sound, StoredOK, Opt
    <3>2. match' \in Matches
      BY <1>7, <3>1, UpdateIsMatch
    <3>3. match'.print = Column(new.print, match.print, match.print)
          /\ match'.score = Column(new.score, match.score, match.score)
      BY <3>1 DEF UpdatedMatch
    <3>4. match'.print = new.print /\ match'.score = new.score
      BY <3>3, ColumnIsOneOf
    <3>5. QED
      BY <1>7, <3>2, <3>4, NoneIsApart
  <2>3. QED
    BY <2>1, <2>2
<1>9. QED
  BY <1>4, <1>8 DEF Settled, Fingerprint

(* A run that is undisturbed to its end ends by a step of its own.         *)
LEMMA OthersEndNothing ==
    ASSUME IInv, NEW r \in Runs, NEW q \in Runs, RunStep(q), q # r
    PROVE  ~Finishes(r)
<1>1. arq \in [Runs -> {"none", "queued", "running", "kept"}] /\ (pc[r] # "idle" => arq[r] = "running")
  BY DEF IInv, Sound, RunsOK
<1>2. arq'[r] = arq[r]
  <2>1. Start(q) \/ WorkerDies(q) \/ Finish(q) => arq'[r] = arq[r]
    BY <1>1 DEF Start, WorkerDies, Finish
  <2>2. Extract(q) \/ LoadProfile(q) => arq' = arq
    BY DEF Extract, LoadProfile, queue
  <2>3. (\E ok, embedded \in BOOLEAN : StoreExtraction(q, ok, embedded)) => arq' = arq
    BY DEF StoreExtraction, queue
  <2>4. StoreCollides(q) \/ EmbeddingFails(q) \/ ScoreMatch(q) => Finish(q)
    BY DEF StoreCollides, EmbeddingFails, ScoreMatch
  <2>5. SyncProfile(q) => Finish(q) \/ arq' = arq
    BY DEF SyncProfile
  <2>6. LoadMatch(q) => Finish(q) \/ arq' = arq
    BY DEF LoadMatch
  <2>7. QED
    BY <2>1, <2>2, <2>3, <2>4, <2>5, <2>6 DEF RunStep
<1>3. QED
  BY <1>1, <1>2 DEF Finishes

LEMMA RunStepSettles ==
    ASSUME IInv, NEW r \in Runs, RunStep(r)
    PROVE  SettlesAsItEnds(r)
<1>1. arq \in [Runs -> {"none", "queued", "running", "kept"}] /\ (pc[r] # "idle" => arq[r] = "running")
  BY DEF IInv, Sound, RunsOK
<1>2. Start(r) \/ WorkerDies(r) => ~Finishes(r)
  BY <1>1 DEF Start, WorkerDies, Finishes
<1>3. Extract(r) \/ LoadProfile(r) => ~Finishes(r)
  BY <1>1 DEF Extract, LoadProfile, queue, Finishes
<1>4. (\E ok, embedded \in BOOLEAN : StoreExtraction(r, ok, embedded)) => ~Finishes(r)
  BY <1>1 DEF StoreExtraction, queue, Finishes
<1>5. EmbeddingFails(r) => r \notin calm'
  BY DEF EmbeddingFails
<1>6. ~Finishes(r) \/ r \notin calm' => SettlesAsItEnds(r)
  BY DEF SettlesAsItEnds
<1>7. QED
  BY <1>2, <1>3, <1>4, <1>5, <1>6, StoreCollidesSettles, SyncProfileSettles, LoadMatchSettles,
     ScoreMatchSettles DEF RunStep

LEMMA EnqueueEndsNothing ==
    ASSUME IInv, NEW r \in Runs, NEW q \in Runs, Enqueue(q)
    PROVE  ~Finishes(r)
BY DEF IInv, Sound, RunsOK, Enqueue, Finishes

LEMMA NextSettles ==
    ASSUME IInv, Next, NEW r \in Runs
    PROVE  SettlesAsItEnds(r)
<1>1. pc[r] # "idle" => arq[r] = "running"
  BY DEF IInv, Sound, RunsOK
<1>2. arq' = arq => ~Finishes(r)
  BY <1>1 DEF Finishes
<1>3. CASE \E e \in Editors : EditRead(e) \/ EditCommit(e)
  BY <1>2, <1>3 DEF EditRead, EditCommit, queue, SettlesAsItEnds
<1>4. CASE \E e \in Editors : EditFlush(e)
  BY <1>4, EnqueueEndsNothing, RunsAre DEF EditFlush, SettlesAsItEnds
<1>5. CASE SaveRules \/ Amend
  BY <1>2, <1>5, EnqueueEndsNothing, RunsAre DEF SaveRules, Amend, queue, SettlesAsItEnds
<1>6. ASSUME NEW q \in Runs, \E forced \in BOOLEAN : Request(q, forced)
      PROVE  SettlesAsItEnds(r)
  BY <1>6, EnqueueEndsNothing DEF Request, SettlesAsItEnds
<1>7. ASSUME NEW q \in Runs, ExpireResult(q)
      PROVE  SettlesAsItEnds(r)
  <2>1. arq'[r] = arq[r] \/ arq'[r] = "none"
    BY <1>7 DEF ExpireResult, IInv, Sound, RunsOK
  <2>2. QED
    BY <1>1, <2>1 DEF Finishes, SettlesAsItEnds
<1>8. ASSUME NEW q \in Runs, RunStep(q)
      PROVE  SettlesAsItEnds(r)
  BY <1>8, RunStepSettles, OthersEndNothing DEF SettlesAsItEnds
<1>9. QED
  BY <1>3, <1>4, <1>5, <1>6, <1>7, <1>8 DEF Next

LEMMA StutterIsCalm ==
    ASSUME IInv, UNCHANGED vars
    PROVE  IInv' /\ \A r \in Runs : SettlesAsItEnds(r)
<1>1. Sound'
  BY StutterKeeps DEF IInv
<1>2. EveryMoveRecorded' /\ FailuresCounted'
  BY HistoryStays DEF IInv, vars, stored, FailuresCounted
<1>3. CalmRuns'
  BY StepKeepsCalm DEF IInv, vars, inputs, derived, stored
<1>4. arq' = arq
  BY DEF vars
<1>5. \A r \in Runs : ~Finishes(r)
  BY <1>4 DEF IInv, Sound, RunsOK, Finishes
<1>6. QED
  BY <1>1, <1>2, <1>3, <1>5 DEF IInv, SettlesAsItEnds

LEMMA StepIInv ==
    ASSUME IInv, [Next]_vars
    PROVE  IInv'
<1>1. CASE Next
  BY <1>1, NextKeeps, NextRecords, NextIsCalm, NextCountsFailures DEF IInv
<1>2. CASE UNCHANGED vars
  BY <1>2, StutterIsCalm
<1>3. QED
  BY <1>1, <1>2

-----------------------------------------------------------------------------
(* Pipelines, a re-match, edits, amendments and failures keep to the       *)
(* invariant (jobs/tasks/matching.py, matching/service.py).                *)
THEOREM PipelineInductive == Spec => []IInv
<1>1. Init => IInv
  BY InitIInv
<1>2. IInv /\ [Next]_vars => IInv'
  BY StepIInv
<1>3. QED
  BY <1>1, <1>2, PTL DEF Spec

(* Every variable keeps its type, however many edits load one version:     *)
(* the version never passes the number of texts there have been.           *)
THEOREM PipelineTypeCorrect == Spec => []TypeOK
<1>1. IInv => TypeOK
  BY TypesFollow DEF IInv, Sound
<1>2. QED
  BY <1>1, PipelineInductive, PTL

(* However runs overlap, the score and the verdict a customer reads have   *)
(* been recorded, and compare something with something                     *)
(* (matching/service.py:148).                                              *)
THEOREM MovesAreRecorded == Spec => []EveryMoveRecorded
<1>1. IInv => EveryMoveRecorded
  BY DEF IInv
<1>2. QED
  BY <1>1, PipelineInductive, PTL

(* A run that nothing disturbs leaves a match of the inputs as they are    *)
(* (jobs/tasks/matching.py:62, :220).                                      *)
THEOREM CalmRunsDoSettle == Spec => CalmRunsSettle
<1>1. IInv /\ [Next]_vars => \A r \in Runs : SettlesAsItEnds(r)
  BY NextSettles, StutterIsCalm
<1>2. IInv => calm \subseteq Runs
  BY DEF IInv, Sound, CountsOK
<1>3. IInv /\ [Next]_vars =>
        [\A r \in calm \cap calm' : Finishes(r) /\ text # 0 /\ (r = "rematch" => headline # None) =>
          /\ match' # None
          /\ match'.print = [version |-> version, rules |-> rules,
                             extraction |-> ExtractionId, content |-> content]
          /\ r # "rematch" =>
                extraction.of = content /\ (extraction.ok \/ failures > 0)
          /\ r = "rematch" /\ force =>
                match'.score = [facets |-> text, headline |-> headline, scope |-> scope]]_vars
  BY <1>1, <1>2 DEF SettlesAsItEnds, Settled
<1>4. QED
  BY <1>3, PipelineInductive, PTL DEF Spec, CalmRunsSettle
=============================================================================
