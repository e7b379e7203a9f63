-------------------------- MODULE EmailOutboxProofs --------------------------
(***************************************************************************)
(* The outbox for any number of rows, pumps, admins, crashes and retries,  *)
(* any batch size and any maximum of attempts.  requeue reads a row and    *)
(* later writes it without looking at it again; a row that is overwritten  *)
(* so is lost to the invariant, and the invariant says that no other row   *)
(* is touched by what happens to it.                                       *)
(***************************************************************************)
EXTENDS EmailOutbox, TLAPS

-----------------------------------------------------------------------------
(* The inductive invariant, in named parts. *)

(* A run's program counter, batch and current row fit together. *)
RunShape ==
    \A p \in Pumps :
        /\ pc[p] = "idle" => batch[p] = {}
        /\ pc[p] \in {"idle", "selected", "delivering"} => cur[p] = None
        /\ pc[p] \in {"accepted", "refused"} => cur[p] \in batch[p]

(* A lock has one owner. *)
LocksApart ==
    \A p, q \in Pumps :
        p # q /\ pc[p] = "selected" /\ pc[q] = "selected" => batch[p] \cap batch[q] = {}

(* What the table says of the rows a run has. *)
ClaimedRows ==
    \A p \in Pumps : \A e \in batch[p] :
        /\ pc[p] = "selected" => status[e] = "pending"
        /\ e \notin overwritten =>
              /\ e \notin orphaned
              /\ pc[p] \in Delivering => status[e] = "sending"

(* Every "sending" row has an owner, dead or alive. *)
OwnedRows ==
    \A e \in Emails \ overwritten :
        /\ e \in orphaned => status[e] = "sending"
        /\ status[e] = "sending" => (e \in orphaned \/ \E p \in Pumps : Holds(p, e))

(* A retry in progress is about a row that exists, and that is still       *)
(* "failed" unless another retry has been written since.                   *)
RetriesFailed ==
    /\ \A a \in Admins : editing[a] # None =>
        /\ status[editing[a]] # "absent"
        /\ a \notin overtaken /\ editing[a] \notin overwritten => status[editing[a]] = "failed"
    /\ \A e \in overwritten : status[e] # "absent"

(* The row's count, the run's copy of it and the true number of hand-overs. *)
Counted ==
    /\ \A e \in Emails : status[e] = "pending" => attempts[e] < MaxAttempts
    /\ \A e \in Emails \ overwritten :
        /\ tries[e] <= MaxAttempts
        /\ status[e] = "absent" => tries[e] = 0 /\ attempts[e] = 0
        /\ status[e] = "pending" => tries[e] = attempts[e]
        /\ status[e] = "failed" => tries[e] = MaxAttempts
    /\ \A p \in Pumps : \A e \in batch[p] :
        /\ loaded[p][e] < MaxAttempts
        /\ e \notin overwritten =>
              tries[e] = loaded[p][e] + (IF e = cur[p] THEN 1 ELSE 0)

(* Where a message whose acceptance is known can be. *)
ConfirmedRows ==
    /\ \A e \in Emails \ overwritten :
        /\ status[e] = "sent" => e \in confirmed
        /\ e \in confirmed => status[e] \in {"sending", "sent"}
    /\ \A p \in Pumps : \A e \in batch[p] \ overwritten :
        e \in confirmed <=> (pc[p] = "accepted" /\ e = cur[p])

IInv ==
    /\ TypeOK
    /\ RunShape
    /\ LocksApart
    /\ ClaimExclusive
    /\ ClaimedRows
    /\ OwnedRows
    /\ RetriesFailed
    /\ Counted
    /\ ConfirmedRows

-----------------------------------------------------------------------------
LEMMA InitIInv == Init => IInv
<1> SUFFICES ASSUME Init PROVE IInv
  OBVIOUS
<1> USE OutboxAssumption DEF Init
<1>1. TypeOK
  BY DEF TypeOK, Statuses, Delivering
<1>2. RunShape /\ LocksApart /\ ClaimExclusive /\ ClaimedRows
  BY DEF RunShape, LocksApart, ClaimExclusive, ClaimedRows, Delivering
<1>3. OwnedRows /\ RetriesFailed /\ Counted /\ ConfirmedRows
  BY DEF OwnedRows, RetriesFailed, Counted, ConfirmedRows
<1>4. QED
  BY <1>1, <1>2, <1>3 DEF IInv

LEMMA EnqueueIInv == ASSUME IInv, NEW e \in Emails, Enqueue(e) PROVE IInv'
<1> USE OutboxAssumption DEF IInv, Enqueue, runs, retries, history, TypeOK
<1>1. TypeOK'
  BY DEF Statuses
<1>2. RunShape' /\ LocksApart' /\ ClaimExclusive' /\ ClaimedRows'
  BY DEF RunShape, LocksApart, ClaimExclusive, ClaimedRows, Delivering
<1>3. OwnedRows'
  BY DEF OwnedRows, Holds
<1>4. RetriesFailed'
  BY DEF RetriesFailed
<1>5. Counted' /\ ConfirmedRows'
  BY DEF Counted, ConfirmedRows, ClaimedRows, RetriesFailed, Delivering
<1>6. QED
  BY <1>1, <1>2, <1>3, <1>4, <1>5

LEMMA SelectBatchIInv == ASSUME IInv, NEW p \in Pumps, SelectBatch(p) PROVE IInv'
<1> USE OutboxAssumption DEF IInv, SelectBatch, table, history, retries, TypeOK
<1>0. PICK S \in SUBSET Emails :
        /\ S \subseteq Due
        /\ batch' = [batch EXCEPT ![p] = S]
        /\ loaded' = [loaded EXCEPT ![p] =
                        [e \in Emails |-> IF e \in S THEN attempts[e] ELSE 0]]
  BY DEF IsBatch
<1>1. TypeOK'
  BY <1>0
<1>2. RunShape'
  BY <1>0 DEF RunShape
<1>3. LocksApart' /\ ClaimExclusive' /\ ClaimedRows'
  BY <1>0 DEF LocksApart, ClaimExclusive, ClaimedRows, Due, Locked, OwnedRows, RunShape, Delivering
<1>4. OwnedRows' /\ RetriesFailed'
  BY <1>0 DEF OwnedRows, RetriesFailed, Holds, Delivering
<1>5. Counted'
  BY <1>0 DEF Counted, Due, RunShape
<1>6. ConfirmedRows'
  BY <1>0 DEF ConfirmedRows, Due, RunShape
<1>7. QED
  BY <1>1, <1>2, <1>3, <1>4, <1>5, <1>6

LEMMA PublishClaimIInv == ASSUME IInv, NEW p \in Pumps, PublishClaim(p) PROVE IInv'
<1> USE OutboxAssumption DEF IInv, PublishClaim, history, retries, TypeOK
<1>1. TypeOK'
  BY DEF Statuses, Delivering
<1>2. RunShape' /\ LocksApart' /\ ClaimExclusive'
  BY DEF RunShape, LocksApart, ClaimExclusive
<1>3. ClaimedRows'
  BY DEF ClaimedRows, LocksApart, ClaimExclusive, Delivering
<1>4. OwnedRows'
  BY DEF OwnedRows, ClaimedRows, Holds, Delivering
<1>5. RetriesFailed'
  BY DEF RetriesFailed, ClaimedRows
<1>6. Counted'
  BY DEF Counted, ClaimedRows, RunShape
<1>7. ConfirmedRows'
  BY DEF ConfirmedRows, ClaimedRows
<1>8. QED
  BY <1>1, <1>2, <1>3, <1>4, <1>5, <1>6, <1>7

LEMMA HandOverIInv ==
  ASSUME IInv, NEW p \in Pumps, NEW e \in Emails,
         NEW answer \in {"accepted", "refused"}, HandOver(p, e, answer)
  PROVE  IInv'
<1> USE OutboxAssumption DEF IInv, HandOver, table, retries, TypeOK
<1>1. TypeOK'
  BY DEF Delivering
<1>2. RunShape' /\ LocksApart' /\ ClaimExclusive'
  BY DEF RunShape, LocksApart, ClaimExclusive
<1>3. ClaimedRows'
  BY DEF ClaimedRows, Delivering
<1>4. OwnedRows' /\ RetriesFailed'
  BY DEF OwnedRows, RetriesFailed, Holds, Delivering
<1>5. Counted'
  BY DEF Counted, ClaimedRows, ClaimExclusive, RunShape, Delivering
<1>6. ConfirmedRows'
  BY DEF ConfirmedRows, ClaimedRows, ClaimExclusive, RunShape, Delivering
<1>7. QED
  BY <1>1, <1>2, <1>3, <1>4, <1>5, <1>6

(* What the end of one loop iteration does to the runs. *)
AdvanceResult(p) ==
    /\ pc' \in [Pumps -> {"idle", "selected"} \cup Delivering]
    /\ batch' \in [Pumps -> SUBSET Emails]
    /\ cur' \in [Pumps -> Emails \cup {None}]
    /\ loaded' \in [Pumps -> [Emails -> 0..MaxAttempts]]
    /\ cur'[p] = None
    /\ batch'[p] = batch[p] \ {cur[p]}
    /\ pc'[p] \in {"idle", "delivering"}
    /\ pc'[p] = "idle" <=> batch'[p] = {}
    /\ \A e \in batch'[p] : loaded'[p][e] = loaded[p][e]
    /\ \A q \in Pumps : q # p =>
          /\ pc'[q] = pc[q]
          /\ batch'[q] = batch[q]
          /\ cur'[q] = cur[q]
          /\ loaded'[q] = loaded[q]

LEMMA AdvanceEffect ==
  ASSUME TypeOK, NEW p \in Pumps, Advance(p), cur[p] \in batch[p]
  PROVE  AdvanceResult(p)
<1> USE OutboxAssumption DEF TypeOK
<1>1. CASE batch[p] = {cur[p]}
  <2>1. /\ pc' = [pc EXCEPT ![p] = "idle"]
        /\ loaded' = [loaded EXCEPT ![p] = [e \in Emails |-> 0]]
    BY <1>1 DEF Advance
  <2>2. batch[p] \ {cur[p]} = {}
    BY <1>1
  <2>3. QED
    BY <2>1, <2>2 DEF Advance, AdvanceResult
<1>2. CASE batch[p] # {cur[p]}
  <2> DEFINE row == [loaded[p] EXCEPT ![cur[p]] = 0]
  <2>1. row \in [Emails -> 0..MaxAttempts] /\ loaded' = [loaded EXCEPT ![p] = row]
    BY <1>2 DEF Advance
  <2>2. \A e \in batch[p] \ {cur[p]} : row[e] = loaded[p][e]
    OBVIOUS
  <2> HIDE DEF row
  <2>3. pc' = [pc EXCEPT ![p] = "delivering"] /\ batch[p] \ {cur[p]} # {}
    BY <1>2 DEF Advance
  <2>4. QED
    BY <2>1, <2>2, <2>3 DEF Advance, Delivering, AdvanceResult
<1>3. QED
  BY <1>1, <1>2

LEMMA MarkSentIInv == ASSUME IInv, NEW p \in Pumps, MarkSent(p) PROVE IInv'
<1> USE OutboxAssumption DEF IInv, MarkSent, history, retries, TypeOK
<1>0. /\ cur[p] \in batch[p] /\ cur[p] \in Emails
      /\ cur[p] \notin overwritten =>
           status[cur[p]] = "sending" /\ cur[p] \notin orphaned
      /\ \A q \in Pumps : pc[q] = "selected" => cur[p] \notin batch[q]
  BY DEF RunShape, ClaimedRows, Delivering, Locked
<1>1. AdvanceResult(p)
  BY <1>0, AdvanceEffect
<1>2. TypeOK'
  BY <1>0, <1>1 DEF Statuses, AdvanceResult
<1>3. RunShape' /\ LocksApart' /\ ClaimExclusive'
  BY <1>0 DEF Advance, RunShape, LocksApart, ClaimExclusive
<1>4. ClaimedRows'
  BY <1>0 DEF Advance, ClaimedRows, ClaimExclusive, Delivering
<1>5. OwnedRows'
  <2> SUFFICES ASSUME NEW e \in Emails \ overwritten'
               PROVE  /\ e \in orphaned' => status'[e] = "sending"
                      /\ status'[e] = "sending" =>
                           (e \in orphaned' \/ \E q \in Pumps : Holds(q, e)')
    BY DEF OwnedRows
  <2>1. CASE e = cur[p]
    BY <1>0, <2>1
  <2>2. ASSUME NEW q \in Pumps, Holds(q, e), e # cur[p]
        PROVE  Holds(q, e)'
    BY <1>1, <2>2 DEF AdvanceResult, Holds, Delivering
  <2>3. CASE e # cur[p]
    BY <1>0, <2>2, <2>3 DEF OwnedRows
  <2>4. QED
    BY <2>1, <2>3
<1>6. RetriesFailed'
  BY <1>0 DEF Advance, RetriesFailed
<1>7. Counted'
  BY <1>0 DEF Advance, Counted, RunShape
<1>8. ConfirmedRows'
  BY <1>0 DEF Advance, ConfirmedRows, RunShape
<1>9. QED
  BY <1>2, <1>3, <1>4, <1>5, <1>6, <1>7, <1>8

LEMMA MarkFailedIInv == ASSUME IInv, NEW p \in Pumps, MarkFailed(p) PROVE IInv'
<1> USE OutboxAssumption DEF IInv, TypeOK
<1>0. /\ cur[p] \in batch[p] /\ cur[p] \in Emails
      /\ loaded[p][cur[p]] + 1 \in 1..MaxAttempts
      /\ cur[p] \notin overwritten =>
           /\ status[cur[p]] = "sending" /\ cur[p] \notin orphaned
           /\ tries[cur[p]] = loaded[p][cur[p]] + 1
           /\ cur[p] \notin confirmed
      /\ \A q \in Pumps : pc[q] = "selected" => cur[p] \notin batch[q]
  <2>1. cur[p] \in batch[p]
    BY DEF RunShape, MarkFailed
  <2>2. QED
    BY <2>1 DEF ClaimedRows, Delivering, Counted, ConfirmedRows, MarkFailed, Locked
<1>a. /\ attempts' = [attempts EXCEPT ![cur[p]] = loaded[p][cur[p]] + 1]
      /\ \/ /\ loaded[p][cur[p]] + 1 = MaxAttempts
            /\ status' = [status EXCEPT ![cur[p]] = "failed"]
            /\ waiting' = waiting
         \/ /\ loaded[p][cur[p]] + 1 < MaxAttempts
            /\ status' = [status EXCEPT ![cur[p]] = "pending"]
            /\ waiting' = waiting \cup {cur[p]}
      /\ Advance(p)
      /\ UNCHANGED <<editing, overtaken, overwritten, crashes, requeues, tries, confirmed,
                     orphaned>>
  BY <1>0 DEF MarkFailed, history, retries
<1>1. AdvanceResult(p)
  BY <1>0, <1>a, AdvanceEffect
<1>2. TypeOK'
  <2>1. attempts' \in [Emails -> 0..MaxAttempts]
    BY <1>0, <1>a
  <2>2. status' \in [Emails -> Statuses] /\ waiting' \in SUBSET Emails
    BY <1>0, <1>a DEF Statuses
  <2>3. QED
    BY <1>a, <1>1, <2>1, <2>2 DEF AdvanceResult
<1>3. RunShape' /\ LocksApart' /\ ClaimExclusive'
  BY <1>0, <1>a DEF Advance, RunShape, LocksApart, ClaimExclusive
<1>4. ClaimedRows'
  <2>1. ASSUME NEW q \in Pumps, NEW e \in batch'[q]
        PROVE  /\ e \in batch[q]
               /\ e = cur[p] => e \in overwritten /\ pc'[q] # "selected"
               /\ pc'[q] = pc[q] \/ (q = p /\ pc'[q] = "delivering")
    BY <1>0, <1>1 DEF AdvanceResult, ClaimExclusive
  <2>2. QED
    BY <1>0, <1>a, <1>1, <2>1 DEF ClaimedRows, Delivering, AdvanceResult, MarkFailed
<1>5. OwnedRows'
  <2> SUFFICES ASSUME NEW e \in Emails \ overwritten'
               PROVE  /\ e \in orphaned' => status'[e] = "sending"
                      /\ status'[e] = "sending" =>
                           (e \in orphaned' \/ \E q \in Pumps : Holds(q, e)')
    BY DEF OwnedRows
  <2>1. CASE e = cur[p]
    BY <1>0, <1>a, <2>1
  <2>2. ASSUME NEW q \in Pumps, Holds(q, e), e # cur[p]
        PROVE  Holds(q, e)'
    BY <1>1, <2>2 DEF AdvanceResult, Holds, Delivering
  <2>3. CASE e # cur[p]
    BY <1>0, <1>a, <2>2, <2>3 DEF OwnedRows
  <2>4. QED
    BY <2>1, <2>3
<1>6. RetriesFailed'
  BY <1>0, <1>a DEF Advance, RetriesFailed
<1>7. Counted'
  <2>1. ASSUME NEW e \in Emails
        PROVE  /\ status'[e] = "pending" => attempts'[e] < MaxAttempts
               /\ e \notin overwritten' =>
                    /\ tries'[e] <= MaxAttempts
                    /\ status'[e] = "absent" => tries'[e] = 0 /\ attempts'[e] = 0
                    /\ status'[e] = "pending" => tries'[e] = attempts'[e]
                    /\ status'[e] = "failed" => tries'[e] = MaxAttempts
    BY <1>0, <1>a DEF Counted
  <2>2. ASSUME NEW q \in Pumps, NEW e \in batch'[q]
        PROVE  /\ loaded'[q][e] < MaxAttempts
               /\ e \notin overwritten' =>
                    tries'[e] = loaded'[q][e] + (IF e = cur'[q] THEN 1 ELSE 0)
    <3>1. CASE q = p
      BY <1>0, <1>a, <1>1, <3>1, OutboxAssumption DEF AdvanceResult, Counted
    <3>2. CASE q # p
      BY <1>a, <1>1, <3>2 DEF AdvanceResult, Counted
    <3>3. QED
      BY <3>1, <3>2
  <2>3. QED
    BY <2>1, <2>2 DEF Counted
<1>8. ConfirmedRows'
  BY <1>0, <1>a DEF Advance, ConfirmedRows, RunShape
<1>9. QED
  BY <1>2, <1>3, <1>4, <1>5, <1>6, <1>7, <1>8

LEMMA DieIInv == ASSUME IInv, NEW p \in Pumps, Die(p) PROVE IInv'
<1> USE OutboxAssumption DEF IInv, Die, table, retries, TypeOK
<1>1. TypeOK'
  OBVIOUS
<1>2. RunShape' /\ LocksApart' /\ ClaimExclusive'
  BY DEF RunShape, LocksApart, ClaimExclusive
<1>3. ClaimedRows'
  BY DEF ClaimedRows, ClaimExclusive, Delivering
<1>4. OwnedRows'
  BY DEF OwnedRows, ClaimedRows, Holds, Delivering
<1>5. RetriesFailed' /\ Counted' /\ ConfirmedRows'
  BY DEF RetriesFailed, Counted, ConfirmedRows
<1>6. QED
  BY <1>1, <1>2, <1>3, <1>4, <1>5

LEMMA BackoffElapsesIInv == ASSUME IInv, NEW e \in Emails, BackoffElapses(e) PROVE IInv'
BY OutboxAssumption
   DEF IInv, BackoffElapses, runs, history, retries, TypeOK, RunShape, LocksApart, ClaimExclusive, ClaimedRows,
       OwnedRows, Holds, RetriesFailed, Counted, ConfirmedRows

LEMMA RequeueReadIInv ==
  ASSUME IInv, NEW a \in Admins, NEW e \in Emails, RequeueRead(a, e)
  PROVE  IInv'
BY OutboxAssumption
   DEF IInv, RequeueRead, table, retries, runs, TypeOK, RunShape, LocksApart, ClaimExclusive, ClaimedRows,
       OwnedRows, Holds, RetriesFailed, Counted, ConfirmedRows

LEMMA RequeueWriteIInv == ASSUME IInv, NEW a \in Admins, RequeueWrite(a) PROVE IInv'
<1> DEFINE e == editing[a]
<1> USE OutboxAssumption DEF IInv, RequeueWrite, runs, TypeOK
<1>0. /\ e \in Emails /\ status[e] # "absent"
      /\ e \notin Locked
      /\ overwritten \subseteq overwritten' /\ overwritten' \subseteq overwritten \cup {e}
      /\ e \notin overwritten' => e \notin overwritten /\ status[e] = "failed"
  BY DEF RetriesFailed
<1>a. e \notin overwritten' => e \notin orphaned /\ \A p \in Pumps : e \notin batch[p]
  BY <1>0 DEF OwnedRows, ClaimedRows, RunShape, Delivering
<1>b. \A p \in Pumps : pc[p] = "selected" => e \notin batch[p]
  BY <1>0 DEF Locked
<1>1. TypeOK'
  BY <1>0 DEF Statuses
<1>2. RunShape' /\ LocksApart' /\ ClaimExclusive'
  BY <1>0 DEF RunShape, LocksApart, ClaimExclusive
<1>3. ClaimedRows' /\ OwnedRows'
  BY <1>0, <1>a, <1>b DEF ClaimedRows, OwnedRows, Holds
<1>4. RetriesFailed'
  BY <1>0 DEF RetriesFailed
<1>5. Counted' /\ ConfirmedRows'
  BY <1>0, <1>a DEF Counted, ConfirmedRows
<1>6. QED
  BY <1>1, <1>2, <1>3, <1>4, <1>5

LEMMA NextIInv == ASSUME IInv, [Next]_vars PROVE IInv'
<1>1. ASSUME NEW e \in Emails, Enqueue(e) PROVE IInv'
  BY <1>1, EnqueueIInv
<1>2. ASSUME NEW e \in Emails, BackoffElapses(e) PROVE IInv'
  BY <1>2, BackoffElapsesIInv
<1>3. ASSUME NEW p \in Pumps, PumpStep(p) PROVE IInv'
  BY <1>3, SelectBatchIInv, PublishClaimIInv, HandOverIInv, MarkSentIInv, MarkFailedIInv
     DEF PumpStep
<1>4. ASSUME NEW p \in Pumps, Die(p) PROVE IInv'
  BY <1>4, DieIInv
<1>5. ASSUME NEW a \in Admins, NEW e \in Emails, RequeueRead(a, e) PROVE IInv'
  BY <1>5, RequeueReadIInv
<1>6. ASSUME NEW a \in Admins, RequeueWrite(a) PROVE IInv'
  BY <1>6, RequeueWriteIInv
<1>7. CASE UNCHANGED vars
  BY <1>7 DEF vars, IInv, TypeOK, RunShape, LocksApart, ClaimExclusive, ClaimedRows, OwnedRows, Holds,
              RetriesFailed, Counted, ConfirmedRows
<1>8. QED
  BY <1>1, <1>2, <1>3, <1>4, <1>5, <1>6, <1>7 DEF Next

(* The inductive invariant holds of every reachable state. *)
THEOREM OutboxInductive == Spec => []IInv
<1>1. Init => IInv
  BY InitIInv
<1>2. IInv /\ [Next]_vars => IInv'
  BY NextIInv
<1>3. QED
  BY <1>1, <1>2, PTL DEF Spec

(* Type correctness, for every instance. *)
THEOREM OutboxTypeCorrect == Spec => []TypeOK
BY OutboxInductive, PTL DEF IInv

(* claim_batch: SKIP LOCKED and the published flip keep any number of      *)
(* overlapping pumps from ever having the same row.                        *)
THEOREM OutboxClaimExclusive == Spec => []ClaimExclusive
BY OutboxInductive, PTL DEF IInv

(* No path of the pump, a crash included, loses track of a "sending" row.  *)
THEOREM OutboxSendingAccounted == Spec => []SendingAccounted
<1>1. IInv => SendingAccounted
  BY DEF IInv, OwnedRows, ClaimedRows, SendingAccounted, Holds, TypeOK
<1>2. QED
  BY <1>1, OutboxInductive, PTL

(* Both at once: the rows are in one pair of hands each, none forgotten.   *)
THEOREM OutboxClaimsAccounted == Spec => []ClaimsAccounted
BY OutboxClaimExclusive, OutboxSendingAccounted, PTL DEF ClaimsAccounted

(* mark_failed gives up after exactly MaxAttempts hand-overs of a round.   *)
THEOREM OutboxGivesUpOnTime == Spec => []GivesUpOnTime
<1>1. IInv => GivesUpOnTime
  BY DEF IInv, Counted, GivesUpOnTime
<1>2. QED
  BY <1>1, OutboxInductive, PTL

-----------------------------------------------------------------------------
(* Which promised step each step of the pumps and the admins is. *)

LEMMA PromiseInit == Init => Promise!Init
BY DEF Init, Promise!Init, Phase

LEMMA EnqueuePromised ==
  ASSUME IInv, NEW e \in Emails, Enqueue(e) PROVE Promise!Submit(e)
BY DEF IInv, TypeOK, ConfirmedRows, RetriesFailed, Enqueue, history, retries,
       Promise!Submit, Phase

LEMMA HandOverPromised ==
  ASSUME IInv, NEW p \in Pumps, NEW e \in Emails,
         NEW answer \in {"accepted", "refused"}, HandOver(p, e, answer)
  PROVE  Promise!Attempt(e) \/ Promise!Unbound(e)
<1> USE DEF IInv, TypeOK, HandOver, table, retries
<1>1. CASE e \in overwritten
  <2>1. Phase' = Phase /\ Phase[e] = "void"
    BY <1>1 DEF Phase
  <2>2. QED
    BY <2>1 DEF Promise!Unbound
<1>2. CASE e \notin overwritten
  <2>1. /\ status[e] = "sending" /\ e \notin confirmed
        /\ tries[e] < MaxAttempts
    BY <1>2, OutboxAssumption DEF ClaimedRows, ConfirmedRows, Counted, RunShape, Delivering
  <2>2. Phase[e] = "queued"
    BY <1>2, <2>1 DEF Phase
  <2>3. Phase' = [Phase EXCEPT ![e] = IF answer = "accepted" THEN "delivered" ELSE "queued"]
    BY <1>2, <2>1 DEF Phase
  <2>4. QED
    BY <2>1, <2>2, <2>3 DEF Promise!Attempt
<1>3. QED
  BY <1>1, <1>2

LEMMA MarkFailedPromised ==
  ASSUME IInv, NEW p \in Pumps, MarkFailed(p)
  PROVE  Promise!Abandon(cur[p]) \/ UNCHANGED Promise!pvars
<1> USE DEF IInv, TypeOK
<1> DEFINE e == cur[p]
<1>1. /\ e \in batch[p] /\ e \in Emails /\ loaded[p][e] + 1 \in 1..MaxAttempts
      /\ e \notin overwritten =>
           status[e] = "sending" /\ e \notin confirmed /\ tries[e] = loaded[p][e] + 1
  BY OutboxAssumption DEF RunShape, ClaimedRows, ConfirmedRows, Counted, Delivering, MarkFailed
<1>2. UNCHANGED <<tries, confirmed, overwritten>>
  BY DEF MarkFailed, history, retries
<1>3. \/ loaded[p][e] + 1 = MaxAttempts /\ status' = [status EXCEPT ![e] = "failed"]
      \/ status' = [status EXCEPT ![e] = "pending"]
  BY <1>1, OutboxAssumption DEF MarkFailed
<1>4. CASE e \in overwritten
  BY <1>1, <1>2, <1>3, <1>4 DEF Promise!pvars, Phase
<1>5. CASE e \notin overwritten
  <2>1. CASE loaded[p][e] + 1 = MaxAttempts /\ status' = [status EXCEPT ![e] = "failed"]
    BY <1>1, <1>2, <1>5, <2>1 DEF Promise!Abandon, Phase
  <2>2. CASE status' = [status EXCEPT ![e] = "pending"]
    BY <1>1, <1>2, <1>5, <2>2 DEF Promise!pvars, Phase
  <2>3. QED
    BY <1>3, <2>1, <2>2
<1>6. QED
  BY <1>4, <1>5

LEMMA RequeueWritePromised ==
  ASSUME IInv, NEW a \in Admins, RequeueWrite(a)
  PROVE  \/ Promise!Reopen(editing[a])
         \/ Promise!ReopenLate(editing[a])
         \/ Promise!Unbound(editing[a])
<1> DEFINE e == editing[a]
<1> USE DEF IInv, TypeOK, RequeueWrite
<1>1. e \in Emails /\ status[e] # "absent" /\ tries' = [tries EXCEPT ![e] = 0]
  BY DEF RetriesFailed
<1>2. CASE e \in overwritten
  <2>1. Phase' = Phase /\ Phase[e] = "void"
    BY <1>1, <1>2 DEF Phase
  <2>2. QED
    BY <1>1, <2>1 DEF Promise!Unbound
<1>3. CASE e \notin overwritten /\ status[e] = "failed"
  <2>1. e \notin confirmed /\ overwritten' = overwritten
    BY <1>1, <1>3 DEF ConfirmedRows
  <2>2. confirmed' = confirmed /\ status' = [status EXCEPT ![e] = "pending"]
    OBVIOUS
  <2>3. Phase[e] = "abandoned"
    BY <1>1, <1>3, <2>1 DEF Phase
  <2>4. Phase'[e] = "queued"
    BY <1>1, <1>3, <2>1, <2>2 DEF Phase
  <2>5. \A f \in Emails \ {e} : Phase'[f] = Phase[f]
    BY <1>1, <2>1, <2>2 DEF Phase
  <2>6. Phase' = [Phase EXCEPT ![e] = "queued"]
    <3>1. Phase = [f \in Emails |-> Phase[f]] /\ Phase' = [f \in Emails |-> Phase'[f]]
      BY DEF Phase
    <3> HIDE DEF Phase
    <3>2. QED
      BY <1>1, <3>1, <2>4, <2>5
  <2>7. QED
    BY <1>1, <2>3, <2>6 DEF Promise!Reopen
<1>4. CASE e \notin overwritten /\ status[e] # "failed"
  <2>1. overwritten' = overwritten \cup {e}
    BY <1>1, <1>4 DEF RetriesFailed
  <2>2. Phase[e] \in {"queued", "delivered"} /\ Phase' = [Phase EXCEPT ![e] = "void"]
    BY <1>1, <1>4, <2>1 DEF Phase
  <2>3. QED
    BY <1>1, <2>2 DEF Promise!ReopenLate
<1>5. QED
  BY <1>2, <1>3, <1>4

LEMMA SilentSteps ==
  ASSUME IInv, [Next]_vars,
         ~ \E e \in Emails : Enqueue(e),
         ~ \E p \in Pumps, e \in Emails, answer \in {"accepted", "refused"} :
               HandOver(p, e, answer),
         ~ \E p \in Pumps : MarkFailed(p),
         ~ \E a \in Admins : RequeueWrite(a)
  PROVE  UNCHANGED Promise!pvars
<1> USE DEF IInv, TypeOK, Promise!pvars
<1>1. ASSUME NEW e \in Emails, BackoffElapses(e) PROVE UNCHANGED Promise!pvars
  BY <1>1 DEF BackoffElapses, history, retries, Phase
<1>2. ASSUME NEW p \in Pumps, SelectBatch(p) PROVE UNCHANGED Promise!pvars
  BY <1>2 DEF SelectBatch, table, history, retries, Phase
<1>3. ASSUME NEW p \in Pumps, PublishClaim(p) PROVE UNCHANGED Promise!pvars
  <2>1. \A e \in Emails : status'[e] = IF e \in batch[p] THEN "sending" ELSE status[e]
    BY <1>3 DEF PublishClaim
  <2>2. \A e \in batch[p] : status[e] = "pending"
    BY <1>3 DEF PublishClaim, ClaimedRows
  <2>3. UNCHANGED <<tries, confirmed, overwritten>>
    BY <1>3 DEF PublishClaim, history, retries
  <2>4. QED
    BY <2>1, <2>2, <2>3 DEF Phase
<1>4. ASSUME NEW p \in Pumps, MarkSent(p) PROVE UNCHANGED Promise!pvars
  <2>1. /\ cur[p] \in confirmed \cup overwritten
        /\ status' = [status EXCEPT ![cur[p]] = "sent"]
    BY <1>4 DEF MarkSent, ConfirmedRows, RunShape
  <2>2. UNCHANGED <<tries, confirmed, overwritten>>
    BY <1>4 DEF MarkSent, history, retries
  <2>3. QED
    BY <2>1, <2>2 DEF Phase
<1>5. ASSUME NEW p \in Pumps, Die(p) PROVE UNCHANGED Promise!pvars
  BY <1>5 DEF Die, table, retries, Phase
<1>6. ASSUME NEW a \in Admins, NEW e \in Emails, RequeueRead(a, e)
      PROVE  UNCHANGED Promise!pvars
  BY <1>6 DEF RequeueRead, table, retries, Phase
<1>7. CASE UNCHANGED vars
  BY <1>7 DEF vars, Phase
<1>8. QED
  BY <1>1, <1>2, <1>3, <1>4, <1>5, <1>6, <1>7 DEF Next, PumpStep

LEMMA NextPromised == ASSUME IInv, [Next]_vars PROVE [Promise!Next]_(Promise!pvars)
<1>1. CASE \E e \in Emails : Enqueue(e)
  BY <1>1, EnqueuePromised DEF Promise!Next
<1>2. CASE \E p \in Pumps, e \in Emails, answer \in {"accepted", "refused"} :
              HandOver(p, e, answer)
  BY <1>2, HandOverPromised DEF Promise!Next
<1>3. ASSUME NEW p \in Pumps, MarkFailed(p)
      PROVE  Promise!Next \/ UNCHANGED Promise!pvars
  <2>1. cur[p] \in Emails
    BY <1>3 DEF IInv, TypeOK, RunShape, MarkFailed
  <2>2. QED
    BY <1>3, <2>1, MarkFailedPromised DEF Promise!Next
<1>4. ASSUME NEW a \in Admins, RequeueWrite(a) PROVE Promise!Next
  <2>1. editing[a] \in Emails
    BY <1>4 DEF IInv, TypeOK, RequeueWrite
  <2>2. QED
    BY <1>4, <2>1, RequeueWritePromised DEF Promise!Next
<1>5. QED
  BY <1>1, <1>2, <1>3, <1>4, SilentSteps

(* The outbox and its pumps implement the promise of MailPromise: no       *)
(* message whose acceptance is known is handed over again, none is given   *)
(* up early or tried too often, whatever dies and is retried.              *)
THEOREM OutboxKeepsPromise == Spec => KeepsPromise
<1>1. Init => Promise!Init
  BY PromiseInit
<1>2. IInv /\ [Next]_vars => [Promise!Next]_(Promise!pvars)
  BY NextPromised
<1>3. QED
  BY <1>1, <1>2, OutboxInductive, PTL DEF Spec, KeepsPromise, Promise!Spec

=============================================================================
