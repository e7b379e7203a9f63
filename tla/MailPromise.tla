----------------------------- MODULE MailPromise -----------------------------
(***************************************************************************)
(* What the outbox promises about each message, told without the table,   *)
(* the pumps or the locks: a message is submitted once; while it is queued *)
(* it is handed to the relay at most MaxAttempts times; once the relay's   *)
(* acceptance is known it is delivered and never handed over again; only   *)
(* when every attempt is used up is it abandoned, and only an abandoned    *)
(* message can be reopened for another round.  Reopening is not atomic:    *)
(* one that comes late, when another has reopened the message before it,   *)
(* voids the promise for this message and for no other.                    *)
(***************************************************************************)
EXTENDS Naturals

CONSTANTS
    Emails,
    MaxAttempts

VARIABLES
    phase,   \* "none", "queued", "delivered", "abandoned" or "void"
    tries    \* hand-overs in the current round

pvars == <<phase, tries>>

Init ==
    /\ phase = [e \in Emails |-> "none"]
    /\ tries = [e \in Emails |-> 0]

Submit(e) ==
    /\ phase[e] = "none"
    /\ phase' = [phase EXCEPT ![e] = "queued"]
    /\ UNCHANGED tries

(* One hand-over: its outcome decides whether the message stays queued. *)
Attempt(e) ==
    /\ phase[e] = "queued"
    /\ tries[e] < MaxAttempts
    /\ tries' = [tries EXCEPT ![e] = @ + 1]
    /\ \E outcome \in {"queued", "delivered"} :
          phase' = [phase EXCEPT ![e] = outcome]

Abandon(e) ==
    /\ phase[e] = "queued"
    /\ tries[e] = MaxAttempts
    /\ phase' = [phase EXCEPT ![e] = "abandoned"]
    /\ UNCHANGED tries

Reopen(e) ==
    /\ phase[e] = "abandoned"
    /\ phase' = [phase EXCEPT ![e] = "queued"]
    /\ tries' = [tries EXCEPT ![e] = 0]

(* A late reopening of a message that is under way again, or delivered. *)
ReopenLate(e) ==
    /\ phase[e] \in {"queued", "delivered"}
    /\ phase' = [phase EXCEPT ![e] = "void"]
    /\ tries' = [tries EXCEPT ![e] = 0]

(* What happens to a message nothing is promised of any more. *)
Unbound(e) ==
    /\ phase[e] = "void"
    /\ \E n \in {0, tries[e] + 1} : tries' = [tries EXCEPT ![e] = n]
    /\ UNCHANGED phase

Next ==
    \E e \in Emails :
        \/ Submit(e) \/ Attempt(e) \/ Abandon(e) \/ Reopen(e)
        \/ ReopenLate(e) \/ Unbound(e)

Spec == Init /\ [][Next]_pvars
=============================================================================
