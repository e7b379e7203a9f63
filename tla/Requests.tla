------------------------------ MODULE Requests ------------------------------
(***************************************************************************)
(* Requests of the API that overlap (app/db/session.py, get_db): each has  *)
(* a session of its own under READ COMMITTED, decides on what it has read, *)
(* and is committed at its end or rolled back.  A component takes a slot   *)
(* for a request when it has read, and gives it back with the write; what  *)
(* other requests commit in between, it does not see.                      *)
(***************************************************************************)
EXTENDS Naturals, Sequences, FiniteSets

CONSTANTS
    Slots,        \* the requests that may overlap
    None,
    MaxRequests   \* bound: requests

ASSUME RequestsAssumption == MaxRequests \in Nat

VARIABLES
    req,       \* each slot: None, or what its request has read
    begun,
    \* history (no code reads these)
    raced,     \* slots whose request has seen another one commit
    crossed,   \* the kinds of request that were committed when raced
    failed     \* the kinds of request that failed when not raced

requests == <<req, begun, raced, crossed, failed>>

RequestsInit ==
    /\ req = [s \in Slots |-> None] /\ begun = 0
    /\ raced = {} /\ crossed = {} /\ failed = {}

InFlight == {s \in Slots : req[s] # None}

(* A request has read all it decides on, and goes on.                      *)
Reads(s, r) ==
    /\ req[s] = None /\ begun < MaxRequests
    /\ req' = [req EXCEPT ![s] = r]
    /\ begun' = begun + 1
    /\ UNCHANGED <<raced, crossed, failed>>

(* ... reads on. *)
ReadsOn(s, r) ==
    /\ req' = [req EXCEPT ![s] = r]
    /\ UNCHANGED <<begun, raced, crossed, failed>>

Commits(s) ==
    /\ req' = [req EXCEPT ![s] = None]
    /\ raced' = (raced \cup InFlight) \ {s}
    /\ crossed' = IF s \in raced THEN crossed \cup {req[s].op} ELSE crossed
    /\ UNCHANGED <<begun, failed>>

(* A statement violates a constraint, or finds no row: 500, and a rollback. *)
Fails(s) ==
    /\ req' = [req EXCEPT ![s] = None]
    /\ raced' = raced \ {s}
    /\ failed' = IF s \in raced THEN failed ELSE failed \cup {req[s].op}
    /\ UNCHANGED <<begun, crossed>>

(* The request writes nothing after all. *)
Ends(s) ==
    /\ req' = [req EXCEPT ![s] = None]
    /\ raced' = raced \ {s}
    /\ UNCHANGED <<begun, crossed, failed>>

(* SQLAlchemy's unit of work writes the columns whose value differs from   *)
(* the one loaded.                                                         *)
Column(new, loaded, current) == IF new # loaded THEN new ELSE current
=============================================================================
