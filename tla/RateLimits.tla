----------------------------- MODULE RateLimits -----------------------------
(***************************************************************************)
(* The fixed-window limit of an expensive operation (app/core/             *)
(* rate_limit.py): a counter in Redis, incremented by each request and     *)
(* given its expiry, in a second command, by the first of a window.  When  *)
(* Redis does not answer, the request is let through.                      *)
(***************************************************************************)
EXTENDS Naturals

CONSTANTS Limit

ASSUME LimitAssumption == Limit \in Nat \ {0}

VARIABLES
    hits,     \* the counter
    timed,    \* the counter expires
    \* history (no code reads it)
    untimed   \* the EXPIRE of this counter was lost

limits == <<hits, timed, untimed>>

LimitsInit == hits = 0 /\ timed = FALSE /\ untimed = FALSE

(* Fault: the counter is given its expiry when it has reached its limit.   *)
OpensWindowOnceExceeded(hit) == hit > Limit

(* The request that gives the counter its expiry. *)
OpensWindow(hit) == hit = 1

(* INCR. *)
Hit == hits' = hits + 1 /\ UNCHANGED <<timed, untimed>>

(* EXPIRE by the request that was counted as `hit'. *)
Expires(hit) == timed' = (timed \/ OpensWindow(hit)) /\ UNCHANGED <<hits, untimed>>

(* ... or the connection to Redis, or the process, is lost before it.      *)
NeverExpires(hit) == OpensWindow(hit) /\ untimed' = TRUE /\ UNCHANGED <<hits, timed>>

Exceeds(hit) == hit > Limit

(* The window is over: Redis drops the counter. *)
WindowCloses == timed /\ hits' = 0 /\ timed' = FALSE /\ untimed' = FALSE
=============================================================================
