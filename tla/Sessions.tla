------------------------------ MODULE Sessions ------------------------------
(***************************************************************************)
(* One account: the refresh tokens its devices hold and the links that     *)
(* reset its password (app/modules/auth/service.py, router.py,             *)
(* repository.py, models.py; the client of frontend/src/lib/auth).         *)
(*                                                                         *)
(* The session of a request is committed after its response is sent (the   *)
(* exit code of get_db): a device may hold, and use, a token no row stands *)
(* for yet.  Responses may be late or lost.  Tokens are numbered as they   *)
(* are generated; that they and the links expire is left out.              *)
(***************************************************************************)
EXTENDS Requests

CONSTANT Devices  \* browsers: the tabs of one share its cookie

(* How far a request is: the tokens it came with and has issued, the rows  *)
(* its UPDATE has seen, those it holds.                                    *)
AccountRequests ==
    [op : {"sign in", "refresh", "logout", "logout all", "forgot", "reset"},
     device : Devices, sent : Nat, issued : Nat,
     step : {"sent", "reused", "issued", "opened", "waiting", "answered"},
     seen : SUBSET ({"refresh_sessions", "auth_tokens"} \X Nat),
     holds : SUBSET ({"refresh_sessions", "auth_tokens"} \X Nat)]

ASSUME SessionsAssumption == IsFiniteSet(Devices) /\ None \notin AccountRequests

VARIABLES
    tokens,      \* refresh_sessions: [family, row, era], row as in RowStates
    cookie,      \* what each device holds: a token, or 0
    replies,     \* responses on their way: [to, token], 0 to clear the cookie
    links,       \* auth_tokens of purpose reset_password: [used, opened]
    \* history
    signOuts,    \* sign-outs of every device so far (era: those before the token)
    dismissed,   \* tokens a sign-out has revoked
    troubled     \* devices that sent two requests at once, or lost a response

account == <<tokens, cookie, replies, links, signOuts, dismissed, troubled>>

RowStates == {"uncommitted", "live", "revoked"}

Tokens == 1..Len(tokens)

Live == {t \in Tokens : tokens[t].row = "live"}

Family(f) == {t \in Live : tokens[t].family = f}

Usable == {i \in 1..Len(links) : ~links[i].used}

IsOfAccount(s) == req[s] # None /\ "holds" \in DOMAIN req[s]

SessionsTypeOK ==
    /\ tokens \in Seq([family : Nat \ {0}, row : RowStates, era : 0..signOuts])
    /\ \A t \in Tokens : tokens[t].family <= t
    /\ \A t \in Tokens : tokens[t].row = "uncommitted" <=>
          \E s \in Slots : IsOfAccount(s) /\ req[s].issued = t
    /\ cookie \in [Devices -> {0} \cup Tokens]
    /\ replies \subseteq [to : Devices, token : {0} \cup Tokens]
    /\ links \in Seq([used : BOOLEAN, opened : Nat])
    /\ signOuts \in Nat /\ dismissed \subseteq Tokens /\ troubled \subseteq Devices

(* Devices that have signed in, and perhaps a link in the inbox. *)
SessionsInit ==
    /\ RequestsInit
    /\ \E order \in [Devices -> 1..Cardinality(Devices)] :
        /\ \A d, e \in Devices : d # e => order[d] # order[e]
        /\ cookie = order
    /\ tokens = [t \in 1..Cardinality(Devices) |-> [family |-> t, row |-> "live", era |-> 0]]
    /\ replies = {} /\ links \in {<< >>, <<[used |-> FALSE, opened |-> 0]>>}
    /\ signOuts = 0 /\ dismissed = {} /\ troubled = {}

-----------------------------------------------------------------------------
(* Rows a request has written to it holds until it is committed.           *)
Held == UNION {req[s].holds : s \in {t \in Slots : IsOfAccount(t)}}

Rows(T) == {<<"refresh_sessions", t>> : t \in T}

Links(I) == {<<"auth_tokens", i>> : i \in I}

(* An UPDATE sees the rows of its snapshot, waits for whoever holds them,  *)
(* and writes to those its condition still is true of.                     *)
Sees(s, rows, step) ==
    ReadsOn(s, [req[s] EXCEPT !.seen = rows, !.step = step])

NobodyHolds(s) == req[s].seen \cap Held = {}

Outstanding == Rows(Live) \cup Links(Usable)

Holds(s, rows, issued) ==
    ReadsOn(s, [req[s] EXCEPT !.holds = @ \cup rows, !.issued = issued, !.step = "answered"])

RowsHeld(s) == {t \in Tokens : <<"refresh_sessions", t>> \in req[s].holds}

LinksHeld(s) == {i \in 1..Len(links) : <<"auth_tokens", i>> \in req[s].holds}

(* issue_session: a token and its row, in the family of another or its own. *)
Issue(family) ==
    tokens' = Append(tokens, [family |-> IF family = 0 THEN Len(tokens) + 1 ELSE family,
                              row |-> "uncommitted", era |-> signOuts])

NewToken == Len(tokens) + 1

Respond(d, t) == replies' = replies \cup {[to |-> d, token |-> t]}

(* The commit of a request that issued one token and revoked others.       *)
Stored(issued, revoked) ==
    [t \in Tokens |-> [tokens[t] EXCEPT !.row = IF t \in revoked THEN "revoked"
                                                ELSE IF t = issued THEN "live" ELSE @]]

(* A device has a request of its own under way, or an answer to one.       *)
Busy(d) ==
    \/ \E s \in Slots : IsOfAccount(s) /\ req[s].device = d
    \/ \E r \in replies : r.to = d

Sends(s, d, op) ==
    /\ Reads(s, [op |-> op, device |-> d, sent |-> cookie[d], step |-> "sent",
                 issued |-> 0, seen |-> {}, holds |-> {}])
    /\ troubled' = IF Busy(d) THEN troubled \cup {d} ELSE troubled
    /\ UNCHANGED <<tokens, cookie, replies, links, signOuts, dismissed>>

Is(s, op, step) == IsOfAccount(s) /\ req[s].op = op /\ req[s].step = step

-----------------------------------------------------------------------------
(* Signing in: login, verify_email, google_callback, switch_org; and me,   *)
(* whose token is never handed out, as if the response were lost.          *)
SignIn(s) ==
    /\ Is(s, "sign in", "sent")
    /\ Issue(0) /\ Respond(req[s].device, NewToken)
    /\ Holds(s, {}, NewToken)
    /\ UNCHANGED <<cookie, links, signOuts, dismissed, troubled>>

(* Fault: the session is never committed. *)
SignInUncommitted(s) ==
    /\ Is(s, "sign in", "answered")
    /\ Ends(s)
    /\ UNCHANGED account

SignInCommit(s) ==
    /\ Is(s, "sign in", "answered")
    /\ tokens' = Stored(req[s].issued, {})
    /\ Commits(s)
    /\ UNCHANGED <<cookie, replies, links, signOuts, dismissed, troubled>>

-----------------------------------------------------------------------------
(* refresh, rotate_session.                                                *)

(* No row has this token.  (The cookie is to be cleared, but the response  *)
(* of an exception is another one.)                                        *)
RefreshUnknown(s) ==
    /\ Is(s, "refresh", "sent")
    /\ tokens[req[s].sent].row = "uncommitted"
    /\ Ends(s)
    /\ UNCHANGED account

(* Fault: every device of the user is signed out. *)
OfTheSameUser(t) == Live

(* revoke_refresh_family: what descends from one login. *)
Descendants(t) == Family(tokens[t].family)

(* Reuse: the family is revoked ... *)
RefreshReuse(s) ==
    /\ Is(s, "refresh", "sent")
    /\ tokens[req[s].sent].row = "revoked"
    /\ Sees(s, Rows(Descendants(req[s].sent)), "reused")
    /\ UNCHANGED account

(* ... and that is committed, before the exception.                        *)
RefreshReused(s) ==
    /\ Is(s, "refresh", "reused") /\ NobodyHolds(s)
    /\ tokens' = Stored(0, {t \in Live : <<"refresh_sessions", t>> \in req[s].seen})
    /\ Commits(s)
    /\ UNCHANGED <<cookie, replies, links, signOuts, dismissed, troubled>>

(* A live token: its successor is inserted ... *)
RefreshIssue(s) ==
    /\ Is(s, "refresh", "sent")
    /\ tokens[req[s].sent].row = "live"
    /\ Issue(tokens[req[s].sent].family)
    /\ ReadsOn(s, [req[s] EXCEPT !.issued = NewToken, !.step = "issued"])
    /\ UNCHANGED <<cookie, replies, links, signOuts, dismissed, troubled>>

(* ... it is revoked itself, after whoever holds the row ... *)
RefreshRevoke(s) ==
    /\ Is(s, "refresh", "issued")
    /\ Rows({req[s].sent}) \cap Held = {}
    /\ Respond(req[s].device, req[s].issued)
    /\ Holds(s, Rows({req[s].sent}), req[s].issued)
    /\ UNCHANGED <<tokens, cookie, links, signOuts, dismissed, troubled>>

RefreshCommit(s) ==
    /\ Is(s, "refresh", "answered")
    /\ tokens' = Stored(req[s].issued, {req[s].sent})
    /\ Commits(s)
    /\ UNCHANGED <<cookie, replies, links, signOuts, dismissed, troubled>>

-----------------------------------------------------------------------------
(* Signing out: logout, of one device; logout_all.                         *)

SignsOut(s, step) == Is(s, "logout", step) \/ Is(s, "logout all", step)

SignOutBegins(s) ==
    /\ SignsOut(s, "sent")
    /\ Sees(s, Rows(IF req[s].op = "logout" THEN {req[s].sent} \cap Live ELSE Live), "waiting")
    /\ UNCHANGED account

SignOut(s) ==
    /\ SignsOut(s, "waiting") /\ NobodyHolds(s)
    /\ Respond(req[s].device, 0)
    /\ Holds(s, req[s].seen \cap Outstanding, 0)
    /\ UNCHANGED <<tokens, cookie, links, signOuts, dismissed, troubled>>

SignOutCommit(s) ==
    /\ SignsOut(s, "answered")
    /\ tokens' = Stored(0, RowsHeld(s))
    /\ dismissed' = dismissed \cup RowsHeld(s)
    /\ signOuts' = IF req[s].op = "logout all" THEN signOuts + 1 ELSE signOuts
    /\ Commits(s)
    /\ UNCHANGED <<cookie, replies, links, troubled>>

-----------------------------------------------------------------------------
(* Passwords.                                                              *)

(* forgot_password, create_action_token: every usable link is burnt ...    *)
ForgetBegins(s) ==
    /\ Is(s, "forgot", "sent")
    /\ Sees(s, Links(Usable), "waiting")
    /\ UNCHANGED account

Forget(s) ==
    /\ Is(s, "forgot", "waiting") /\ NobodyHolds(s)
    /\ Holds(s, req[s].seen \cap Outstanding, 0)
    /\ UNCHANGED account

(* ... for another one. *)
ForgetCommit(s) ==
    /\ Is(s, "forgot", "answered")
    /\ links' = Append([i \in 1..Len(links) |->
                          [links[i] EXCEPT !.used = @ \/ i \in LinksHeld(s)]],
                       [used |-> FALSE, opened |-> 0])
    /\ Commits(s)
    /\ UNCHANGED <<tokens, cookie, replies, signOuts, dismissed, troubled>>

(* reset_password: the link is found usable (consume_action_token) ...     *)
Open(s, i) ==
    /\ Is(s, "reset", "sent") /\ i \in Usable
    /\ Sees(s, Links({i}), "opened")
    /\ UNCHANGED account

(* The link is unknown, or was used.                                       *)
ResetRefused(s) == Is(s, "reset", "sent") /\ Ends(s) /\ UNCHANGED account

(* ... and used; every session is to be revoked ...                        *)
Consume(s) ==
    /\ Is(s, "reset", "opened") /\ NobodyHolds(s)
    /\ ReadsOn(s, [req[s] EXCEPT !.holds = @ \cup req[s].seen, !.seen = Rows(Live),
                                 !.step = "waiting"])
    /\ UNCHANGED account

(* ... and one is issued.                                                  *)
Reset(s) ==
    /\ Is(s, "reset", "waiting") /\ NobodyHolds(s)
    /\ Issue(0) /\ Respond(req[s].device, NewToken)
    /\ Holds(s, req[s].seen \cap Outstanding, NewToken)
    /\ UNCHANGED <<cookie, links, signOuts, dismissed, troubled>>

(* Fault: the session of this device only. *)
RevokedHere(s) == RowsHeld(s) \cap {req[s].sent}

Revoked(s) == RowsHeld(s)

(* Fault: the link stays good. *)
StaysUsable(s) ==
    [i \in 1..Len(links) |->
        [links[i] EXCEPT !.opened = IF i \in LinksHeld(s) THEN @ + 1 ELSE @]]

Consumed(s) ==
    [i \in 1..Len(links) |-> IF i \in LinksHeld(s)
                             THEN [used |-> TRUE, opened |-> links[i].opened + 1]
                             ELSE links[i]]

ResetCommit(s) ==
    /\ Is(s, "reset", "answered")
    /\ tokens' = [Stored(req[s].issued, Revoked(s)) EXCEPT ![req[s].issued].era = signOuts + 1]
    /\ links' = Consumed(s)
    /\ dismissed' = dismissed \cup Revoked(s)
    /\ signOuts' = signOuts + 1
    /\ Commits(s)
    /\ UNCHANGED <<cookie, replies, troubled>>

-----------------------------------------------------------------------------
(* A response arrives, or is lost. *)
Deliver(r) ==
    /\ r \in replies
    /\ cookie' = [cookie EXCEPT ![r.to] = r.token]
    /\ replies' = replies \ {r}
    /\ UNCHANGED <<requests, tokens, links, signOuts, dismissed, troubled>>

Lose(r) ==
    /\ r \in replies
    /\ replies' = replies \ {r}
    /\ troubled' = troubled \cup {r.to}
    /\ UNCHANGED <<requests, tokens, cookie, links, signOuts, dismissed>>

SessionsNext ==
    \/ \E s \in Slots, d \in Devices :
        \/ \E op \in {"sign in", "forgot", "reset"} : Sends(s, d, op)
        \/ cookie[d] # 0 /\ \E op \in {"refresh", "logout", "logout all"} : Sends(s, d, op)
    \/ \E s \in InFlight :
        \/ SignIn(s) \/ SignInCommit(s)
        \/ RefreshUnknown(s) \/ RefreshReuse(s) \/ RefreshReused(s)
        \/ RefreshIssue(s) \/ RefreshRevoke(s) \/ RefreshCommit(s)
        \/ SignOutBegins(s) \/ SignOut(s) \/ SignOutCommit(s)
        \/ ForgetBegins(s) \/ Forget(s) \/ ForgetCommit(s)
        \/ (\E i \in Usable : Open(s, i)) \/ ResetRefused(s)
        \/ Consume(s) \/ Reset(s) \/ ResetCommit(s)
    \/ \E r \in replies : Deliver(r) \/ Lose(r)

SessionsSpec == SessionsInit /\ [][SessionsNext]_<<account, requests>>

-----------------------------------------------------------------------------
(* A device that sends one request at a time and receives the responses    *)
(* stays signed in (auth/service.py:258-306): the token it holds is        *)
(* revoked only by a sign-out.  Reuse detection never mistakes another     *)
(* device, or a token used before its row is committed.                    *)
DevicesStaySignedIn ==
    \A d \in Devices \ troubled :
        ~Busy(d) /\ cookie[d] # 0 /\ tokens[cookie[d]].row = "revoked"
            => cookie[d] \in dismissed

(* A password reset and a logout-all sign out every device                 *)
(* (auth/service.py:317, 343-353): no live token is from before the last   *)
(* of them.  The exception: a token issued by a request that overlapped    *)
(* another one has no row the statement could see.                         *)
ResetSignsOut ==
    \/ \A t \in Live : tokens[t].era = signOuts
    \/ crossed \cap {"sign in", "refresh", "reset", "logout all"} # {}

(* "Burn any outstanding tokens so only the newest link works"             *)
(* (auth/repository.py:49), and works once (auth/service.py:96, 118).  The *)
(* exceptions: two requests for a link, or two uses of one, that overlap.  *)
LinksWorkOnce ==
    /\ Usable \subseteq {Len(links)} \/ "forgot" \in crossed
    /\ (\A i \in 1..Len(links) : links[i].opened <= 1) \/ "reset" \in crossed
=============================================================================
