------------------------------ MODULE Members ------------------------------
(***************************************************************************)
(* The members of one organization and the invitations to join it          *)
(* (app/modules/orgs/service.py, repository.py, models.py; the             *)
(* authorization of app/core/deps.py).                                     *)
(*                                                                         *)
(* A request is two steps of module Requests: one that reads and passes    *)
(* the guards, one that writes.  A request a guard refuses writes nothing  *)
(* and is no step.  Links are numbered in the order they are drawn; one    *)
(* no invitation carries any more opens nothing.                           *)
(***************************************************************************)
EXTENDS Requests

CONSTANT Users

Roles == {"admin", "member"}

Memberships == [id : Nat, role : Roles, active : BOOLEAN]

ASSUME MembersAssumption == IsFiniteSet(Users) /\ None \notin Memberships

VARIABLES
    members,      \* memberships: each user None, or [id, role, active]
    nextId,       \* of the next row of memberships
    invitations,  \* [to, role, link, accepted, revoked, expired], by id
    drawn,        \* links so far
    resent,       \* invitations resent in the second that passes
    \* history
    newest,       \* the last link mailed to each user, or 0
    dropped       \* users one of whose links was not mailed

organization == <<members, nextId, invitations, drawn, resent, newest, dropped>>

Opt(S) == S \cup {None}

IsMember(u) == members[u] # None /\ members[u].active

IsAdmin(u) == IsMember(u) /\ members[u].role = "admin"

Admins == {u \in Users : IsAdmin(u)}

Ids == 1..Len(invitations)

(* Invitation.is_pending. *)
IsPending(i) == ~invitations[i].accepted /\ ~invitations[i].revoked

Pending(u) == {i \in Ids : invitations[i].to = u /\ IsPending(i)}

MembersTypeOK ==
    /\ members \in [Users -> Opt(Memberships)]
    /\ nextId \in Nat
    /\ \A u \in Users : members[u] # None => members[u].id < nextId
    /\ invitations \in Seq([to : Users, role : Roles, link : Nat,
                            accepted : BOOLEAN, revoked : BOOLEAN, expired : BOOLEAN])
    /\ drawn \in Nat /\ newest \in [Users -> 0..drawn]
    /\ \A i \in Ids : invitations[i].link \in 1..drawn
    /\ resent \subseteq Ids /\ dropped \subseteq Users

(* create_organization, and the requests that made it what it is: some     *)
(* admins, and perhaps somebody disabled.                                  *)
MembersInit ==
    /\ \E founders \in (SUBSET Users) \ {{}}, out \in SUBSET Users :
        /\ founders \cap out = {}
        /\ members \in {[u \in Users |->
              IF u \in founders \cup out
              THEN [id |-> 0, role |-> "admin", active |-> u \in founders] ELSE None]}
    /\ nextId = 1 /\ invitations = << >> /\ drawn = 0 /\ resent = {}
    /\ newest = [u \in Users |-> 0] /\ dropped = {}

-----------------------------------------------------------------------------
(* Members.                                                                *)

(* Fault: disabled admins are counted. *)
CountsTheDisabled(u) ==
    IsAdmin(u) /\ Cardinality({v \in Users : members[v] # None /\ members[v].role = "admin"}) <= 1

(* _guard_last_admin. *)
IsLastAdmin(u) == IsAdmin(u) /\ Cardinality(Admins) <= 1

(* update_member: a role, a status, or both. *)
UpdateRead(s, by, u, role, active) ==
    /\ IsAdmin(by) /\ members[u] # None
    /\ role # None \/ active # None
    /\ u = by => role \in {None, members[u].role}
    /\ role = "member" \/ active = FALSE => ~IsLastAdmin(u)
    /\ Reads(s, [op |-> "update", to |-> u, loaded |-> members[u],
                 role |-> IF role = None THEN members[u].role ELSE role,
                 active |-> IF active = None THEN members[u].active ELSE active])
    /\ UNCHANGED organization

(* The UPDATE of a row as it was loaded, by its id: none when nothing      *)
(* changed, an error when the row is gone.                                 *)
Changes(r) == r.role # r.loaded.role \/ r.active # r.loaded.active

RowIsGone(r) ==
    Changes(r) /\ (members[r.to] = None \/ members[r.to].id # r.loaded.id)

Written(r) ==
    IF Changes(r)
    THEN [members EXCEPT ![r.to].role = Column(r.role, r.loaded.role, @),
                         ![r.to].active = Column(r.active, r.loaded.active, @)]
    ELSE members

UpdateWrite(s) ==
    /\ req[s].op = "update"
    /\ IF RowIsGone(req[s]) THEN Fails(s) /\ UNCHANGED members
       ELSE Commits(s) /\ members' = Written(req[s])
    /\ UNCHANGED <<nextId, invitations, drawn, resent, newest, dropped>>

(* remove_member: a DELETE, which may find nothing. *)
RemoveRead(s, by, u) ==
    /\ IsAdmin(by) /\ members[u] # None /\ ~IsLastAdmin(u)
    /\ Reads(s, [op |-> "remove", to |-> u, loaded |-> members[u]])
    /\ UNCHANGED organization

RemoveWrite(s) ==
    /\ req[s].op = "remove"
    /\ LET u == req[s].to
       IN  members' = IF members[u] # None /\ members[u].id = req[s].loaded.id
                      THEN [members EXCEPT ![u] = None] ELSE members
    /\ Commits(s)
    /\ UNCHANGED <<nextId, invitations, drawn, resent, newest, dropped>>

-----------------------------------------------------------------------------
(* Invitations.                                                            *)

(* A link is drawn, and mailed (_send_invitation_email) ... *)
Mail(u) ==
    /\ drawn' = drawn + 1
    /\ newest' = [newest EXCEPT ![u] = drawn + 1]
    /\ UNCHANGED dropped

(* ... unless the outbox has a message with its dedupe key. *)
Drop(u) ==
    /\ drawn' = drawn + 1
    /\ dropped' = dropped \cup {u}
    /\ UNCHANGED newest

(* invite_member: the pending invitation of this address is read ... *)
InviteRead(s, by, u, role) ==
    /\ IsAdmin(by) /\ ~IsMember(u)
    /\ Reads(s, [op |-> "invite", to |-> u, role |-> role, pending |-> Pending(u)])
    /\ UNCHANGED organization

(* ... revoked, and replaced, unless there is another one by then (the     *)
(* partial unique index).                                                  *)
InviteWrite(s) ==
    /\ req[s].op = "invite"
    /\ IF Pending(req[s].to) \subseteq req[s].pending
       THEN /\ invitations' = Append(
                  [i \in Ids |-> IF i \in req[s].pending
                                 THEN [invitations[i] EXCEPT !.revoked = TRUE]
                                 ELSE invitations[i]],
                  [to |-> req[s].to, role |-> req[s].role, link |-> drawn + 1,
                   accepted |-> FALSE, revoked |-> FALSE, expired |-> FALSE])
            /\ Mail(req[s].to)
            /\ Commits(s)
       ELSE Fails(s) /\ UNCHANGED <<invitations, drawn, newest, dropped>>
    /\ UNCHANGED <<members, nextId, resent>>

(* Fault: a resend mails the link there was before. *)
ResendsOldLink(i) == [invitations EXCEPT ![i].expired = FALSE]

Renewed(i) == [invitations EXCEPT ![i].link = drawn + 1, ![i].expired = FALSE]

(* resend_invitation: another link for an invitation read as pending. *)
ResendRead(s, by, i) ==
    /\ IsAdmin(by) /\ IsPending(i)
    /\ Reads(s, [op |-> "resend", invitation |-> i])
    /\ UNCHANGED organization

(* The dedupe key of a resend is its invitation and second. *)
ResendWrite(s) ==
    /\ req[s].op = "resend"
    /\ LET i == req[s].invitation
       IN  /\ invitations' = Renewed(i)
           /\ IF i \in resent THEN Drop(invitations[i].to) ELSE Mail(invitations[i].to)
           /\ resent' = resent \cup {i}
    /\ Commits(s)
    /\ UNCHANGED <<members, nextId>>

(* revoke_invitation, of one read as pending. *)
RevokeRead(s, by, i) ==
    /\ IsAdmin(by) /\ IsPending(i)
    /\ Reads(s, [op |-> "revoke", invitation |-> i])
    /\ UNCHANGED organization

RevokeWrite(s) ==
    /\ req[s].op = "revoke"
    /\ invitations' = [invitations EXCEPT ![req[s].invitation].revoked = TRUE]
    /\ Commits(s)
    /\ UNCHANGED <<members, nextId, drawn, resent, newest, dropped>>

(* Invitation.is_usable, or the replay of an accepted one. *)
Opens(i) ==
    /\ ~invitations[i].revoked
    /\ invitations[i].accepted \/ ~invitations[i].expired

(* accept_invitation, by the person it was sent to: nobody else gets       *)
(* further.                                                                *)
AcceptRead(s, i) ==
    /\ Opens(i)
    /\ LET u == invitations[i].to
       IN  Reads(s, [op |-> "accept", to |-> u, invitation |-> i,
                     role |-> IF IsMember(u) THEN members[u].role ELSE invitations[i].role,
                     active |-> TRUE, loaded |-> members[u]])
    /\ UNCHANGED organization

(* ... joins, is reinstated, or is a member already.                       *)
Join(r) ==
    /\ members' = [members EXCEPT ![r.to] = [id |-> nextId, role |-> r.role, active |-> TRUE]]
    /\ nextId' = nextId + 1

(* unique (org_id, user_id), or the row that was to be reinstated is gone. *)
AcceptCollides(r) ==
    IF r.loaded = None THEN members[r.to] # None ELSE RowIsGone(r)

AcceptWrite(s) ==
    /\ req[s].op = "accept"
    /\ LET r == req[s]
       IN  IF AcceptCollides(r)
           THEN Fails(s) /\ UNCHANGED organization
           ELSE /\ IF r.loaded = None THEN Join(r)
                   ELSE members' = Written(r) /\ UNCHANGED nextId
                /\ invitations' = [invitations EXCEPT ![r.invitation].accepted = TRUE]
                /\ Commits(s)
                /\ UNCHANGED <<drawn, resent, newest, dropped>>

(* The days an invitation is good for pass.                                *)
Expire(i) ==
    /\ IsPending(i) /\ ~invitations[i].expired
    /\ invitations' = [invitations EXCEPT ![i].expired = TRUE]
    /\ UNCHANGED <<requests, members, nextId, drawn, resent, newest, dropped>>

SecondPasses ==
    /\ resent # {} /\ resent' = {}
    /\ UNCHANGED <<requests, members, nextId, invitations, drawn, newest, dropped>>

MembersNext ==
    \/ \E s \in Slots, by, u \in Users :
        \/ \E role \in Opt(Roles), active \in Opt(BOOLEAN) : UpdateRead(s, by, u, role, active)
        \/ RemoveRead(s, by, u)
        \/ \E role \in Roles : InviteRead(s, by, u, role)
    \/ \E s \in Slots, i \in Ids :
        \/ \E by \in Users : ResendRead(s, by, i) \/ RevokeRead(s, by, i)
        \/ AcceptRead(s, i)
    \/ \E s \in InFlight :
        \/ UpdateWrite(s) \/ RemoveWrite(s) \/ InviteWrite(s)
        \/ ResendWrite(s) \/ RevokeWrite(s) \/ AcceptWrite(s)
    \/ \E i \in Ids : Expire(i)
    \/ SecondPasses

MembersSpec ==
    MembersInit /\ RequestsInit /\ [][MembersNext]_<<organization, requests>>

-----------------------------------------------------------------------------
(* Properties.                                                             *)

(* An organization always has an active admin (orgs/service.py:225-233),   *)
(* whatever is asked of it one request at a time.  The exception: the      *)
(* guard counts before the write, and a change of the memberships that     *)
(* another request has overtaken may take away the last one.               *)
AdminUnlessRaced ==
    Admins # {} \/ crossed \cap {"update", "remove", "accept"} # {}

(* "The newest link always wins" (orgs/service.py:245-246): the pending    *)
(* invitation of an address carries the last link mailed to it.  The       *)
(* exceptions: a resend that was overtaken has mailed the link of an       *)
(* invitation that is no longer pending; and one within the second of      *)
(* another has drawn a link that is not mailed (orgs/service.py:313).      *)
NewestLinkWins ==
    \A u \in Users \ dropped : \A i \in Pending(u) :
        invitations[i].link = newest[u] \/ "resend" \in crossed

(* A request that no other one has overtaken never fails on a constraint   *)
(* or on a row that is gone: what it read is what it writes to.            *)
AloneNeverFails == failed = {}
=============================================================================
