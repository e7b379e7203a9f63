--------------------------- MODULE RequestsProofs ---------------------------
(***************************************************************************)
(* Theorems about the API requests that overlap: those of a workspace      *)
(* (Members, RuleSetVersions, Decisions), of a profile and of the sessions *)
(* of one account.  Of each, an invariant says what a request in progress  *)
(* has read and may rely on; a commit of another one takes the reliance    *)
(* away ("raced"), and the properties name the requests they then except.  *)
(* For any number of overlapping requests, users, columns, rows, devices.  *)
(***************************************************************************)
EXTENDS Workspace, Profiles, Sessions, FiniteSetTheorems, SequenceTheorems, TLAPS

(* As long as no other request has been committed since, what a request    *)
(* has read is how things are.                                             *)
Unraced(s) == s \notin raced

-----------------------------------------------------------------------------
(* The workspace: what a request of each kind has read.                    *)

UpdateRequest(s) ==
    req[s].op = "update" =>
        /\ req[s].to \in Users /\ req[s].loaded \in Memberships
        /\ req[s].role \in Roles /\ req[s].active \in BOOLEAN
        /\ Unraced(s) =>
            /\ members[req[s].to] = req[s].loaded
            /\ req[s].role = "member" \/ ~req[s].active => ~IsLastAdmin(req[s].to)

RemoveRequest(s) ==
    req[s].op = "remove" =>
        /\ req[s].to \in Users /\ req[s].loaded \in Memberships
        /\ Unraced(s) => members[req[s].to] = req[s].loaded /\ ~IsLastAdmin(req[s].to)

InviteRequest(s) ==
    req[s].op = "invite" =>
        /\ req[s].to \in Users /\ req[s].role \in Roles /\ req[s].pending \subseteq Ids
        /\ Unraced(s) => Pending(req[s].to) \subseteq req[s].pending

ResendRequest(s) ==
    req[s].op \in {"resend", "revoke"} =>
        /\ req[s].invitation \in Ids
        /\ Unraced(s) => IsPending(req[s].invitation)

AcceptRequest(s) ==
    req[s].op = "accept" =>
        /\ req[s].to \in Users /\ req[s].loaded \in Opt(Memberships)
        /\ req[s].role \in Roles /\ req[s].active = TRUE /\ req[s].invitation \in Ids
        /\ Unraced(s) =>
            /\ members[req[s].to] = req[s].loaded
            /\ IsMember(req[s].to) => req[s].role = req[s].loaded.role

MemberRequest(s) ==
    /\ UpdateRequest(s) /\ RemoveRequest(s) /\ InviteRequest(s)
    /\ ResendRequest(s) /\ AcceptRequest(s)

(* A version that is saved takes the number after the last one.            *)
VersionRequest(s) ==
    /\ req[s].op = "open" /\ Unraced(s) => req[s].loaded.exists = created
    /\ req[s].op = "save" =>
        /\ req[s].definition \in Definitions
        /\ req[s].number \in 1..(Cardinality(versions) + 1)
        /\ Unraced(s) => /\ req[s].loaded.exists = created
                         /\ req[s].number = Cardinality(versions) + 1
    /\ req[s].op = "activate" =>
        /\ req[s].number \in Numbers
        /\ Unraced(s) => req[s].loaded.inForce = inForce

DecisionRequest(s) ==
    req[s].op \in {"record", "clear"} =>
        /\ req[s] \in Rulings
        /\ req[s].op = "record" => req[s].decision \in Outcomes /\ req[s].decision # None
        /\ Unraced(s) => req[s].seen = Current /\ req[s].demoted \in {None, Current}

Kinds == {"update", "remove", "invite", "resend", "revoke", "accept",
          "open", "save", "activate", "record", "clear"}

Sound(s) ==
    req[s].op \in Kinds /\ MemberRequest(s) /\ VersionRequest(s) /\ DecisionRequest(s)

WorkspaceRequestsInv ==
    /\ req = [s \in Slots |-> req[s]]
    /\ begun \in 0..MaxRequests
    /\ raced \subseteq InFlight
    /\ crossed \subseteq Kinds
    /\ AloneNeverFails
    /\ \A s \in InFlight : Sound(s)

(* An address has one pending invitation at most.                          *)
OnePending == \A u \in Users : \A i, j \in Pending(u) : i = j

MembersInv == MembersTypeOK /\ OnePending /\ AdminUnlessRaced /\ NewestLinkWins

VersionsInv ==
    /\ VersionsTypeOK /\ IsFiniteSet(versions) /\ VersionsAreDense /\ RulesAsAsked

DecisionsInv == DecisionsTypeOK /\ LastWordStands

WorkspaceInv == WorkspaceRequestsInv /\ MembersInv /\ VersionsInv /\ DecisionsInv

-----------------------------------------------------------------------------
(* Steps of module Requests.                                               *)

(* What is left of a component when the others move. *)
LEMMA MembersStay ==
    ASSUME MembersInv, UNCHANGED organization, crossed \subseteq crossed'
    PROVE  MembersInv'
BY DEF MembersInv, organization, MembersTypeOK, OnePending, AdminUnlessRaced, NewestLinkWins,
       Admins, IsAdmin, IsMember, Pending, IsPending, Ids

LEMMA VersionsStay ==
    ASSUME VersionsInv, UNCHANGED ruleSet, crossed \subseteq crossed'
    PROVE  VersionsInv'
BY DEF VersionsInv, ruleSet, VersionsTypeOK, VersionsAreDense, RulesAsAsked, Numbers

LEMMA DecisionsStay ==
    ASSUME DecisionsInv, UNCHANGED decisions, crossed \subseteq crossed'
    PROVE  DecisionsInv'
BY DEF DecisionsInv, decisions, DecisionsTypeOK, LastWordStands, Current, TrailRows

(* A request of another slot, when nothing it has read has changed. *)
LEMMA OthersStay ==
    ASSUME NEW t, Sound(t), req'[t] = req[t], t \in raced <=> t \in raced',
           UNCHANGED <<members, invitations, ruleSet, trail>>
    PROVE  Sound(t)'
<1> USE DEF ruleSet, Unraced
<1>1. MemberRequest(t)'
  BY DEF Sound, MemberRequest, UpdateRequest, RemoveRequest, InviteRequest, ResendRequest,
         AcceptRequest, IsLastAdmin, Admins, IsAdmin, IsMember, Pending, IsPending, Ids
<1>2. VersionRequest(t)'
  BY DEF Sound, VersionRequest, Numbers
<1>3. DecisionRequest(t)'
  BY DEF Sound, DecisionRequest, Current, TrailRows
<1>4. QED
  BY <1>1, <1>2, <1>3 DEF Sound

(* ... and when it is raced. *)
LEMMA OthersRaced ==
    ASSUME NEW t, Sound(t), req'[t] = req[t], t \in raced',
           Ids \subseteq Ids', Numbers \subseteq Numbers',
           Cardinality(versions) \in Nat, Cardinality(versions)' \in Nat,
           Cardinality(versions) <= Cardinality(versions)'
    PROVE  Sound(t)'
<1> USE DEF Unraced
<1>1. MemberRequest(t)'
  BY DEF Sound, MemberRequest, UpdateRequest, RemoveRequest, InviteRequest, ResendRequest,
         AcceptRequest
<1>2. VersionRequest(t)'
  BY DEF Sound, VersionRequest
<1>3. DecisionRequest(t)'
  BY DEF Sound, DecisionRequest
<1>4. QED
  BY <1>1, <1>2, <1>3 DEF Sound

(* A request has read ... *)
LEMMA ReadKeeps ==
    ASSUME WorkspaceRequestsInv, NEW s \in Slots, NEW r, Reads(s, r),
           UNCHANGED <<members, invitations, ruleSet, trail>>,
           req'[s] = r => Sound(s)'
    PROVE  WorkspaceRequestsInv'
<1>1. /\ req'[s] = r /\ \A t \in Slots : t # s => req'[t] = req[t]
      /\ req' = [t \in Slots |-> req'[t]]
      /\ UNCHANGED <<raced, crossed, failed>>
  BY DEF WorkspaceRequestsInv, Reads
<1>2. begun' \in 0..MaxRequests
  BY RequestsAssumption DEF WorkspaceRequestsInv, Reads
<1>3. raced' \subseteq InFlight'
  BY <1>1 DEF WorkspaceRequestsInv, Reads, InFlight
<1>4. ASSUME NEW t \in InFlight' PROVE Sound(t)'
  BY <1>1, <1>4, OthersStay DEF WorkspaceRequestsInv, InFlight
<1>5. QED
  BY <1>1, <1>2, <1>3, <1>4 DEF WorkspaceRequestsInv, AloneNeverFails

(* ... reads on ... *)
LEMMA ReadOnKeeps ==
    ASSUME WorkspaceRequestsInv, NEW s \in Slots, NEW r, ReadsOn(s, r), r # None,
           UNCHANGED <<members, invitations, ruleSet, trail>>,
           req'[s] = r => Sound(s)'
    PROVE  WorkspaceRequestsInv'
<1>1. /\ req'[s] = r /\ \A t \in Slots : t # s => req'[t] = req[t]
      /\ req' = [t \in Slots |-> req'[t]]
      /\ UNCHANGED <<begun, raced, crossed, failed>>
  BY DEF WorkspaceRequestsInv, ReadsOn
<1>2. raced' \subseteq InFlight'
  BY <1>1 DEF WorkspaceRequestsInv, InFlight
<1>3. ASSUME NEW t \in InFlight' PROVE Sound(t)'
  BY <1>1, <1>3, OthersStay DEF WorkspaceRequestsInv, InFlight
<1>4. QED
  BY <1>1, <1>2, <1>3 DEF WorkspaceRequestsInv, AloneNeverFails

(* ... is committed, and every other one is raced ... *)
LEMMA CommitKeeps ==
    ASSUME WorkspaceRequestsInv, NEW s \in InFlight, Commits(s),
           Ids \subseteq Ids', Numbers \subseteq Numbers',
           Cardinality(versions) \in Nat, Cardinality(versions)' \in Nat,
           Cardinality(versions) <= Cardinality(versions)'
    PROVE  /\ WorkspaceRequestsInv' /\ crossed \subseteq crossed'
           /\ s \in raced => req[s].op \in crossed'
<1>1. /\ req'[s] = None /\ \A t \in Slots : t # s => req'[t] = req[t]
      /\ req' = [t \in Slots |-> req'[t]]
      /\ raced' = (raced \cup InFlight) \ {s}
      /\ crossed' = IF s \in raced THEN crossed \cup {req[s].op} ELSE crossed
      /\ UNCHANGED <<begun, failed>>
  BY DEF WorkspaceRequestsInv, Commits, InFlight
<1>2. InFlight' = InFlight \ {s} /\ raced' = InFlight'
  BY <1>1 DEF WorkspaceRequestsInv, InFlight
<1>3. ASSUME NEW t \in InFlight' PROVE Sound(t)'
  BY <1>1, <1>2, <1>3, OthersRaced DEF WorkspaceRequestsInv, InFlight
<1>4. req[s].op \in Kinds
  BY DEF WorkspaceRequestsInv, Sound
<1>5. QED
  BY <1>1, <1>2, <1>3, <1>4 DEF WorkspaceRequestsInv, AloneNeverFails

(* ... or fails, which only one that is raced does. *)
LEMMA FailKeeps ==
    ASSUME WorkspaceRequestsInv, NEW s \in InFlight, Fails(s), s \in raced,
           UNCHANGED <<members, invitations, ruleSet, trail>>
    PROVE  WorkspaceRequestsInv' /\ crossed' = crossed
<1>1. /\ req'[s] = None /\ \A t \in Slots : t # s => req'[t] = req[t]
      /\ req' = [t \in Slots |-> req'[t]]
      /\ raced' = raced \ {s}
      /\ UNCHANGED <<begun, crossed, failed>>
  BY DEF WorkspaceRequestsInv, Fails, InFlight
<1>2. InFlight' = InFlight \ {s}
  BY <1>1 DEF InFlight
<1>3. ASSUME NEW t \in InFlight' PROVE Sound(t)'
  BY <1>1, <1>2, <1>3, OthersStay DEF WorkspaceRequestsInv, InFlight
<1>4. QED
  BY <1>1, <1>2, <1>3 DEF WorkspaceRequestsInv, AloneNeverFails

-----------------------------------------------------------------------------
(* Members.                                                                *)

(* Somebody else is an admin too. *)
LEMMA AnotherAdmin ==
    ASSUME NEW u, ~IsLastAdmin(u), IsAdmin(u)
    PROVE  \E v \in Admins : v # u
<1>1. IsFiniteSet(Admins) /\ Cardinality(Admins) > 1
  <2>1. Admins \subseteq Users
    BY DEF Admins
  <2>2. IsFiniteSet(Admins) /\ Cardinality(Admins) \in Nat
    BY <2>1, MembersAssumption, FS_Subset, FS_CardinalityType
  <2>3. QED
    BY <2>2 DEF IsLastAdmin
<1>2. ~(Admins \subseteq {u})
  <2>1. SUFFICES ASSUME Admins \subseteq {u} PROVE FALSE
    OBVIOUS
  <2>2. IsFiniteSet({u}) /\ Cardinality({u}) = 1
    BY FS_Singleton
  <2>3. Cardinality(Admins) <= 1
    BY <2>1, <2>2, FS_Subset
  <2>4. QED
    BY <1>1, <2>3, FS_CardinalityType
<1>3. QED
  BY <1>2

(* A change of one membership leaves an admin when it takes none away, or  *)
(* not the last one.                                                       *)
LEMMA AdminsLeft ==
    ASSUME members \in [Users -> Opt(Memberships)], NEW u \in Users, Admins # {},
           \A v \in Users : v # u => members'[v] = members[v],
           IsAdmin(u)' \/ ~IsLastAdmin(u)
    PROVE  Admins' # {}
<1>1. \A v \in Users : v # u => (v \in Admins <=> v \in Admins')
  BY DEF Admins, IsAdmin, IsMember
<1>2. CASE IsAdmin(u)'
  BY <1>2 DEF Admins
<1>3. CASE ~IsLastAdmin(u)
  <2>1. \E v \in Admins : v # u
    BY <1>3, AnotherAdmin DEF Admins
  <2>2. QED
    BY <1>1, <2>1 DEF Admins
<1>4. QED
  BY <1>2, <1>3

(* Membership rows as they are written. *)
LEMMA WrittenRow ==
    ASSUME members \in [Users -> Opt(Memberships)], NEW r,
           r.to \in Users, r.loaded \in Memberships, r.role \in Roles, r.active \in BOOLEAN,
           ~RowIsGone(r)
    PROVE  /\ Written(r) \in [Users -> Opt(Memberships)]
           /\ \A v \in Users : v # r.to => Written(r)[v] = members[v]
           /\ Written(r)[r.to] # None <=> members[r.to] # None
           /\ members[r.to] # None => Written(r)[r.to].id = members[r.to].id
           /\ members[r.to] = r.loaded =>
                Written(r)[r.to].role = r.role /\ Written(r)[r.to].active = r.active
<1>1. CASE ~Changes(r)
  BY <1>1, MembersAssumption DEF Written, Changes, Opt, Memberships
<1>2. CASE Changes(r)
  <2>1. members[r.to] \in Memberships
    BY <1>2 DEF RowIsGone, Opt
  <2> DEFINE row == [members[r.to] EXCEPT
                        !.role = Column(r.role, r.loaded.role, members[r.to].role),
                        !.active = Column(r.active, r.loaded.active, members[r.to].active)]
  <2>2. /\ row \in Memberships /\ row.id = members[r.to].id
        /\ members[r.to] = r.loaded => row.role = r.role /\ row.active = r.active
    BY <2>1 DEF Memberships, Column
  <2>3. Written(r) = [members EXCEPT ![r.to] = row]
    BY <1>2, <2>1 DEF Written, Memberships
  <2> HIDE DEF row
  <2>4. QED
    BY <2>1, <2>2, <2>3, MembersAssumption DEF Opt
<1>3. QED
  BY <1>1, <1>2

(* Nothing but the memberships has moved.                                  *)
LEMMA InvitationsStay ==
    ASSUME MembersInv, UNCHANGED <<nextId, invitations, drawn, resent, newest, dropped>>,
           crossed \subseteq crossed',
           members' \in [Users -> Opt(Memberships)],
           \A u \in Users : members'[u] # None => members'[u].id < nextId,
           Admins' # {} \/ crossed' \cap {"update", "remove", "accept"} # {}
    PROVE  MembersInv'
BY DEF MembersInv, MembersTypeOK, OnePending, AdminUnlessRaced, NewestLinkWins, Pending,
       IsPending, Ids

(* A step that reads, of any kind. *)
LEMMA ReadWorkspaceInv ==
    ASSUME WorkspaceInv, NEW s \in Slots, NEW r, Reads(s, r),
           UNCHANGED <<organization, ruleSet, decisions>>,
           req'[s] = r => Sound(s)'
    PROVE  WorkspaceInv'
<1>1. WorkspaceRequestsInv'
  BY ReadKeeps DEF WorkspaceInv, organization, decisions
<1>2. crossed' = crossed
  BY DEF Reads
<1>3. QED
  BY <1>1, <1>2, MembersStay, VersionsStay, DecisionsStay DEF WorkspaceInv

(* A step that changes the members or the invitations, and ends.           *)
LEMMA MembershipWorkspaceInv ==
    ASSUME WorkspaceInv, WorkspaceRequestsInv', crossed \subseteq crossed', MembersInv',
           UNCHANGED <<ruleSet, decisions>>
    PROVE  WorkspaceInv'
BY VersionsStay, DecisionsStay DEF WorkspaceInv

(* No version is saved. *)
LEMMA NumbersStay ==
    ASSUME WorkspaceInv, UNCHANGED ruleSet
    PROVE  /\ Numbers' = Numbers
           /\ Cardinality(versions) \in Nat /\ Cardinality(versions)' = Cardinality(versions)
BY FS_CardinalityType DEF WorkspaceInv, VersionsInv, ruleSet, Numbers

LEMMA InvitationsAreSent ==
    ASSUME MembersTypeOK, NEW i \in Ids
    PROVE  /\ invitations[i].to \in Users /\ invitations[i].role \in Roles
           /\ invitations[i].link \in Nat
<1> DEFINE R == [to : Users, role : Roles, link : Nat,
                 accepted : BOOLEAN, revoked : BOOLEAN, expired : BOOLEAN]
<1>1. invitations \in Seq(R) /\ i \in 1..Len(invitations)
  BY DEF MembersTypeOK, Ids
<1>2. invitations[i] \in R
  BY <1>1, ElementOfSeq
<1>3. QED
  BY <1>2

LEMMA UpdateReadWorkspaceInv ==
    ASSUME WorkspaceInv, NEW s \in Slots, NEW by, NEW u \in Users, NEW role \in Opt(Roles),
           NEW active \in Opt(BOOLEAN), UpdateRead(s, by, u, role, active),
           UNCHANGED <<ruleSet, decisions>>
    PROVE  WorkspaceInv'
<1> DEFINE r == [op |-> "update", to |-> u, loaded |-> members[u],
                 role |-> IF role = None THEN members[u].role ELSE role,
                 active |-> IF active = None THEN members[u].active ELSE active]
<1>1. Reads(s, r) /\ UNCHANGED organization
  BY DEF UpdateRead
<1>2. /\ members[u] \in Memberships
      /\ role = "member" \/ active = FALSE => ~IsLastAdmin(u)
  BY DEF UpdateRead, WorkspaceInv, MembersInv, MembersTypeOK, Opt
<1>3. r.role \in Roles /\ r.active \in BOOLEAN
  BY <1>2 DEF Opt, Memberships
<1>4. r.role = "member" \/ ~r.active => ~IsLastAdmin(u)
  BY <1>2, <1>3 DEF IsLastAdmin, IsAdmin, IsMember, Opt
<1>5. ASSUME req'[s] = r PROVE Sound(s)'
  <2>1. IsLastAdmin(u)' <=> IsLastAdmin(u)
    BY <1>1 DEF organization, IsLastAdmin, Admins, IsAdmin, IsMember
  <2>2. members'[u] = members[u]
    BY <1>1 DEF organization
  <2>3. QED
    BY <1>2, <1>3, <1>4, <1>5, <2>1, <2>2
    DEF Sound, Kinds, MemberRequest, UpdateRequest, RemoveRequest, InviteRequest, ResendRequest,
        AcceptRequest, VersionRequest, DecisionRequest
<1>6. QED
  BY <1>1, <1>5, ReadWorkspaceInv

LEMMA RemoveReadWorkspaceInv ==
    ASSUME WorkspaceInv, NEW s \in Slots, NEW by, NEW u \in Users, RemoveRead(s, by, u),
           UNCHANGED <<ruleSet, decisions>>
    PROVE  WorkspaceInv'
<1> DEFINE r == [op |-> "remove", to |-> u, loaded |-> members[u]]
<1>1. Reads(s, r) /\ UNCHANGED organization
  BY DEF RemoveRead
<1>2. members[u] \in Memberships /\ ~IsLastAdmin(u)
  BY DEF RemoveRead, WorkspaceInv, MembersInv, MembersTypeOK, Opt
<1>3. ASSUME req'[s] = r PROVE Sound(s)'
  <2>1. members'[u] = members[u] /\ (IsLastAdmin(u)' <=> IsLastAdmin(u))
    BY <1>1 DEF organization, IsLastAdmin, Admins, IsAdmin, IsMember
  <2>2. QED
    BY <1>2, <1>3, <2>1
    DEF Sound, Kinds, MemberRequest, UpdateRequest, RemoveRequest, InviteRequest, ResendRequest,
        AcceptRequest, VersionRequest, DecisionRequest
<1>4. QED
  BY <1>1, <1>3, ReadWorkspaceInv

LEMMA InviteReadWorkspaceInv ==
    ASSUME WorkspaceInv, NEW s \in Slots, NEW by, NEW u \in Users, NEW role \in Roles,
           InviteRead(s, by, u, role), UNCHANGED <<ruleSet, decisions>>
    PROVE  WorkspaceInv'
<1> DEFINE r == [op |-> "invite", to |-> u, role |-> role, pending |-> Pending(u)]
<1>1. Reads(s, r) /\ UNCHANGED organization
  BY DEF InviteRead
<1>2. ASSUME req'[s] = r PROVE Sound(s)'
  <2>1. Pending(u)' = Pending(u) /\ Ids' = Ids /\ Pending(u) \subseteq Ids
    BY <1>1 DEF organization, Pending, IsPending, Ids
  <2>2. QED
    BY <1>2, <2>1
    DEF Sound, Kinds, MemberRequest, UpdateRequest, RemoveRequest, InviteRequest, ResendRequest,
        AcceptRequest, VersionRequest, DecisionRequest
<1>3. QED
  BY <1>1, <1>2, ReadWorkspaceInv

LEMMA InvitationReadWorkspaceInv ==
    ASSUME WorkspaceInv, NEW s \in Slots, NEW by, NEW i \in Ids,
           ResendRead(s, by, i) \/ RevokeRead(s, by, i), UNCHANGED <<ruleSet, decisions>>
    PROVE  WorkspaceInv'
<1>1. PICK op \in {"resend", "revoke"} :
        /\ Reads(s, [op |-> op, invitation |-> i])
        /\ IsPending(i) /\ UNCHANGED organization
  BY DEF ResendRead, RevokeRead
<1> DEFINE r == [op |-> op, invitation |-> i]
<1>2. ASSUME req'[s] = r PROVE Sound(s)'
  <2>1. IsPending(i)' /\ Ids' = Ids
    BY <1>1 DEF organization, IsPending, Ids
  <2>2. QED
    BY <1>2, <2>1
    DEF Sound, Kinds, MemberRequest, UpdateRequest, RemoveRequest, InviteRequest, ResendRequest,
        AcceptRequest, VersionRequest, DecisionRequest
<1>3. QED
  BY <1>1, <1>2, ReadWorkspaceInv

LEMMA AcceptReadWorkspaceInv ==
    ASSUME WorkspaceInv, NEW s \in Slots, NEW i \in Ids, AcceptRead(s, i),
           UNCHANGED <<ruleSet, decisions>>
    PROVE  WorkspaceInv'
<1> DEFINE u == invitations[i].to
           r == [op |-> "accept", to |-> u, invitation |-> i,
                 role |-> IF IsMember(u) THEN members[u].role ELSE invitations[i].role,
                 active |-> TRUE, loaded |-> members[u]]
<1>1. Reads(s, r) /\ UNCHANGED organization
  BY DEF AcceptRead
<1>2. u \in Users /\ invitations[i].role \in Roles
  BY InvitationsAreSent DEF WorkspaceInv, MembersInv
<1>3. members[u] \in Opt(Memberships) /\ (IsMember(u) => members[u].role \in Roles)
  BY <1>2 DEF WorkspaceInv, MembersInv, MembersTypeOK, IsMember, Opt, Memberships
<1>4. ASSUME req'[s] = r PROVE Sound(s)'
  <2>1. members' = members /\ Ids' = Ids
    BY <1>1 DEF organization, Ids
  <2>2. r.role \in Roles /\ (IsMember(u) => r.role = members[u].role)
    BY <1>2, <1>3
  <2>3. QED
    BY <1>2, <1>3, <1>4, <2>1, <2>2
    DEF Sound, Kinds, MemberRequest, UpdateRequest, RemoveRequest, InviteRequest, ResendRequest,
        AcceptRequest, VersionRequest, DecisionRequest, IsMember
<1>5. QED
  BY <1>1, <1>4, ReadWorkspaceInv

LEMMA UpdateWriteWorkspaceInv ==
    ASSUME WorkspaceInv, NEW s \in InFlight, UpdateWrite(s), UNCHANGED <<ruleSet, decisions>>
    PROVE  WorkspaceInv'
<1>1. PICK u \in Users :
      /\ u = req[s].to /\ req[s].loaded \in Memberships
      /\ req[s].role \in Roles /\ req[s].active \in BOOLEAN
      /\ Unraced(s) =>
            /\ members[u] = req[s].loaded
            /\ req[s].role = "member" \/ ~req[s].active => ~IsLastAdmin(u)
  BY DEF UpdateWrite, WorkspaceInv, WorkspaceRequestsInv, Sound, MemberRequest, UpdateRequest
<1>2. UNCHANGED <<nextId, invitations, drawn, resent, newest, dropped>>
  BY DEF UpdateWrite
<1>3. members \in [Users -> Opt(Memberships)]
  BY DEF WorkspaceInv, MembersInv, MembersTypeOK
<1>4. CASE RowIsGone(req[s])
  <2>1. Fails(s) /\ UNCHANGED members
    BY <1>4 DEF UpdateWrite
  <2>2. s \in raced
    BY <1>1, <1>4, MembersAssumption DEF RowIsGone, Unraced
  <2>3. WorkspaceRequestsInv' /\ crossed' = crossed
    BY <1>2, <2>1, <2>2, FailKeeps DEF WorkspaceInv, decisions
  <2>4. QED
    BY <1>2, <2>1, <2>3, MembersStay, MembershipWorkspaceInv DEF WorkspaceInv, organization
<1>5. CASE ~RowIsGone(req[s])
  <2>1. Commits(s) /\ members' = Written(req[s])
    BY <1>5 DEF UpdateWrite
  <2>2. Ids' = Ids
    BY <1>2 DEF Ids
  <2>3. WorkspaceRequestsInv' /\ crossed \subseteq crossed' /\ (s \in raced => "update" \in crossed')
    BY <2>1, <2>2, CommitKeeps, NumbersStay DEF WorkspaceInv, UpdateWrite
  <2>4. /\ members' \in [Users -> Opt(Memberships)]
        /\ \A v \in Users : v # u => members'[v] = members[v]
        /\ members'[u] # None <=> members[u] # None
        /\ members[u] # None => members'[u].id = members[u].id
        /\ members[u] = req[s].loaded =>
             members'[u].role = req[s].role /\ members'[u].active = req[s].active
    BY <1>1, <1>3, <1>5, <2>1, WrittenRow
  <2>5. ASSUME Unraced(s), Admins # {} PROVE Admins' # {}
    <3>1. IsAdmin(u)' \/ ~IsLastAdmin(u)
      BY <1>1, <2>4, <2>5, MembersAssumption DEF IsAdmin, IsMember, Roles
    <3>2. QED
      BY <1>1, <1>3, <2>4, <2>5, <3>1, AdminsLeft
  <2>6. Admins' # {} \/ crossed' \cap {"update", "remove", "accept"} # {}
    BY <2>3, <2>5 DEF Unraced, WorkspaceInv, MembersInv, AdminUnlessRaced
  <2>7. \A v \in Users : members'[v] # None => members'[v].id < nextId
    BY <2>4 DEF WorkspaceInv, MembersInv, MembersTypeOK
  <2>8. MembersInv'
    BY <1>2, <2>3, <2>4, <2>6, <2>7, InvitationsStay DEF WorkspaceInv
  <2>9. QED
    BY <2>3, <2>8, MembershipWorkspaceInv
<1>6. QED
  BY <1>4, <1>5

LEMMA RemoveWriteWorkspaceInv ==
    ASSUME WorkspaceInv, NEW s \in InFlight, RemoveWrite(s), UNCHANGED <<ruleSet, decisions>>
    PROVE  WorkspaceInv'
<1>1. PICK u \in Users : u = req[s].to /\ (Unraced(s) => ~IsLastAdmin(u))
  BY DEF RemoveWrite, WorkspaceInv, WorkspaceRequestsInv, Sound, MemberRequest, RemoveRequest
<1>2. /\ Commits(s)
      /\ UNCHANGED <<nextId, invitations, drawn, resent, newest, dropped>>
      /\ members' = members \/ members' = [members EXCEPT ![u] = None]
  BY <1>1 DEF RemoveWrite
<1>3. members \in [Users -> Opt(Memberships)]
  BY DEF WorkspaceInv, MembersInv, MembersTypeOK
<1>4. WorkspaceRequestsInv' /\ crossed \subseteq crossed' /\ (s \in raced => "remove" \in crossed')
  <2>1. Ids' = Ids
    BY <1>2 DEF Ids
  <2>2. QED
    BY <1>2, <2>1, CommitKeeps, NumbersStay DEF WorkspaceInv, RemoveWrite
<1>5. /\ members' \in [Users -> Opt(Memberships)]
      /\ \A v \in Users : v # u => members'[v] = members[v]
      /\ members'[u] \in {None, members[u]}
  BY <1>1, <1>2, <1>3 DEF Opt
<1>6. ASSUME Unraced(s), Admins # {} PROVE Admins' # {}
  BY <1>1, <1>3, <1>5, <1>6, AdminsLeft
<1>7. Admins' # {} \/ crossed' \cap {"update", "remove", "accept"} # {}
  BY <1>4, <1>6 DEF Unraced, WorkspaceInv, MembersInv, AdminUnlessRaced
<1>8. \A v \in Users : members'[v] # None => members'[v].id < nextId
  BY <1>5 DEF WorkspaceInv, MembersInv, MembersTypeOK
<1>9. MembersInv'
  BY <1>2, <1>4, <1>5, <1>7, <1>8, InvitationsStay DEF WorkspaceInv
<1>10. QED
  BY <1>4, <1>9, MembershipWorkspaceInv

(* One invitation is written. *)
InvitationRows ==
    [to : Users, role : Roles, link : Nat, accepted : BOOLEAN, revoked : BOOLEAN,
     expired : BOOLEAN]

LEMMA InvitationWritten ==
    ASSUME MembersTypeOK, NEW i \in Ids, NEW row \in InvitationRows,
           invitations' = [invitations EXCEPT ![i] = row]
    PROVE  /\ invitations' \in Seq(InvitationRows) /\ Ids' = Ids
           /\ invitations'[i] = row
           /\ \A j \in Ids : j # i => invitations'[j] = invitations[j]
<1>1. invitations \in Seq(InvitationRows) /\ i \in 1..Len(invitations)
  BY DEF MembersTypeOK, Ids, InvitationRows
<1>2. /\ invitations' \in Seq(InvitationRows) /\ Len(invitations') = Len(invitations)
      /\ \A j \in 1..Len(invitations) :
           invitations'[j] = IF j = i THEN row ELSE invitations[j]
  BY <1>1, ExceptSeq
<1>3. QED
  BY <1>1, <1>2 DEF Ids

LEMMA InvitationIsRow ==
    ASSUME MembersTypeOK, NEW i \in Ids
    PROVE  invitations[i] \in InvitationRows /\ invitations[i].link \in 1..drawn
<1>1. invitations \in Seq(InvitationRows) /\ i \in 1..Len(invitations)
  BY DEF MembersTypeOK, Ids, InvitationRows
<1>2. QED
  BY <1>1, ElementOfSeq DEF MembersTypeOK

(* A link is drawn for one invitation: it is the newest one, or no longer  *)
(* the only one that was not mailed.                                       *)
LEMMA ResendWriteWorkspaceInv ==
    ASSUME WorkspaceInv, NEW s \in InFlight, ResendWrite(s), UNCHANGED <<ruleSet, decisions>>
    PROVE  WorkspaceInv'
<1>1. PICK i \in Ids : i = req[s].invitation /\ (Unraced(s) => IsPending(i))
  BY DEF ResendWrite, WorkspaceInv, WorkspaceRequestsInv, Sound, MemberRequest, ResendRequest
<1>2. PICK u \in Users : u = invitations[i].to
  BY InvitationsAreSent DEF WorkspaceInv, MembersInv
<1> DEFINE row == [invitations[i] EXCEPT !.link = drawn + 1, !.expired = FALSE]
<1>3. /\ invitations' = [invitations EXCEPT ![i] = row]
      /\ IF i \in resent THEN Drop(u) ELSE Mail(u)
      /\ resent' = resent \cup {i} /\ Commits(s) /\ UNCHANGED <<members, nextId>>
  BY <1>1, <1>2, Zenon DEF ResendWrite, Renewed
<1>4. MembersTypeOK
  BY DEF WorkspaceInv, MembersInv
<1>5. /\ invitations[i] \in InvitationRows
      /\ \A j \in Ids : invitations[j].link \in 1..drawn
  BY <1>4, InvitationIsRow
<1>6. drawn \in Nat /\ newest \in [Users -> 0..drawn]
  BY <1>4 DEF MembersTypeOK
<1>7. /\ row \in InvitationRows /\ row.link = drawn + 1 /\ row.to = u
      /\ row.accepted = invitations[i].accepted /\ row.revoked = invitations[i].revoked
  <2>1. drawn + 1 \in Nat
    BY <1>6
  <2>2. QED
    BY <1>2, <1>5, <2>1 DEF InvitationRows
<1> HIDE DEF row
<1>8. /\ invitations' \in Seq(InvitationRows) /\ Ids' = Ids
      /\ invitations'[i] = row
      /\ \A j \in Ids : j # i => invitations'[j] = invitations[j]
  BY <1>3, <1>4, <1>7, InvitationWritten
<1>9. \A v \in Users : Pending(v)' = Pending(v)
  BY <1>2, <1>7, <1>8 DEF Pending, IsPending
<1>10. WorkspaceRequestsInv' /\ crossed \subseteq crossed' /\ (s \in raced => "resend" \in crossed')
  BY <1>3, <1>8, CommitKeeps, NumbersStay DEF WorkspaceInv, ResendWrite
<1>11. /\ drawn' = drawn + 1 /\ newest' \in [Users -> 0..drawn']
       /\ dropped' \subseteq Users /\ dropped \subseteq dropped'
       /\ \A v \in Users : v # u => newest'[v] = newest[v]
       /\ u \in dropped' \/ newest'[u] = drawn + 1
  <2>1. dropped \subseteq Users /\ drawn + 1 \in Nat /\ drawn + 1 \in 0..(drawn + 1)
        /\ newest \in [Users -> 0..(drawn + 1)]
    BY <1>4, <1>6 DEF MembersTypeOK
  <2>2. CASE i \in resent
    BY <1>3, <2>1, <2>2 DEF Drop
  <2>3. CASE i \notin resent
    BY <1>3, <2>1, <2>3 DEF Mail
  <2>4. QED
    BY <2>2, <2>3
<1>12. MembersTypeOK'
  <2>1. \A j \in Ids' : invitations'[j].link \in 1..drawn'
    BY <1>5, <1>6, <1>7, <1>8, <1>11
  <2>2. resent' \subseteq Ids'
    BY <1>3, <1>4, <1>8 DEF MembersTypeOK
  <2>3. members' \in [Users -> Opt(Memberships)] /\ nextId' \in Nat
        /\ \A v \in Users : members'[v] # None => members'[v].id < nextId'
    BY <1>3, <1>4 DEF MembersTypeOK
  <2>4. drawn' \in Nat
    BY <1>6, <1>11
  <2>5. QED
    BY <1>8, <1>11, <2>1, <2>2, <2>3, <2>4 DEF MembersTypeOK, InvitationRows
<1>13. OnePending'
  BY <1>9 DEF OnePending, WorkspaceInv, MembersInv
<1>14. AdminUnlessRaced'
  BY <1>3, <1>10 DEF AdminUnlessRaced, Admins, IsAdmin, IsMember, WorkspaceInv, MembersInv
<1>15. NewestLinkWins'
  <2>1. SUFFICES ASSUME NEW v \in Users \ dropped', NEW j \in Pending(v),
                        "resend" \notin crossed'
                 PROVE  invitations'[j].link = newest'[v]
    BY <1>9 DEF NewestLinkWins
  <2>2. v \notin dropped /\ "resend" \notin crossed /\ j \in Ids /\ invitations[j].to = v
    BY <1>10, <1>11, <2>1 DEF Pending
  <2>3. CASE v = u
    <3>1. i \in Pending(u)
      BY <1>1, <1>2, <1>10, <2>1 DEF Unraced, Pending
    <3>2. j = i
      BY <2>1, <2>3, <3>1 DEF OnePending, WorkspaceInv, MembersInv
    <3>3. QED
      BY <1>7, <1>8, <1>11, <2>1, <2>3, <3>2
  <2>4. CASE v # u
    <3>1. j # i /\ newest'[v] = newest[v]
      BY <1>2, <1>11, <2>2, <2>4
    <3>2. invitations[j].link = newest[v]
      BY <2>1, <2>2 DEF NewestLinkWins, WorkspaceInv, MembersInv
    <3>3. QED
      BY <1>8, <2>2, <3>1, <3>2
  <2>5. QED
    BY <2>3, <2>4
<1>16. QED
  BY <1>10, <1>12, <1>13, <1>14, <1>15, MembershipWorkspaceInv DEF MembersInv

(* One invitation less is pending, or as many: nothing new is mailed.      *)
LEMMA InvitationCloses ==
    ASSUME WorkspaceInv, NEW i \in Ids, NEW row \in InvitationRows,
           invitations' = [invitations EXCEPT ![i] = row],
           row.to = invitations[i].to, row.link = invitations[i].link,
           invitations[i].accepted => row.accepted, invitations[i].revoked => row.revoked,
           UNCHANGED <<drawn, resent, newest, dropped>>,
           members' \in [Users -> Opt(Memberships)], nextId' \in Nat,
           \A u \in Users : members'[u] # None => members'[u].id < nextId',
           AdminUnlessRaced', crossed \subseteq crossed'
    PROVE  MembersInv'
<1>1. MembersTypeOK
  BY DEF WorkspaceInv, MembersInv
<1>2. /\ invitations' \in Seq(InvitationRows) /\ Ids' = Ids
      /\ invitations'[i] = row
      /\ \A j \in Ids : j # i => invitations'[j] = invitations[j]
  BY <1>1, InvitationWritten
<1>3. \A u \in Users : Pending(u)' \subseteq Pending(u)
  BY <1>2, InvitationIsRow, <1>1 DEF Pending, IsPending, InvitationRows
<1>4. MembersTypeOK'
  BY <1>1, <1>2 DEF MembersTypeOK, InvitationRows
<1>5. OnePending'
  BY <1>3 DEF OnePending, WorkspaceInv, MembersInv
<1>6. NewestLinkWins'
  BY <1>2, <1>3 DEF NewestLinkWins, Pending, WorkspaceInv, MembersInv
<1>7. QED
  BY <1>4, <1>5, <1>6 DEF MembersInv

LEMMA RevokeWriteWorkspaceInv ==
    ASSUME WorkspaceInv, NEW s \in InFlight, RevokeWrite(s), UNCHANGED <<ruleSet, decisions>>
    PROVE  WorkspaceInv'
<1>1. PICK i \in Ids : i = req[s].invitation
  BY DEF RevokeWrite, WorkspaceInv, WorkspaceRequestsInv, Sound, MemberRequest, ResendRequest
<1> DEFINE row == [invitations[i] EXCEPT !.revoked = TRUE]
<1>2. /\ invitations' = [invitations EXCEPT ![i] = row] /\ Commits(s)
      /\ UNCHANGED <<members, nextId, drawn, resent, newest, dropped>>
  BY <1>1, Zenon DEF RevokeWrite
<1>3. MembersTypeOK
  BY DEF WorkspaceInv, MembersInv
<1>4. /\ row \in InvitationRows /\ row.to = invitations[i].to
      /\ row.link = invitations[i].link
      /\ row.accepted = invitations[i].accepted /\ row.revoked
  BY <1>3, InvitationIsRow DEF InvitationRows
<1> HIDE DEF row
<1>5. Ids' = Ids
  BY <1>2, <1>3, <1>4, InvitationWritten
<1>6. WorkspaceRequestsInv' /\ crossed \subseteq crossed'
  BY <1>2, <1>5, CommitKeeps, NumbersStay DEF WorkspaceInv
<1>7. AdminUnlessRaced'
  BY <1>2, <1>6 DEF AdminUnlessRaced, Admins, IsAdmin, IsMember, WorkspaceInv, MembersInv
<1>8. MembersInv'
  BY <1>2, <1>3, <1>4, <1>6, <1>7, InvitationCloses DEF MembersTypeOK
<1>9. QED
  BY <1>6, <1>8, MembershipWorkspaceInv

LEMMA AcceptWriteWorkspaceInv ==
    ASSUME WorkspaceInv, NEW s \in InFlight, AcceptWrite(s), UNCHANGED <<ruleSet, decisions>>
    PROVE  WorkspaceInv'
<1>1. PICK u \in Users, i \in Ids :
      /\ u = req[s].to /\ i = req[s].invitation
      /\ req[s].loaded \in Opt(Memberships)
      /\ req[s].role \in Roles /\ req[s].active = TRUE
      /\ Unraced(s) => /\ members[u] = req[s].loaded
                       /\ IsMember(u) => req[s].role = req[s].loaded.role
  BY DEF AcceptWrite, WorkspaceInv, WorkspaceRequestsInv, Sound, MemberRequest, AcceptRequest
<1>2. members \in [Users -> Opt(Memberships)] /\ MembersTypeOK /\ nextId \in Nat
  BY DEF WorkspaceInv, MembersInv, MembersTypeOK
<1>3. CASE AcceptCollides(req[s])
  <2>1. Fails(s) /\ UNCHANGED organization
    BY <1>3 DEF AcceptWrite
  <2>2. s \in raced
    BY <1>1, <1>3, MembersAssumption DEF AcceptCollides, RowIsGone, Unraced
  <2>3. WorkspaceRequestsInv' /\ crossed' = crossed
    BY <2>1, <2>2, FailKeeps DEF WorkspaceInv, decisions, organization
  <2>4. QED
    BY <2>1, <2>3, MembersStay, MembershipWorkspaceInv DEF WorkspaceInv
<1>4. CASE ~AcceptCollides(req[s])
  <2> DEFINE row == [invitations[i] EXCEPT !.accepted = TRUE]
  <2>1. /\ IF req[s].loaded = None THEN Join(req[s])
           ELSE members' = Written(req[s]) /\ UNCHANGED nextId
        /\ invitations' = [invitations EXCEPT ![i] = row]
        /\ Commits(s) /\ UNCHANGED <<drawn, resent, newest, dropped>>
    BY <1>1, <1>4, Zenon DEF AcceptWrite
  <2>2. /\ row \in InvitationRows /\ row.to = invitations[i].to
        /\ row.link = invitations[i].link
        /\ row.revoked = invitations[i].revoked /\ row.accepted
    BY <1>2, InvitationIsRow DEF InvitationRows
  <2> HIDE DEF row
  <2>3. Ids' = Ids
    BY <1>2, <2>1, <2>2, InvitationWritten
  <2>4. WorkspaceRequestsInv' /\ crossed \subseteq crossed' /\ (s \in raced => "accept" \in crossed')
    BY <2>1, <2>3, CommitKeeps, NumbersStay DEF WorkspaceInv, AcceptWrite
  <2>5. /\ members' \in [Users -> Opt(Memberships)] /\ nextId' \in Nat /\ nextId <= nextId'
        /\ \A v \in Users : v # u => members'[v] = members[v]
        /\ members'[u] # None => members'[u].id < nextId'
        /\ Unraced(s) => IsAdmin(u)' \/ ~IsAdmin(u)
    <3>1. CASE req[s].loaded = None
      <4>1. /\ members' = [members EXCEPT ![u] = [id |-> nextId, role |-> req[s].role,
                                                  active |-> TRUE]]
            /\ nextId' = nextId + 1
        BY <1>1, <2>1, <3>1 DEF Join
      <4>2. [id |-> nextId, role |-> req[s].role, active |-> TRUE] \in Memberships
        BY <1>1, <1>2 DEF Memberships
      <4>3. Unraced(s) => ~IsAdmin(u)
        BY <1>1, <3>1 DEF IsAdmin, IsMember
      <4>4. QED
        BY <1>2, <4>1, <4>2, <4>3 DEF Opt
    <3>2. CASE req[s].loaded # None
      <4>1. members' = Written(req[s]) /\ nextId' = nextId
        BY <2>1, <3>2
      <4>2. req[s].loaded \in Memberships /\ ~RowIsGone(req[s])
        BY <1>1, <1>4, <3>2 DEF AcceptCollides, Opt
      <4>3. /\ members' \in [Users -> Opt(Memberships)]
            /\ \A v \in Users : v # u => members'[v] = members[v]
            /\ members'[u] # None <=> members[u] # None
            /\ members[u] # None => members'[u].id = members[u].id
            /\ members[u] = req[s].loaded =>
                 members'[u].role = req[s].role /\ members'[u].active = req[s].active
        BY <1>1, <1>2, <4>1, <4>2, WrittenRow
      <4>4. members'[u] # None => members'[u].id < nextId
        BY <1>2, <4>3 DEF MembersTypeOK
      <4>5. Unraced(s) => IsAdmin(u)' \/ ~IsAdmin(u)
        BY <1>1, <4>3 DEF IsAdmin, IsMember
      <4>6. QED
        BY <1>2, <4>1, <4>3, <4>4, <4>5
    <3>3. QED
      BY <3>1, <3>2
  <2>6. ASSUME Unraced(s), Admins # {} PROVE Admins' # {}
    <3>1. IsAdmin(u)' \/ ~IsLastAdmin(u)
      BY <2>5, <2>6 DEF IsLastAdmin
    <3>2. QED
      BY <1>2, <2>5, <2>6, <3>1, AdminsLeft
  <2>7. AdminUnlessRaced'
    BY <2>4, <2>6 DEF Unraced, WorkspaceInv, MembersInv, AdminUnlessRaced
  <2>8. \A v \in Users : members'[v] # None => members'[v].id < nextId'
    <3>1. SUFFICES ASSUME NEW v \in Users, members'[v] # None, v # u
                   PROVE  members'[v].id < nextId'
      BY <2>5
    <3>2. members[v] \in Memberships /\ members[v].id < nextId /\ members'[v] = members[v]
      BY <1>2, <2>5, <3>1 DEF MembersTypeOK, Opt
    <3>3. QED
      BY <1>2, <2>5, <3>2 DEF Memberships
  <2>9. MembersInv'
    BY <2>1, <2>2, <2>4, <2>5, <2>7, <2>8, InvitationCloses
  <2>10. QED
    BY <2>4, <2>9, MembershipWorkspaceInv
<1>5. QED
  BY <1>3, <1>4

(* The pending invitation of an address is revoked, and replaced. *)
LEMMA InviteWriteWorkspaceInv ==
    ASSUME WorkspaceInv, NEW s \in InFlight, InviteWrite(s), UNCHANGED <<ruleSet, decisions>>
    PROVE  WorkspaceInv'
<1>1. PICK u \in Users, pending \in SUBSET Ids :
      /\ u = req[s].to /\ pending = req[s].pending /\ req[s].role \in Roles
      /\ Unraced(s) => Pending(u) \subseteq pending
  BY DEF InviteWrite, WorkspaceInv, WorkspaceRequestsInv, Sound, MemberRequest, InviteRequest
<1>2. MembersTypeOK /\ UNCHANGED <<members, nextId, resent>>
  BY DEF WorkspaceInv, MembersInv, InviteWrite
<1>3. CASE ~(Pending(u) \subseteq pending)
  <2>1. Fails(s) /\ UNCHANGED organization
    BY <1>1, <1>2, <1>3 DEF InviteWrite, organization
  <2>2. WorkspaceRequestsInv' /\ crossed' = crossed
    BY <1>1, <1>3, <2>1, FailKeeps DEF Unraced, WorkspaceInv, decisions, organization
  <2>3. QED
    BY <2>1, <2>2, MembersStay, MembershipWorkspaceInv DEF WorkspaceInv
<1>4. CASE Pending(u) \subseteq pending
  <2> DEFINE closed == [i \in Ids |-> IF i \in pending
                                      THEN [invitations[i] EXCEPT !.revoked = TRUE]
                                      ELSE invitations[i]]
             row == [to |-> u, role |-> req[s].role, link |-> drawn + 1,
                     accepted |-> FALSE, revoked |-> FALSE, expired |-> FALSE]
             n == Len(invitations)
  <2>1. invitations' = Append(closed, row) /\ Mail(u) /\ Commits(s)
    BY <1>1, <1>4 DEF InviteWrite
  <2>2. /\ invitations \in Seq(InvitationRows) /\ n \in Nat
        /\ drawn \in Nat /\ newest \in [Users -> 0..drawn]
    BY <1>2 DEF MembersTypeOK, InvitationRows
  <2>3. row \in InvitationRows
    BY <1>1, <2>2 DEF InvitationRows
  <2>4. \A i \in Ids : /\ closed[i] \in InvitationRows
                       /\ closed[i].to = invitations[i].to
                       /\ closed[i].link = invitations[i].link
                       /\ closed[i].accepted = invitations[i].accepted
                       /\ closed[i].revoked = (i \in pending \/ invitations[i].revoked)
    BY <1>2, InvitationIsRow DEF InvitationRows
  <2>5. closed \in Seq(InvitationRows) /\ Len(closed) = n /\ DOMAIN closed = 1..n
    <3>1. closed \in [1..n -> InvitationRows]
      BY <2>4 DEF Ids
    <3>2. closed \in Seq(InvitationRows)
      BY <2>2, <3>1, SeqDef
    <3>3. DOMAIN closed = 1..n
      BY DEF Ids
    <3>4. QED
      BY <2>2, <3>2, <3>3, LenProperties
  <2> HIDE DEF closed
  <2>6. /\ invitations' \in Seq(InvitationRows) /\ Len(invitations') = n + 1
        /\ \A i \in 1..n : invitations'[i] = closed[i]
        /\ invitations'[n + 1] = row
    BY <2>1, <2>2, <2>3, <2>5, AppendProperties
  <2>7. /\ Ids = 1..n /\ Ids' = Ids \cup {n + 1} /\ n + 1 \notin Ids
        /\ Ids \subseteq Ids'
    BY <2>2, <2>6 DEF Ids
  <2>8. /\ row.to = u /\ row.link = drawn + 1
        /\ \A i \in Ids : invitations'[i] = closed[i]
    BY <2>6, <2>7
  <2> HIDE DEF row
  <2>9. WorkspaceRequestsInv' /\ crossed \subseteq crossed'
    BY <2>1, <2>7, CommitKeeps, NumbersStay DEF WorkspaceInv
  <2>10. /\ drawn' = drawn + 1 /\ newest' \in [Users -> 0..drawn']
         /\ newest'[u] = drawn + 1 /\ \A v \in Users : v # u => newest'[v] = newest[v]
         /\ UNCHANGED dropped
    <3>1. drawn + 1 \in Nat /\ drawn + 1 \in 0..(drawn + 1)
          /\ newest \in [Users -> 0..(drawn + 1)]
      BY <2>2
    <3>2. QED
      BY <2>1, <3>1 DEF Mail
  <2>11. /\ Pending(u)' \subseteq {n + 1}
         /\ \A v \in Users : v # u => Pending(v)' \subseteq Pending(v)
    <3>1. ASSUME NEW v \in Users, NEW i \in Pending(v)' PROVE i = n + 1 \/ i \in Pending(v) \ pending
      <4>1. CASE i \in Ids
        BY <2>4, <2>8, <3>1, <4>1 DEF Pending, IsPending
      <4>2. CASE i \notin Ids
        BY <2>7, <3>1, <4>2 DEF Pending
      <4>3. QED
        BY <4>1, <4>2
    <3>2. ASSUME NEW v \in Users, v # u PROVE n + 1 \notin Pending(v)'
      BY <2>6, <2>8, <3>2 DEF Pending
    <3>3. QED
      BY <1>4, <3>1, <3>2
  <2>12. MembersTypeOK'
    <3>1. \A i \in Ids' : invitations'[i].link \in 1..drawn'
      <4>1. \A i \in Ids : invitations[i].link \in 1..drawn
        BY <1>2 DEF MembersTypeOK
      <4>2. \A i \in Ids : invitations'[i].link \in 1..drawn
        BY <2>4, <2>8, <4>1
      <4>3. 1..drawn \subseteq 1..(drawn + 1) /\ drawn + 1 \in 1..(drawn + 1)
        BY <2>2
      <4>4. QED
        BY <2>6, <2>7, <2>8, <2>10, <4>2, <4>3
    <3>2. resent' \subseteq Ids'
      BY <1>2, <2>7 DEF MembersTypeOK
    <3>3. members' \in [Users -> Opt(Memberships)] /\ nextId' \in Nat
          /\ dropped' \subseteq Users
          /\ \A v \in Users : members'[v] # None => members'[v].id < nextId'
      BY <1>2, <2>10 DEF MembersTypeOK
    <3>4. drawn' \in Nat
      BY <2>2, <2>10
    <3>5. QED
      BY <2>6, <2>10, <3>1, <3>2, <3>3, <3>4 DEF MembersTypeOK, InvitationRows
  <2>13. OnePending'
    BY <2>11 DEF OnePending, WorkspaceInv, MembersInv
  <2>14. AdminUnlessRaced'
    BY <1>2, <2>9 DEF AdminUnlessRaced, Admins, IsAdmin, IsMember, WorkspaceInv, MembersInv
  <2>15. NewestLinkWins'
    <3>1. SUFFICES ASSUME NEW v \in Users \ dropped, NEW i \in Pending(v)',
                          "resend" \notin crossed'
                   PROVE  invitations'[i].link = newest'[v]
      BY <2>10 DEF NewestLinkWins
    <3>2. CASE v = u
      BY <2>6, <2>8, <2>10, <2>11, <3>1, <3>2
    <3>3. CASE v # u
      <4>1. i \in Pending(v) /\ i \in Ids /\ "resend" \notin crossed
        BY <2>9, <2>11, <3>1, <3>3 DEF Pending
      <4>2. invitations[i].link = newest[v]
        BY <4>1 DEF NewestLinkWins, WorkspaceInv, MembersInv
      <4>3. QED
        BY <2>4, <2>8, <2>10, <3>3, <4>1, <4>2
    <3>4. QED
      BY <3>2, <3>3
  <2>16. QED
    BY <2>9, <2>12, <2>13, <2>14, <2>15, MembershipWorkspaceInv DEF MembersInv
<1>5. QED
  BY <1>3, <1>4

(* Time passes: no request sees it.                                        *)
LEMMA TimeWorkspaceInv ==
    ASSUME WorkspaceInv, UNCHANGED <<requests, members, ruleSet, decisions>>, MembersInv',
           Ids' = Ids, \A i \in Ids : IsPending(i)' <=> IsPending(i),
           \A u \in Users : Pending(u)' = Pending(u)
    PROVE  WorkspaceInv'
<1>1. UNCHANGED <<req, begun, raced, crossed, failed, members, trail>>
  BY DEF requests, decisions
<1>2. InFlight' = InFlight
  BY <1>1 DEF InFlight
<1>3. ASSUME NEW t \in InFlight PROVE Sound(t)'
  <2> USE DEF Unraced
  <2>1. Sound(t)
    BY DEF WorkspaceInv, WorkspaceRequestsInv
  <2>2. UpdateRequest(t)' /\ RemoveRequest(t)'
    BY <1>1, <2>1 DEF Sound, MemberRequest, UpdateRequest, RemoveRequest, IsLastAdmin, Admins,
                      IsAdmin, IsMember
  <2>3. InviteRequest(t)'
    BY <1>1, <2>1 DEF Sound, MemberRequest, InviteRequest
  <2>4. ResendRequest(t)'
    BY <1>1, <2>1 DEF Sound, MemberRequest, ResendRequest
  <2>5. AcceptRequest(t)'
    BY <1>1, <2>1 DEF Sound, MemberRequest, AcceptRequest, IsMember
  <2>6. VersionRequest(t)'
    BY <1>1, <2>1 DEF Sound, VersionRequest, Numbers, ruleSet
  <2>7. DecisionRequest(t)'
    BY <1>1, <2>1 DEF Sound, DecisionRequest, Current, TrailRows
  <2>8. QED
    BY <1>1, <2>1, <2>2, <2>3, <2>4, <2>5, <2>6, <2>7 DEF Sound, MemberRequest
<1>4. WorkspaceRequestsInv'
  BY <1>1, <1>2, <1>3 DEF WorkspaceRequestsInv, WorkspaceInv, AloneNeverFails
<1>5. QED
  BY <1>1, <1>4, VersionsStay, DecisionsStay DEF WorkspaceInv

LEMMA ExpireWorkspaceInv ==
    ASSUME WorkspaceInv, NEW i \in Ids, Expire(i), UNCHANGED <<ruleSet, decisions>>
    PROVE  WorkspaceInv'
<1> DEFINE row == [invitations[i] EXCEPT !.expired = TRUE]
<1>1. /\ invitations' = [invitations EXCEPT ![i] = row]
      /\ UNCHANGED <<requests, members, nextId, drawn, resent, newest, dropped>>
  BY Zenon DEF Expire
<1>2. MembersTypeOK
  BY DEF WorkspaceInv, MembersInv
<1>3. /\ row \in InvitationRows /\ row.to = invitations[i].to
      /\ row.link = invitations[i].link
      /\ row.accepted = invitations[i].accepted /\ row.revoked = invitations[i].revoked
  BY <1>2, InvitationIsRow DEF InvitationRows
<1> HIDE DEF row
<1>4. /\ Ids' = Ids /\ invitations'[i] = row
      /\ \A j \in Ids : j # i => invitations'[j] = invitations[j]
  BY <1>1, <1>2, <1>3, InvitationWritten
<1>5. /\ \A j \in Ids : IsPending(j)' <=> IsPending(j)
      /\ \A u \in Users : Pending(u)' = Pending(u)
  BY <1>3, <1>4 DEF Pending, IsPending
<1>6. AdminUnlessRaced' /\ crossed' = crossed
  BY <1>1 DEF requests, AdminUnlessRaced, Admins, IsAdmin, IsMember, WorkspaceInv, MembersInv
<1>7. MembersInv'
  BY <1>1, <1>2, <1>3, <1>6, InvitationCloses DEF MembersTypeOK
<1>8. QED
  BY <1>1, <1>4, <1>5, <1>7, TimeWorkspaceInv

LEMMA SecondPassesWorkspaceInv ==
    ASSUME WorkspaceInv, SecondPasses, UNCHANGED <<ruleSet, decisions>>
    PROVE  WorkspaceInv'
<1>1. /\ resent' = {}
      /\ UNCHANGED <<requests, members, nextId, invitations, drawn, newest, dropped>>
  BY DEF SecondPasses
<1>2. /\ Ids' = Ids /\ \A i \in Ids : IsPending(i)' <=> IsPending(i)
      /\ \A u \in Users : Pending(u)' = Pending(u)
  BY <1>1 DEF Pending, IsPending, Ids
<1>3. MembersInv'
  BY <1>1, <1>2 DEF WorkspaceInv, MembersInv, MembersTypeOK, OnePending, AdminUnlessRaced, NewestLinkWins,
       Admins, IsAdmin, IsMember, requests
<1>4. QED
  BY <1>1, <1>2, <1>3, TimeWorkspaceInv

-----------------------------------------------------------------------------
(* The rule set.                                                           *)

(* The next number is the one after the last, as there is no gap. *)
LEMMA NextNumberIsLast ==
    ASSUME WorkspaceInv
    PROVE  /\ NextNumber = Cardinality(versions) + 1 /\ Cardinality(versions) \in Nat
           /\ Numbers = 1..Cardinality(versions)
<1> DEFINE n == Cardinality(versions)
<1>1. n \in Nat /\ Numbers = 1..n /\ \A v \in versions : v.number \in 1..n
  BY FS_CardinalityType DEF WorkspaceInv, VersionsInv, VersionsAreDense, Numbers
<1>2. \A m \in 1..(n + 1) :
        (m \notin Numbers /\ \A v \in versions : v.number < m) <=> m = n + 1
  BY <1>1
<1>3. n + 1 \in 1..(n + 1)
  BY <1>1
<1>4. NextNumber = CHOOSE m \in 1..(n + 1) : m = n + 1
  BY <1>2 DEF NextNumber
<1>5. QED
  BY <1>1, <1>3, <1>4

(* A step of the rule set that reads: OpenRead, SaveRead and ActivateRead. *)
LEMMA RulesReadWorkspaceInv ==
    ASSUME WorkspaceInv, NEW s \in Slots, NEW by,
           \/ OpenRead(s, by)
           \/ \E definition \in Definitions : SaveRead(s, by, definition)
           \/ \E number \in 1..MaxRequests : ActivateRead(s, by, number),
           UNCHANGED <<organization, decisions>>
    PROVE  WorkspaceInv'
<1> USE DEF Sound, Kinds, MemberRequest, UpdateRequest, RemoveRequest, InviteRequest,
            ResendRequest, AcceptRequest, VersionRequest, DecisionRequest
<1>1. CASE OpenRead(s, by)
  <2> DEFINE r == [op |-> "open", loaded |-> LoadedSet]
  <2>1. Reads(s, r) /\ UNCHANGED ruleSet
    BY <1>1 DEF OpenRead
  <2>2. r.loaded.exists = created'
    BY <2>1 DEF LoadedSet, ruleSet
  <2>3. ASSUME req'[s] = r PROVE Sound(s)'
    BY <2>2, <2>3
  <2>4. QED
    BY <2>1, <2>3, ReadWorkspaceInv
<1>2. CASE \E definition \in Definitions : SaveRead(s, by, definition)
  <2>1. PICK definition \in Definitions : SaveRead(s, by, definition)
    BY <1>2
  <2> DEFINE r == [op |-> "save", definition |-> definition,
                   number |-> NextNumber, loaded |-> LoadedSet]
  <2>2. Reads(s, r) /\ UNCHANGED ruleSet
    BY <2>1 DEF SaveRead
  <2>3. r.loaded.exists = created'
    BY <2>2 DEF LoadedSet, ruleSet
  <2>4. r.number = Cardinality(versions)' + 1 /\ r.number \in 1..(Cardinality(versions)' + 1)
    BY <2>2, NextNumberIsLast, NumbersStay
  <2>5. ASSUME req'[s] = r PROVE Sound(s)'
    BY <2>3, <2>4, <2>5
  <2>6. QED
    BY <2>2, <2>5, ReadWorkspaceInv
<1>3. CASE \E number \in 1..MaxRequests : ActivateRead(s, by, number)
  <2>1. PICK number \in 1..MaxRequests : ActivateRead(s, by, number)
    BY <1>3
  <2> DEFINE r == [op |-> "activate", number |-> number, loaded |-> LoadedSet]
  <2>2. Reads(s, r) /\ UNCHANGED ruleSet /\ number \in Numbers
    BY <2>1 DEF ActivateRead
  <2>3. r.loaded.inForce = inForce' /\ number \in Numbers'
    BY <2>2, NumbersStay DEF LoadedSet, ruleSet
  <2>4. ASSUME req'[s] = r PROVE Sound(s)'
    BY <2>3, <2>4
  <2>5. QED
    BY <2>2, <2>4, ReadWorkspaceInv
<1>4. QED
  BY <1>1, <1>2, <1>3

LEMMA RulesWorkspaceInv ==
    ASSUME WorkspaceInv, WorkspaceRequestsInv', crossed \subseteq crossed', VersionsInv',
           UNCHANGED <<organization, decisions>>
    PROVE  WorkspaceInv'
BY MembersStay, DecisionsStay DEF WorkspaceInv

LEMMA OpenWriteWorkspaceInv ==
    ASSUME WorkspaceInv, NEW s \in InFlight, OpenWrite(s), UNCHANGED <<organization, decisions>>
    PROVE  WorkspaceInv'
<1>1. /\ created' = TRUE /\ UNCHANGED <<versions, inForce, asked>>
      /\ IF Collides(req[s].loaded) THEN Fails(s) ELSE Commits(s)
  BY DEF OpenWrite
<1>2. Unraced(s) => req[s].loaded.exists = created
  BY DEF OpenWrite, WorkspaceInv, WorkspaceRequestsInv, Sound, VersionRequest
<1>3. WorkspaceRequestsInv' /\ crossed \subseteq crossed'
  <2>1. CASE Collides(req[s].loaded)
    <3>1. Fails(s) /\ s \in raced /\ UNCHANGED ruleSet
      BY <1>1, <1>2, <2>1 DEF Collides, Unraced, ruleSet, WorkspaceInv, VersionsInv, VersionsTypeOK
    <3>2. QED
      BY <3>1, FailKeeps DEF organization, decisions, WorkspaceInv
  <2>2. CASE ~Collides(req[s].loaded)
    <3>1. Commits(s) /\ Ids' = Ids /\ Numbers' = Numbers
      BY <1>1, <2>2 DEF organization, Ids, Numbers
    <3>2. Cardinality(versions) \in Nat /\ Cardinality(versions)' = Cardinality(versions)
      BY <1>1, NextNumberIsLast
    <3>3. QED
      BY <3>1, <3>2, CommitKeeps DEF WorkspaceInv
  <2>3. QED
    BY <2>1, <2>2
<1>4. VersionsInv'
  BY <1>1, <1>3 DEF WorkspaceInv, VersionsInv, VersionsTypeOK, VersionsAreDense, Numbers, RulesAsAsked
<1>5. QED
  BY <1>3, <1>4, RulesWorkspaceInv

LEMMA SaveWriteWorkspaceInv ==
    ASSUME WorkspaceInv, NEW s \in InFlight, SaveWrite(s), UNCHANGED <<organization, decisions>>
    PROVE  WorkspaceInv'
<1> DEFINE n == Cardinality(versions)
           row == [number |-> req[s].number, definition |-> req[s].definition]
<1>1. /\ req[s].definition \in Definitions /\ req[s].number \in 1..(n + 1)
      /\ Unraced(s) => req[s].loaded.exists = created /\ req[s].number = n + 1
  BY DEF SaveWrite, WorkspaceInv, WorkspaceRequestsInv, Sound, VersionRequest
<1>2. n \in Nat /\ Numbers = 1..n
  BY NextNumberIsLast
<1>3. CASE Collides(req[s].loaded) \/ req[s].number \in Numbers
  <2>1. Fails(s) /\ UNCHANGED ruleSet
    BY <1>3 DEF SaveWrite
  <2>2. s \in raced
    BY <1>1, <1>2, <1>3 DEF Collides, Unraced
  <2>3. WorkspaceRequestsInv' /\ crossed' = crossed
    BY <2>1, <2>2, FailKeeps DEF organization, decisions, WorkspaceInv
  <2>4. QED
    BY <2>1, <2>3, VersionsStay, RulesWorkspaceInv DEF WorkspaceInv
<1>4. CASE ~(Collides(req[s].loaded) \/ req[s].number \in Numbers)
  <2>1. /\ versions' = versions \cup {row} /\ created' = TRUE
        /\ inForce' = req[s].number /\ asked' = req[s].number /\ Commits(s)
    BY <1>4 DEF SaveWrite
  <2>2. req[s].number = n + 1 /\ row \notin versions
    BY <1>1, <1>2, <1>4 DEF Numbers
  <2>3. IsFiniteSet(versions') /\ Cardinality(versions') = n + 1
    BY <2>1, <2>2, FS_AddElement DEF WorkspaceInv, VersionsInv
  <2>4. Numbers' = 1..(n + 1)
    <3>1. Numbers' = Numbers \cup {n + 1}
      BY <2>1, <2>2 DEF Numbers
    <3>2. QED
      BY <1>2, <3>1
  <2>5. Ids' = Ids
    BY DEF organization, Ids
  <2>6. n + 1 \in Nat /\ n <= n + 1 /\ Numbers \subseteq Numbers' /\ n + 1 \in 1..(n + 1)
        /\ n + 1 \in Nat \ {0}
    BY <1>2, <2>4
  <2>7. WorkspaceRequestsInv' /\ crossed \subseteq crossed'
    <3>1. Cardinality(versions)' \in Nat /\ Cardinality(versions) <= Cardinality(versions)'
      BY <2>3, <2>6
    <3>2. QED
      BY <1>2, <2>1, <2>5, <2>6, <3>1, CommitKeeps DEF WorkspaceInv
  <2>8. VersionsTypeOK'
    <3>1. row \in [number : Nat \ {0}, definition : Definitions]
      BY <1>1, <2>2, <2>6
    <3>2. versions' \subseteq [number : Nat \ {0}, definition : Definitions]
      BY <2>1, <3>1 DEF WorkspaceInv, VersionsInv, VersionsTypeOK
    <3>3. {inForce', asked'} \subseteq Numbers'
      BY <2>1, <2>2, <2>4, <2>6
    <3>4. QED
      BY <2>1, <3>2, <3>3 DEF VersionsTypeOK, Numbers
  <2>9. RulesAsAsked'
    BY <2>1 DEF RulesAsAsked
  <2>10. VersionsAreDense'
    BY <2>3, <2>4 DEF VersionsAreDense
  <2>11. VersionsInv'
    BY <2>3, <2>8, <2>9, <2>10 DEF VersionsInv
  <2>12. QED
    BY <2>7, <2>11, RulesWorkspaceInv
<1>5. QED
  BY <1>3, <1>4

(* The version that is asked for comes into force, unless it was when the  *)
(* request began, and is not any more. *)
LEMMA ActivateWriteWorkspaceInv ==
    ASSUME WorkspaceInv, NEW s \in InFlight, ActivateWrite(s), UNCHANGED <<organization, decisions>>
    PROVE  WorkspaceInv'
<1>1. /\ inForce' = Pointer(req[s]) /\ asked' = req[s].number /\ Commits(s)
      /\ UNCHANGED <<created, versions>>
  BY DEF ActivateWrite
<1>2. req[s].number \in Numbers /\ (Unraced(s) => req[s].loaded.inForce = inForce)
  BY DEF ActivateWrite, WorkspaceInv, WorkspaceRequestsInv, Sound, VersionRequest
<1>3. Cardinality(versions) \in Nat /\ Ids' = Ids /\ Numbers' = Numbers
  BY <1>1, NextNumberIsLast DEF organization, Ids, Numbers
<1>4. WorkspaceRequestsInv' /\ crossed \subseteq crossed' /\ (s \in raced => "activate" \in crossed')
  BY <1>1, <1>3, CommitKeeps DEF WorkspaceInv, ActivateWrite
<1>5. inForce' \in Numbers \cup {0} /\ (Unraced(s) => inForce' = req[s].number)
  BY <1>1, <1>2 DEF Pointer, Column, WorkspaceInv, VersionsInv, VersionsTypeOK, Numbers
<1>6. VersionsInv'
  <2>1. RulesAsAsked'
    BY <1>1, <1>4, <1>5 DEF RulesAsAsked, Unraced
  <2>2. VersionsTypeOK'
    BY <1>1, <1>2, <1>5 DEF WorkspaceInv, VersionsInv, VersionsTypeOK, Numbers
  <2>3. QED
    BY <1>1, <1>3, <2>1, <2>2 DEF WorkspaceInv, VersionsInv, VersionsAreDense
<1>7. QED
  BY <1>4, <1>6, RulesWorkspaceInv

-----------------------------------------------------------------------------
(* Decisions.                                                              *)

LEMMA TrailIsRow ==
    ASSUME DecisionsTypeOK, NEW i \in TrailRows
    PROVE  trail[i].decision \in Outcomes /\ trail[i].current \in BOOLEAN
<1> DEFINE R == [decision : Outcomes, current : BOOLEAN]
<1>1. trail \in Seq(R) /\ i \in 1..Len(trail)
  BY DEF DecisionsTypeOK, TrailRows
<1>2. trail[i] \in R
  BY <1>1, ElementOfSeq
<1>3. QED
  BY <1>2

LEMMA CurrentAreNumbers ==
    ASSUME DecisionsTypeOK
    PROVE  Current \subseteq Nat /\ Len(trail) \in Nat
<1>1. Len(trail) \in Nat
  BY LenProperties DEF DecisionsTypeOK
<1>2. QED
  BY <1>1 DEF Current, TrailRows

LEMMA DecideReadWorkspaceInv ==
    ASSUME WorkspaceInv, NEW s \in Slots, NEW by, NEW op \in {"record", "clear"},
           NEW decision \in Outcomes \cup {None}, DecideRead(s, by, op, decision),
           op = "record" => decision \in Outcomes,
           UNCHANGED <<organization, ruleSet>>
    PROVE  WorkspaceInv'
<1> DEFINE r == [op |-> op, decision |-> decision, seen |-> Current, demoted |-> None]
<1>1. Reads(s, r) /\ UNCHANGED decisions /\ (op = "record" => decision # None)
  BY DEF DecideRead
<1>2. Current' = Current
  BY <1>1 DEF decisions, Current, TrailRows
<1>3. r \in Rulings
  BY CurrentAreNumbers DEF Rulings, WorkspaceInv, DecisionsInv
<1>4. ASSUME req'[s] = r PROVE Sound(s)'
  BY <1>1, <1>2, <1>3, <1>4
  DEF Sound, Kinds, MemberRequest, UpdateRequest, RemoveRequest, InviteRequest, ResendRequest,
      AcceptRequest, VersionRequest, DecisionRequest
<1>5. QED
  BY <1>1, <1>4, ReadWorkspaceInv

LEMMA DemoteWorkspaceInv ==
    ASSUME WorkspaceInv, NEW s \in InFlight, Demote(s), UNCHANGED <<organization, ruleSet>>
    PROVE  WorkspaceInv'
<1> DEFINE r == [req[s] EXCEPT !.demoted = req[s].seen \cap Current]
<1>1. /\ ReadsOn(s, r) /\ UNCHANGED decisions /\ s \in Slots
      /\ req[s].op \in {"record", "clear"}
  BY DEF Demote, IsDecision, InFlight
<1>2. /\ req[s] \in Rulings
      /\ req[s].op = "record" => req[s].decision \in Outcomes /\ req[s].decision # None
      /\ Unraced(s) => req[s].seen = Current
  BY <1>1 DEF WorkspaceInv, WorkspaceRequestsInv, Sound, DecisionRequest
<1>3. /\ r \in Rulings /\ r # None /\ r.op = req[s].op /\ r.seen = req[s].seen
      /\ r.decision = req[s].decision /\ r.demoted = req[s].seen \cap Current
  BY <1>2, DecisionsAssumption DEF Rulings
<1> HIDE DEF r
<1>4. Current' = Current /\ raced' = raced /\ crossed' = crossed
  BY <1>1 DEF decisions, Current, TrailRows, ReadsOn
<1>5. ASSUME req'[s] = r PROVE Sound(s)'
  BY <1>1, <1>2, <1>3, <1>4, <1>5
  DEF Unraced, Sound, Kinds, MemberRequest, UpdateRequest, RemoveRequest, InviteRequest,
      ResendRequest, AcceptRequest, VersionRequest, DecisionRequest
<1>6. WorkspaceRequestsInv'
  BY <1>1, <1>3, <1>5, ReadOnKeeps DEF WorkspaceInv, organization, decisions
<1>7. QED
  BY <1>1, <1>4, <1>6, MembersStay, VersionsStay, DecisionsStay DEF WorkspaceInv

(* A row is superseded, and is not written otherwise. *)
LEMMA SupersededRows ==
    ASSUME DecisionsTypeOK, NEW s
    PROVE  /\ Superseded(s) \in Seq([decision : Outcomes, current : BOOLEAN])
           /\ Len(Superseded(s)) = Len(trail) /\ DOMAIN Superseded(s) = TrailRows
           /\ \A i \in TrailRows :
                /\ Superseded(s)[i].decision = trail[i].decision
                /\ Superseded(s)[i].current = (trail[i].current /\ i \notin req[s].demoted)
<1> DEFINE R == [decision : Outcomes, current : BOOLEAN]
<1>1. \A i \in TrailRows : trail[i] \in R
  BY ElementOfSeq DEF TrailRows, DecisionsTypeOK
<1>2. \A i \in TrailRows :
        /\ Superseded(s)[i] \in R
        /\ Superseded(s)[i].decision = trail[i].decision
        /\ Superseded(s)[i].current = (trail[i].current /\ i \notin req[s].demoted)
  BY <1>1 DEF Superseded
<1>3. Superseded(s) \in [1..Len(trail) -> R] /\ DOMAIN Superseded(s) = 1..Len(trail)
  BY <1>2 DEF Superseded, TrailRows
<1>4. Superseded(s) \in Seq(R)
  BY <1>3, CurrentAreNumbers, SeqDef
<1>5. QED
  BY <1>2, <1>3, <1>4, CurrentAreNumbers, LenProperties DEF TrailRows

LEMMA DecisionsWorkspaceInv ==
    ASSUME WorkspaceInv, NEW s \in InFlight, Commits(s), DecisionsInv',
           UNCHANGED <<organization, ruleSet>>
    PROVE  WorkspaceInv'
<1>1. Ids' = Ids /\ Numbers' = Numbers /\ Cardinality(versions)' = Cardinality(versions)
      /\ Cardinality(versions) \in Nat
  BY NumbersStay DEF organization, Ids
<1>2. WorkspaceRequestsInv' /\ crossed \subseteq crossed'
  BY <1>1, CommitKeeps DEF WorkspaceInv
<1>3. QED
  BY <1>2, MembersStay, VersionsStay DEF WorkspaceInv

LEMMA RecordWriteWorkspaceInv ==
    ASSUME WorkspaceInv, NEW s \in InFlight, RecordWrite(s), UNCHANGED <<organization, ruleSet>>
    PROVE  WorkspaceInv'
<1> DEFINE R == [decision : Outcomes, current : BOOLEAN]
           row == [decision |-> req[s].decision, current |-> TRUE]
           n == Len(trail)
<1>1. /\ req[s].decision \in Outcomes /\ req[s].decision # None /\ req[s].demoted # None
      /\ Unraced(s) => req[s].demoted = Current
  BY DEF RecordWrite, WorkspaceInv, WorkspaceRequestsInv, Sound, DecisionRequest
<1>2. DecisionsTypeOK
  BY DEF WorkspaceInv, DecisionsInv
<1>3. CASE ~(Current \subseteq req[s].demoted)
  <2>1. Fails(s) /\ UNCHANGED decisions /\ s \in raced
    BY <1>1, <1>3 DEF RecordWrite, Unraced
  <2>2. WorkspaceRequestsInv' /\ crossed' = crossed
    BY <2>1, FailKeeps DEF organization, decisions, WorkspaceInv
  <2>3. QED
    BY <2>1, <2>2, MembersStay, VersionsStay, DecisionsStay DEF WorkspaceInv
<1>4. CASE Current \subseteq req[s].demoted
  <2>1. /\ trail' = Append(Superseded(s), row)
        /\ lastWord' = req[s].decision /\ Commits(s)
    BY <1>4 DEF RecordWrite
  <2>2. /\ Superseded(s) \in Seq(R) /\ Len(Superseded(s)) = n /\ row \in R
        /\ \A i \in TrailRows : Superseded(s)[i].current => trail[i].current /\ i \notin req[s].demoted
    BY <1>1, <1>2, SupersededRows
  <2>3. /\ trail' \in Seq(R) /\ Len(trail') = n + 1
        /\ \A i \in 1..n : trail'[i] = Superseded(s)[i]
        /\ trail'[n + 1] = row
    BY <2>1, <2>2, AppendProperties
  <2>4. n \in Nat /\ TrailRows' = TrailRows \cup {n + 1} /\ n + 1 \notin TrailRows
    BY <1>2, <2>3, CurrentAreNumbers DEF TrailRows
  <2>5. Current' = {n + 1}
    <3>1. \A i \in TrailRows : ~trail'[i].current
      BY <1>4, <2>2, <2>3 DEF TrailRows, Current
    <3>2. trail'[n + 1].current
      BY <2>3
    <3>3. QED
      BY <2>4, <3>1, <3>2 DEF Current
  <2>6. DecisionsInv'
    <3>1. {trail'[i].decision : i \in Current'} = {req[s].decision}
      BY <2>3, <2>5
    <3>2. QED
      BY <1>1, <2>1, <2>3, <3>1 DEF DecisionsInv, DecisionsTypeOK, LastWordStands
  <2>7. QED
    BY <2>1, <2>6, DecisionsWorkspaceInv
<1>5. QED
  BY <1>3, <1>4

LEMMA ClearWriteWorkspaceInv ==
    ASSUME WorkspaceInv, NEW s \in InFlight, ClearWrite(s), UNCHANGED <<organization, ruleSet>>
    PROVE  WorkspaceInv'
<1> DEFINE R == [decision : Outcomes, current : BOOLEAN]
<1>1. /\ trail' = Superseded(s) /\ lastWord' = None /\ Commits(s)
      /\ Unraced(s) => req[s].demoted = Current
  BY DEF ClearWrite, WorkspaceInv, WorkspaceRequestsInv, Sound, DecisionRequest
<1>2. DecisionsTypeOK
  BY DEF WorkspaceInv, DecisionsInv
<1>3. /\ trail' \in Seq(R) /\ TrailRows' = TrailRows
      /\ \A i \in TrailRows : trail'[i].current = (trail[i].current /\ i \notin req[s].demoted)
  BY <1>1, <1>2, SupersededRows DEF TrailRows
<1>4. Unraced(s) => Current' = {}
  BY <1>1, <1>3 DEF Current
<1>5. s \in raced => "clear" \in crossed'
  BY DEF ClearWrite, Commits
<1>6. DecisionsInv'
  BY <1>1, <1>3, <1>4, <1>5 DEF Unraced, DecisionsInv, DecisionsTypeOK, LastWordStands
<1>7. QED
  BY <1>1, <1>6, DecisionsWorkspaceInv

-----------------------------------------------------------------------------
(* The steps together.                                                     *)

LEMMA InitWorkspaceInv ==
    ASSUME Init
    PROVE  WorkspaceInv
<1>1. WorkspaceRequestsInv
  BY RequestsAssumption DEF Init, RequestsInit, WorkspaceRequestsInv, InFlight, AloneNeverFails
<1>2. PICK founders \in (SUBSET Users) \ {{}}, out \in SUBSET Users :
        members = [u \in Users |->
              IF u \in founders \cup out
              THEN [id |-> 0, role |-> "admin", active |-> u \in founders] ELSE None]
  BY DEF Init, MembersInit
<1>3. /\ nextId = 1 /\ invitations = << >> /\ drawn = 0 /\ resent = {}
      /\ newest = [u \in Users |-> 0] /\ dropped = {}
  BY DEF Init, MembersInit
<1>4. Ids = {}
  BY <1>3 DEF Ids
<1>5. members \in [Users -> Opt(Memberships)]
  <2>1. \A u \in Users : [id |-> 0, role |-> "admin", active |-> u \in founders] \in Memberships
    BY DEF Memberships, Roles
  <2>2. QED
    BY <1>2, <2>1 DEF Opt
<1>6. MembersTypeOK
  <2>1. \A u \in Users : members[u] # None => members[u].id = 0
    BY <1>2
  <2>2. << >> \in Seq(InvitationRows)
    BY EmptySeq
  <2>3. QED
    BY <1>3, <1>4, <1>5, <2>1, <2>2 DEF MembersTypeOK, InvitationRows
<1>7. AdminUnlessRaced
  <2>1. PICK u \in founders : u \in Users
    OBVIOUS
  <2>2. members[u] = [id |-> 0, role |-> "admin", active |-> TRUE]
    BY <1>2, <2>1
  <2>3. [id |-> 0, role |-> "admin", active |-> TRUE] \in Memberships
    BY DEF Memberships, Roles
  <2>4. members[u] # None
    BY <2>2, <2>3, MembersAssumption
  <2>5. u \in Admins
    BY <2>1, <2>2, <2>4 DEF Admins, IsAdmin, IsMember
  <2>6. QED
    BY <2>5 DEF AdminUnlessRaced
<1>8. MembersInv
  BY <1>4, <1>6, <1>7 DEF MembersInv, OnePending, NewestLinkWins, Pending
<1>9. VersionsInv
  <2>1. versions = {} /\ inForce = 0 /\ asked = 0 /\ created = FALSE
    BY DEF Init, VersionsInit
  <2>2. IsFiniteSet(versions) /\ Cardinality(versions) = 0
    BY <2>1, FS_EmptySet
  <2>3. Numbers = {} /\ 1..0 = {}
    BY <2>1 DEF Numbers
  <2>4. QED
    BY <2>1, <2>2, <2>3 DEF VersionsInv, VersionsTypeOK, VersionsAreDense, RulesAsAsked
<1>10. DecisionsInv
  <2>1. trail = << >> /\ lastWord = None
    BY DEF Init, DecisionsInit
  <2>2. TrailRows = {}
    BY <2>1 DEF TrailRows
  <2>3. << >> \in Seq([decision : Outcomes, current : BOOLEAN])
    BY EmptySeq
  <2>4. QED
    BY <2>1, <2>2, <2>3 DEF DecisionsInv, DecisionsTypeOK, LastWordStands, Current
<1>11. QED
  BY <1>1, <1>8, <1>9, <1>10 DEF WorkspaceInv

LEMMA MembershipNextWorkspaceInv ==
    ASSUME WorkspaceInv, Membership
    PROVE  WorkspaceInv'
<1>1. MembersNext /\ UNCHANGED <<ruleSet, decisions>>
  BY DEF Membership
<1>2. CASE \E s \in Slots, by, u \in Users :
             \/ \E role \in Opt(Roles), active \in Opt(BOOLEAN) :
                  UpdateRead(s, by, u, role, active)
             \/ RemoveRead(s, by, u)
             \/ \E role \in Roles : InviteRead(s, by, u, role)
  BY <1>1, <1>2, UpdateReadWorkspaceInv, RemoveReadWorkspaceInv, InviteReadWorkspaceInv
<1>3. CASE \E s \in Slots, i \in Ids :
             \/ \E by \in Users : ResendRead(s, by, i) \/ RevokeRead(s, by, i)
             \/ AcceptRead(s, i)
  BY <1>1, <1>3, InvitationReadWorkspaceInv, AcceptReadWorkspaceInv
<1>4. CASE \E s \in InFlight :
             \/ UpdateWrite(s) \/ RemoveWrite(s) \/ InviteWrite(s)
             \/ ResendWrite(s) \/ RevokeWrite(s) \/ AcceptWrite(s)
  BY <1>1, <1>4, UpdateWriteWorkspaceInv, RemoveWriteWorkspaceInv, InviteWriteWorkspaceInv, ResendWriteWorkspaceInv,
     RevokeWriteWorkspaceInv, AcceptWriteWorkspaceInv
<1>5. CASE \E i \in Ids : Expire(i)
  BY <1>1, <1>5, ExpireWorkspaceInv
<1>6. CASE SecondPasses
  BY <1>1, <1>6, SecondPassesWorkspaceInv
<1>7. QED
  BY <1>1, <1>2, <1>3, <1>4, <1>5, <1>6 DEF MembersNext

LEMMA RulesNextWorkspaceInv ==
    ASSUME WorkspaceInv, Rules
    PROVE  WorkspaceInv'
<1>1. UNCHANGED <<organization, decisions>>
  BY DEF Rules
<1>2. CASE \E s \in InFlight : OpenWrite(s) \/ SaveWrite(s) \/ ActivateWrite(s)
  BY <1>1, <1>2, OpenWriteWorkspaceInv, SaveWriteWorkspaceInv, ActivateWriteWorkspaceInv
<1>3. CASE \E s \in Slots, by \in Users :
             \/ OpenRead(s, by)
             \/ \E definition \in Definitions : SaveRead(s, by, definition)
             \/ \E number \in 1..MaxRequests : ActivateRead(s, by, number)
  BY <1>1, <1>3, RulesReadWorkspaceInv
<1>4. QED
  BY <1>2, <1>3 DEF Rules

LEMMA DecidingNextWorkspaceInv ==
    ASSUME WorkspaceInv, Deciding
    PROVE  WorkspaceInv'
<1>1. UNCHANGED <<organization, ruleSet>>
  BY DEF Deciding
<1>2. CASE \E s \in InFlight : Demote(s) \/ RecordWrite(s) \/ ClearWrite(s)
  BY <1>1, <1>2, DemoteWorkspaceInv, RecordWriteWorkspaceInv, ClearWriteWorkspaceInv
<1>3. CASE \E s \in Slots, by \in Users :
             \/ \E outcome \in Outcomes : DecideRead(s, by, "record", outcome)
             \/ DecideRead(s, by, "clear", None)
  BY <1>1, <1>3, DecideReadWorkspaceInv
<1>4. QED
  BY <1>2, <1>3 DEF Deciding

LEMMA StutterWorkspaceInv ==
    ASSUME WorkspaceInv, UNCHANGED vars
    PROVE  WorkspaceInv'
<1>1. UNCHANGED <<req, begun, raced, crossed, failed, organization, ruleSet, decisions>>
  BY DEF vars, requests
<1>2. \A t \in InFlight : Sound(t)'
  BY <1>1, OthersStay DEF WorkspaceInv, WorkspaceRequestsInv, organization, decisions
<1>3. WorkspaceRequestsInv'
  BY <1>1, <1>2 DEF WorkspaceInv, WorkspaceRequestsInv, InFlight, AloneNeverFails
<1>4. QED
  BY <1>1, <1>3, MembersStay, VersionsStay, DecisionsStay DEF WorkspaceInv

(* The inductive invariant of what a workspace shares, in every reachable  *)
(* state. *)
THEOREM Sharing == Spec => []WorkspaceInv
<1>1. WorkspaceInv /\ [Next]_vars => WorkspaceInv'
  BY MembershipNextWorkspaceInv, RulesNextWorkspaceInv, DecidingNextWorkspaceInv, StutterWorkspaceInv DEF Next
<1>2. QED
  BY InitWorkspaceInv, <1>1, PTL DEF Spec

(* Type correctness of members, rule sets and decisions together. *)
THEOREM WorkspaceTypes == Spec => []TypeOK
<1>1. WorkspaceInv => TypeOK
  BY DEF WorkspaceInv, WorkspaceRequestsInv, MembersInv, VersionsInv, DecisionsInv, TypeOK, AloneNeverFails, Kinds
<1>2. QED
  BY Sharing, <1>1, PTL

(* The guards that count the admins before they write                      *)
(* (orgs/service.py:225-233) keep one, unless a change of the memberships  *)
(* was overtaken.                                                          *)
THEOREM AdminsRemain == Spec => []AdminUnlessRaced
BY Sharing, PTL DEF WorkspaceInv, MembersInv

(* An address has one pending invitation at most: the partial index, and   *)
(* the revocation of the one before (orgs/service.py:256-259).             *)
THEOREM OneInvitation == Spec => []OnePending
BY Sharing, PTL DEF WorkspaceInv, MembersInv

(* The newest link mailed is the one that opens the pending invitation     *)
(* (orgs/service.py:245-246), but for a resend that was overtaken.         *)
THEOREM NewestLink == Spec => []NewestLinkWins
BY Sharing, PTL DEF WorkspaceInv, MembersInv

(* A request that overlaps no other one violates no constraint, and finds  *)
(* the row it read: the code's checks before it writes are enough.         *)
THEOREM OnlyRacesFail == Spec => []AloneNeverFails
BY Sharing, PTL DEF WorkspaceInv, WorkspaceRequestsInv

(* What the last answered save, roll-back or decision asked for is in      *)
(* force (rules/service.py:212-267, decisions/service.py).                 *)
THEOREM AnswersKept == Spec => []AnswersStand
<1>1. WorkspaceInv => AnswersStand
  BY DEF WorkspaceInv, VersionsInv, DecisionsInv, AnswersStand
<1>2. QED
  BY Sharing, <1>1, PTL

(* Versions are numbered without a gap (rules/service.py:221-252), whatever *)
(* was raced: the next number comes from the last one, and is unique.      *)
THEOREM NoGapInVersions == Spec => []VersionsAreDense
BY Sharing, PTL DEF WorkspaceInv, VersionsInv

-----------------------------------------------------------------------------
(* The profile.                                                            *)

(* How a request on the profile can be.                                    *)
WellFormed(r) ==
    /\ r \in EditRequests
    /\ r.op = "put" => r.target \in Columns
    /\ r.op \in {"add", "update", "delete"} => r.target \in RowIds
    /\ r.op \in {"add", "update"} => r.value # None
    /\ r.step = "creating" <=> r.loaded = None
    /\ r.op = "read" => r.step \in {"creating", "loaded"}
    /\ r.step = "scheduled" => r.op = "put" /\ r.asked # None

CurrentProfile == IF profile = None THEN Fresh ELSE profile

(* What it has read is how things are, and what it is to write of the      *)
(* completeness is right.                                                  *)
IsUpToDate(r) ==
    /\ r.step = "creating" => profile = None
    /\ r.step # "creating" => r.loaded = CurrentProfile
    /\ r.found = IF r.target \in DOMAIN rows THEN rows[r.target] ELSE None
    /\ r.step \in {"flushed", "touched", "scheduled"} =>
         r.completeness = Completeness(WithColumn(r, r.loaded.columns), WithRow(r, rows))

SoundEdit(s) ==
    IF req[s].op = "rematch" THEN req[s] \in ManualRequests
    ELSE WellFormed(req[s]) /\ (Unraced(s) => IsUpToDate(req[s]))

EditsInv ==
    /\ req = [s \in Slots |-> req[s]]
    /\ begun \in 0..MaxRequests /\ hits <= begun
    /\ raced \subseteq InFlight
    /\ failed = {}
    /\ \A s \in InFlight : SoundEdit(s)

(* The version of the profile is the last one, and stands for what it      *)
(* says.                                                                   *)
VersionIsLast ==
    /\ profile # None =>
         /\ <<profile.version, profile.columns, rows>> \in told
         /\ \A a \in told : a[1] \in Nat /\ a[1] <= profile.version
    /\ VersionsTellApart

ProfileInv ==
    /\ ProfilesTypeOK /\ rows = [i \in DOMAIN rows |-> rows[i]]
    /\ profile = None => told = {}
    /\ crossed \cap Edits = {} => VersionIsLast
    /\ CompletenessFits

ProfilesInv == EditsInv /\ ProfileInv /\ EditsAreFollowed /\ LimitLifts

(* A request of another slot, when the profile is as it was ... *)
LEMMA OtherEditsStay ==
    ASSUME NEW t, SoundEdit(t), req'[t] = req[t], t \in raced <=> t \in raced',
           UNCHANGED stored
    PROVE  SoundEdit(t)'
<1>1. ASSUME NEW r, IsUpToDate(r) PROVE IsUpToDate(r)'
  BY <1>1 DEF IsUpToDate, stored, CurrentProfile, WithColumn, WithRow
<1>2. QED
  BY <1>1 DEF SoundEdit, Unraced, WellFormed

(* ... and when it is raced. *)
LEMMA OtherEditsRaced ==
    ASSUME NEW t, SoundEdit(t), req'[t] = req[t], t \in raced'
    PROVE  SoundEdit(t)'
BY DEF SoundEdit, Unraced, WellFormed

LEMMA EditReads ==
    ASSUME EditsInv, NEW s \in Slots, NEW r, Reads(s, r), UNCHANGED stored,
           hits' <= begun', req'[s] = r => SoundEdit(s)'
    PROVE  EditsInv' /\ crossed' = crossed
<1>1. /\ req'[s] = r /\ \A t \in Slots : t # s => req'[t] = req[t]
      /\ req' = [t \in Slots |-> req'[t]]
      /\ UNCHANGED <<raced, crossed, failed>>
  BY DEF EditsInv, Reads
<1>2. begun' \in 0..MaxRequests
  BY RequestsAssumption DEF EditsInv, Reads
<1>3. raced' \subseteq InFlight'
  BY <1>1 DEF EditsInv, Reads, InFlight
<1>4. ASSUME NEW t \in InFlight' PROVE SoundEdit(t)'
  BY <1>1, <1>4, OtherEditsStay DEF EditsInv, InFlight
<1>5. QED
  BY <1>1, <1>2, <1>3, <1>4 DEF EditsInv

LEMMA EditReadsOn ==
    ASSUME EditsInv, NEW s \in Slots, NEW r, ReadsOn(s, r), r # None, UNCHANGED <<stored, hits>>,
           req'[s] = r => SoundEdit(s)'
    PROVE  EditsInv' /\ UNCHANGED <<crossed, raced, begun>>
<1>1. /\ req'[s] = r /\ \A t \in Slots : t # s => req'[t] = req[t]
      /\ req' = [t \in Slots |-> req'[t]]
      /\ UNCHANGED <<begun, raced, crossed, failed>>
  BY DEF EditsInv, ReadsOn
<1>2. raced' \subseteq InFlight'
  BY <1>1 DEF EditsInv, InFlight
<1>3. ASSUME NEW t \in InFlight' PROVE SoundEdit(t)'
  BY <1>1, <1>3, OtherEditsStay DEF EditsInv, InFlight
<1>4. QED
  BY <1>1, <1>2, <1>3 DEF EditsInv

LEMMA EditCommits ==
    ASSUME EditsInv, NEW s \in InFlight, Commits(s), UNCHANGED hits
    PROVE  /\ EditsInv' /\ crossed \subseteq crossed'
           /\ s \in raced => req[s].op \in crossed'
<1>1. /\ req'[s] = None /\ \A t \in Slots : t # s => req'[t] = req[t]
      /\ req' = [t \in Slots |-> req'[t]]
      /\ raced' = (raced \cup InFlight) \ {s}
      /\ crossed' = IF s \in raced THEN crossed \cup {req[s].op} ELSE crossed
      /\ UNCHANGED <<begun, failed>>
  BY DEF EditsInv, Commits, InFlight
<1>2. InFlight' = InFlight \ {s} /\ raced' = InFlight'
  BY <1>1 DEF EditsInv, InFlight
<1>3. ASSUME NEW t \in InFlight' PROVE SoundEdit(t)'
  BY <1>1, <1>2, <1>3, OtherEditsRaced DEF EditsInv, InFlight
<1>4. QED
  BY <1>1, <1>2, <1>3 DEF EditsInv

(* A request fails, which only one that is raced does, or ends. *)
LEMMA EditEnds ==
    ASSUME EditsInv, NEW s \in InFlight, (Fails(s) /\ s \in raced) \/ Ends(s),
           UNCHANGED <<stored, hits>>
    PROVE  EditsInv' /\ UNCHANGED <<crossed, begun>>
<1>1. /\ req'[s] = None /\ \A t \in Slots : t # s => req'[t] = req[t]
      /\ req' = [t \in Slots |-> req'[t]]
      /\ raced' = raced \ {s}
      /\ UNCHANGED <<begun, crossed, failed>>
  BY DEF EditsInv, Fails, Ends, InFlight
<1>2. InFlight' = InFlight \ {s}
  BY <1>1 DEF InFlight
<1>3. ASSUME NEW t \in InFlight' PROVE SoundEdit(t)'
  BY <1>1, <1>2, <1>3, OtherEditsStay DEF EditsInv, InFlight
<1>4. QED
  BY <1>1, <1>2, <1>3 DEF EditsInv

(* The profile is as it was. *)
LEMMA ProfileStays ==
    ASSUME ProfileInv, UNCHANGED <<stored, told, crossed>>, ProfilesTypeOK'
    PROVE  ProfileInv'
BY DEF ProfileInv, stored, VersionIsLast, VersionsTellApart, CompletenessFits

(* completeness is a percentage, and that of nothing is 0. *)
LEMMA CompletenessIsPercentage ==
    ASSUME NEW columns, NEW children
    PROVE  Completeness(columns, children) \in 0..100
<1> DEFINE complete == Complete(columns, children)
<1>1. /\ Points("overview", complete) \in {0, 25} /\ Points("services", complete) \in {0, 25}
      /\ Points("sectors", complete) \in {0, 15} /\ Points("past_projects", complete) \in {0, 15}
      /\ Points("turnover", complete) \in {0, 10} /\ Points("certifications", complete) \in {0, 10}
  BY DEF Points, Weight
<1> HIDE DEF complete
<1>2. QED
  BY <1>1 DEF Completeness, complete

LEMMA NothingIsComplete ==
    ASSUME NEW children, DOMAIN children = {}
    PROVE  Completeness(Fresh.columns, children) = 0
<1>1. Complete(Fresh.columns, children) = {}
  BY DEF Fresh, Complete
<1>2. QED
  BY <1>1 DEF Completeness, Points

(* The request that is to give the counter its expiry is still there. *)
LEMMA LimitStays ==
    ASSUME LimitLifts, UNCHANGED limits, NEW s,
           \A t \in Slots : t # s => req'[t] = req[t],
           s \in InFlight => req[s].op # "rematch"
    PROVE  LimitLifts'
BY DEF LimitLifts, limits, InFlight

(* A request on the profile reads, reads on or fails: neither the profile  *)
(* nor what is asked of the matcher changes.                               *)
LEMMA QuietStep ==
    ASSUME ProfilesInv, EditsInv', NEW s \in Slots, \A t \in Slots : t # s => req'[t] = req[t],
           s \in InFlight => req[s].op # "rematch",
           UNCHANGED <<stored, history, limits, crossed>>,
           arq' \in {"none", "queued", "running", "kept"}, arq = "queued" => arq' = "queued"
    PROVE  ProfilesInv'
<1>1. ProfilesTypeOK'
  BY DEF ProfilesInv, ProfileInv, ProfilesTypeOK, stored, history, limits
<1>2. ProfileInv'
  BY <1>1, ProfileStays DEF ProfilesInv, history
<1>3. EditsAreFollowed'
  BY DEF ProfilesInv, EditsAreFollowed, history
<1>4. LimitLifts'
  BY LimitStays DEF ProfilesInv
<1>5. QED
  BY <1>2, <1>3, <1>4 DEF ProfilesInv

LEMMA BeginInv ==
    ASSUME ProfilesInv, NEW s \in Slots, NEW op \in Edits \cup {"read"},
           NEW target \in Columns \cup RowIds \cup {None}, NEW value \in Opinions,
           Begin(s, op, target, value)
    PROVE  ProfilesInv'
<1>0. PICK r : r =
                [op |-> op, target |-> target, value |-> value, loaded |-> profile,
                 found |-> IF target \in DOMAIN rows THEN rows[target] ELSE None,
                 step |-> IF profile = None THEN "creating" ELSE "loaded",
                 locks |-> FALSE, completeness |-> 0, asked |-> None]
  OBVIOUS
<1>1. Reads(s, r) /\ UNCHANGED <<stored, arq, history, limits>> /\ Asks(op, target, value)
  BY <1>0 DEF Begin
<1>2. /\ profile \in ProfileRows \cup {None} /\ DOMAIN rows \subseteq RowIds
      /\ \A i \in DOMAIN rows : rows[i] \in Values
  BY DEF ProfilesInv, ProfileInv, ProfilesTypeOK
<1>3. r \in EditRequests
  BY <1>0, <1>2 DEF EditRequests, Opinions
<1>4. WellFormed(r)
  BY <1>0, <1>1, <1>2, <1>3 DEF WellFormed, Asks
<1>5. IsUpToDate(r)'
  BY <1>0, <1>1 DEF IsUpToDate, stored, CurrentProfile
<1>6. r.op # "rematch" /\ r.op = op
  BY <1>0 DEF Edits
<1>7. ASSUME req'[s] = r PROVE SoundEdit(s)'
  BY <1>4, <1>5, <1>6, <1>7 DEF SoundEdit, WellFormed
<1>8. hits' <= begun'
  BY <1>1 DEF Reads, limits, ProfilesInv, EditsInv, ProfileInv, ProfilesTypeOK
<1>9. EditsInv' /\ crossed' = crossed
  BY <1>1, <1>7, <1>8, EditReads DEF ProfilesInv
<1>10. req[s] = None /\ \A t \in Slots : t # s => req'[t] = req[t]
  BY <1>1 DEF Reads, ProfilesInv, EditsInv
<1>11. arq \in {"none", "queued", "running", "kept"}
  BY DEF ProfilesInv, ProfileInv, ProfilesTypeOK
<1>12. QED
  BY <1>1, <1>9, <1>10, <1>11, QuietStep DEF InFlight

(* A request on the profile reads on. *)
LEMMA OnProfileReadsOn ==
    ASSUME ProfilesInv, NEW s \in OnProfile, NEW r, ReadsOn(s, r),
           UNCHANGED <<stored, history, limits>>,
           arq' \in {"none", "queued", "running", "kept"}, arq = "queued" => arq' = "queued",
           r.op # "rematch", WellFormed(r), Unraced(s) => IsUpToDate(r)
    PROVE  ProfilesInv'
<1>1. s \in Slots /\ s \in InFlight /\ req[s].op # "rematch"
  BY DEF OnProfile, InFlight
<1>2. r # None
  BY ProfilesAssumption DEF WellFormed
<1>3. ASSUME req'[s] = r PROVE SoundEdit(s)'
  <2>1. UNCHANGED stored /\ raced' = raced
    BY DEF ReadsOn
  <2>2. IsUpToDate(r) => IsUpToDate(r)'
    BY <2>1 DEF IsUpToDate, stored, CurrentProfile, WithColumn, WithRow
  <2>3. QED
    BY <1>3, <2>1, <2>2 DEF SoundEdit, WellFormed, Unraced
<1>4. EditsInv' /\ crossed' = crossed
  BY <1>1, <1>2, <1>3, EditReadsOn DEF ProfilesInv, limits
<1>5. \A t \in Slots : t # s => req'[t] = req[t]
  BY DEF ReadsOn, ProfilesInv, EditsInv
<1>6. QED
  BY <1>1, <1>4, <1>5, QuietStep

LEMMA OnProfileIsSound ==
    ASSUME ProfilesInv, NEW s \in OnProfile
    PROVE  /\ s \in InFlight /\ req[s].op # "rematch" /\ req[s].op \in Edits \cup {"read"}
           /\ WellFormed(req[s]) /\ (Unraced(s) => IsUpToDate(req[s]))
BY DEF OnProfile, InFlight, ProfilesInv, EditsInv, SoundEdit, WellFormed, EditRequests

LEMMA CreateInv ==
    ASSUME ProfilesInv, NEW s \in Slots, Create(s)
    PROVE  ProfilesInv'
<1> DEFINE r == [req[s] EXCEPT !.loaded = Fresh, !.step = "loaded"]
<1>1. /\ s \in OnProfile /\ req[s].step = "creating" /\ profile = None
      /\ ReadsOn(s, r) /\ UNCHANGED <<stored, arq, history, limits>>
  BY DEF Create, At
<1>2. WellFormed(req[s]) /\ (Unraced(s) => IsUpToDate(req[s])) /\ req[s].op # "rematch"
  BY <1>1, OnProfileIsSound
<1>3. Fresh \in ProfileRows /\ Fresh # None
  BY ProfilesAssumption DEF Fresh, ProfileRows, Opinions
<1>4. /\ r \in EditRequests /\ r.op = req[s].op /\ r.target = req[s].target
      /\ r.value = req[s].value /\ r.found = req[s].found /\ r.loaded = Fresh
      /\ r.step = "loaded"
  BY <1>2, <1>3 DEF WellFormed, EditRequests
<1> HIDE DEF r
<1>5. WellFormed(r)
  BY <1>2, <1>3, <1>4 DEF WellFormed
<1>6. Unraced(s) => IsUpToDate(r)
  BY <1>1, <1>2, <1>4 DEF IsUpToDate, CurrentProfile
<1>7. arq \in {"none", "queued", "running", "kept"}
  BY DEF ProfilesInv, ProfileInv, ProfilesTypeOK
<1>8. QED
  BY <1>1, <1>2, <1>4, <1>5, <1>6, <1>7, OnProfileReadsOn

LEMMA RequestFails ==
    ASSUME ProfilesInv, NEW s \in OnProfile, Fails(s), s \in raced,
           UNCHANGED <<stored, arq, history, limits>>
    PROVE  ProfilesInv'
<1>1. s \in InFlight /\ s \in Slots /\ req[s].op # "rematch"
  BY OnProfileIsSound DEF OnProfile, InFlight
<1>2. EditsInv' /\ crossed' = crossed
  BY <1>1, EditEnds DEF ProfilesInv, limits
<1>3. \A t \in Slots : t # s => req'[t] = req[t]
  BY DEF Fails, ProfilesInv, EditsInv
<1>4. arq \in {"none", "queued", "running", "kept"}
  BY DEF ProfilesInv, ProfileInv, ProfilesTypeOK
<1>5. QED
  BY <1>1, <1>2, <1>3, <1>4, QuietStep

LEMMA CreateCollidesInv ==
    ASSUME ProfilesInv, NEW s \in Slots, CreateCollides(s)
    PROVE  ProfilesInv'
<1>1. s \in OnProfile /\ req[s].step = "creating" /\ profile # None
  BY DEF CreateCollides, At
<1>2. s \in raced
  BY <1>1, OnProfileIsSound DEF IsUpToDate, Unraced
<1>3. QED
  BY <1>1, <1>2, RequestFails DEF CreateCollides

(* What a request does to a column or a row depends on what it asks and    *)
(* has read alone. *)
LEMMA SameEdit ==
    ASSUME NEW r, NEW q, r.op = q.op, r.target = q.target, r.value = q.value,
           r.found = q.found, r.loaded = q.loaded, NEW columns, NEW children
    PROVE  /\ WithColumn(r, columns) = WithColumn(q, columns)
           /\ WithRow(r, children) = WithRow(q, children)
<1>1. (ChangesValue(r) <=> ChangesValue(q)) /\ (WritesRow(r) <=> WritesRow(q))
  BY DEF ChangesValue, WritesRow
<1>2. QED
  BY <1>1 DEF WithColumn, WithRow

LEMMA FlushInv ==
    ASSUME ProfilesInv, NEW s \in Slots, Flush(s)
    PROVE  ProfilesInv'
<1>1. /\ s \in OnProfile /\ req[s].step = "loaded" /\ req[s].op \in Edits
      /\ UNCHANGED <<stored, arq, history, limits>>
  BY DEF Flush, At
<1>2. WellFormed(req[s]) /\ (Unraced(s) => IsUpToDate(req[s])) /\ req[s].op # "rematch"
  BY <1>1, OnProfileIsSound
<1>3. CASE Breaks(req[s])
  <2>1. Fails(s)
    BY <1>3 DEF Flush
  <2>2. s \in raced
    <3>1. req[s].found # None => req[s].found \in Values
      BY <1>2 DEF WellFormed, EditRequests, Opinions
    <3>2. \A i \in DOMAIN rows : rows[i] # None
      BY ProfilesAssumption DEF ProfilesInv, ProfileInv, ProfilesTypeOK
    <3>3. QED
      BY <1>2, <1>3, <3>1, <3>2 DEF Breaks, IsUpToDate, Unraced
  <2>3. QED
    BY <1>1, <2>1, <2>2, RequestFails
<1>4. CASE ~Breaks(req[s])
  <2> DEFINE c == Completeness(WithColumn(req[s], req[s].loaded.columns), ChildrenOf(req[s]))
             r == [req[s] EXCEPT !.completeness = c,
                                 !.locks = (req[s].op = "put" /\ ChangesValue(req[s])),
                                 !.step = "flushed"]
  <2>1. ReadsOn(s, r)
    BY <1>4 DEF Flush
  <2>2. c \in 0..100
    BY CompletenessIsPercentage
  <2>3. c = Completeness(WithColumn(req[s], req[s].loaded.columns), WithRow(req[s], rows))
    BY DEF ChildrenOf
  <2> HIDE DEF c
  <2>4. /\ r \in EditRequests /\ r.op = req[s].op /\ r.target = req[s].target
        /\ r.value = req[s].value /\ r.found = req[s].found /\ r.loaded = req[s].loaded
        /\ r.step = "flushed" /\ r.completeness = c
    <3>1. (req[s].op = "put" /\ ChangesValue(req[s])) \in BOOLEAN
      OBVIOUS
    <3>2. QED
      BY <1>2, <2>2, <3>1 DEF WellFormed, EditRequests
  <2> HIDE DEF r
  <2>5. /\ WithColumn(r, r.loaded.columns) = WithColumn(req[s], req[s].loaded.columns)
        /\ WithRow(r, rows) = WithRow(req[s], rows)
    BY <2>4, SameEdit
  <2>6. WellFormed(r)
    BY <1>1, <1>2, <2>4 DEF WellFormed, Edits
  <2>7. Unraced(s) => IsUpToDate(r)
    BY <1>1, <1>2, <2>3, <2>4, <2>5 DEF IsUpToDate
  <2>8. arq \in {"none", "queued", "running", "kept"}
    BY DEF ProfilesInv, ProfileInv, ProfilesTypeOK
  <2>9. QED
    BY <1>1, <1>2, <2>1, <2>4, <2>6, <2>7, <2>8, OnProfileReadsOn
<1>5. QED
  BY <1>3, <1>4

LEMMA TouchInv ==
    ASSUME ProfilesInv, NEW s \in Slots, Touch(s)
    PROVE  ProfilesInv'
<1> DEFINE r == [req[s] EXCEPT !.locks = TRUE, !.step = "touched"]
<1>1. /\ s \in OnProfile /\ req[s].step = "flushed"
      /\ ReadsOn(s, r) /\ UNCHANGED <<stored, arq, history, limits>>
  BY DEF Touch, At
<1>2. WellFormed(req[s]) /\ (Unraced(s) => IsUpToDate(req[s])) /\ req[s].op # "rematch"
  BY <1>1, OnProfileIsSound
<1>3. /\ r \in EditRequests /\ r.op = req[s].op /\ r.target = req[s].target
      /\ r.value = req[s].value /\ r.found = req[s].found /\ r.loaded = req[s].loaded
      /\ r.step = "touched" /\ r.completeness = req[s].completeness
  BY <1>2 DEF WellFormed, EditRequests
<1> HIDE DEF r
<1>4. /\ WithColumn(r, r.loaded.columns) = WithColumn(req[s], req[s].loaded.columns)
      /\ WithRow(r, rows) = WithRow(req[s], rows)
  BY <1>3, SameEdit
<1>5. WellFormed(r)
  BY <1>1, <1>2, <1>3 DEF WellFormed
<1>6. Unraced(s) => IsUpToDate(r)
  BY <1>1, <1>2, <1>3, <1>4 DEF IsUpToDate
<1>7. arq \in {"none", "queued", "running", "kept"}
  BY DEF ProfilesInv, ProfileInv, ProfilesTypeOK
<1>8. QED
  BY <1>1, <1>2, <1>3, <1>5, <1>6, <1>7, OnProfileReadsOn

LEMMA ScheduleInv ==
    ASSUME ProfilesInv, NEW s \in Slots, Schedule(s)
    PROVE  ProfilesInv'
<1>1. PICK answer \in Answers :
        ScheduleRematch(answer) /\ ReadsOn(s, [req[s] EXCEPT !.step = "scheduled", !.asked = answer])
  BY DEF Schedule
<1> DEFINE r == [req[s] EXCEPT !.step = "scheduled", !.asked = answer]
<1>2. /\ s \in OnProfile /\ req[s].step = "touched" /\ req[s].op = "put"
      /\ ReadsOn(s, r) /\ UNCHANGED <<stored, history, limits>>
  BY <1>1 DEF Schedule, At, Schedules
<1>3. WellFormed(req[s]) /\ (Unraced(s) => IsUpToDate(req[s])) /\ req[s].op # "rematch"
  BY <1>2, OnProfileIsSound
<1>4. /\ r \in EditRequests /\ r.op = req[s].op /\ r.target = req[s].target
      /\ r.value = req[s].value /\ r.found = req[s].found /\ r.loaded = req[s].loaded
      /\ r.step = "scheduled" /\ r.completeness = req[s].completeness /\ r.asked = answer
  BY <1>3 DEF WellFormed, EditRequests
<1> HIDE DEF r
<1>5. /\ WithColumn(r, r.loaded.columns) = WithColumn(req[s], req[s].loaded.columns)
      /\ WithRow(r, rows) = WithRow(req[s], rows)
  BY <1>4, SameEdit
<1>6. answer # None
  BY ProfilesAssumption
<1>7. WellFormed(r)
  BY <1>2, <1>3, <1>4, <1>6 DEF WellFormed
<1>8. Unraced(s) => IsUpToDate(r)
  BY <1>2, <1>3, <1>4, <1>5 DEF IsUpToDate
<1>9. arq' \in {"none", "queued", "running", "kept"} /\ (arq = "queued" => arq' = "queued")
  BY <1>1 DEF ScheduleRematch, ProfilesInv, ProfileInv, ProfilesTypeOK
<1>10. QED
  BY <1>2, <1>3, <1>4, <1>7, <1>8, <1>9, OnProfileReadsOn

(* The rows and the profile a request leaves. *)
LEMMA RowsLeft ==
    ASSUME ProfilesInv, NEW r, WellFormed(r)
    PROVE  /\ DOMAIN WithRow(r, rows) \subseteq RowIds
           /\ \A i \in DOMAIN WithRow(r, rows) : WithRow(r, rows)[i] \in Values
           /\ WithRow(r, rows) = [i \in DOMAIN WithRow(r, rows) |-> WithRow(r, rows)[i]]
           /\ r.op = "read" => WithRow(r, rows) = rows
<1>1. /\ DOMAIN rows \subseteq RowIds /\ \A i \in DOMAIN rows : rows[i] \in Values
      /\ rows = [i \in DOMAIN rows |-> rows[i]]
  BY DEF ProfilesInv, ProfileInv, ProfilesTypeOK
<1>2. WritesRow(r) => r.op \in {"add", "update", "delete"} /\ r.target \in RowIds
  BY DEF WritesRow, Edits, WellFormed
<1>3. WritesRow(r) /\ r.op # "delete" => r.value \in Values
  BY <1>2 DEF WellFormed, EditRequests, Opinions
<1>4. r.op = "read" => ~WritesRow(r)
  BY DEF WritesRow, Edits
<1> DEFINE domain == (DOMAIN rows \cup (IF WritesRow(r) THEN {r.target} ELSE {}))
                     \ (IF r.op = "delete" THEN {r.target} ELSE {})
<1>5. /\ DOMAIN WithRow(r, rows) = domain
      /\ \A i \in domain : WithRow(r, rows)[i] =
            IF WritesRow(r) /\ i = r.target THEN r.value ELSE rows[i]
      /\ WithRow(r, rows) = [i \in DOMAIN WithRow(r, rows) |-> WithRow(r, rows)[i]]
  BY DEF WithRow
<1>6. domain \subseteq RowIds
  BY <1>1, <1>2
<1>7. \A i \in domain : WithRow(r, rows)[i] \in Values
  BY <1>1, <1>3, <1>5
<1>8. ASSUME r.op = "read" PROVE WithRow(r, rows) = rows
  <2>1. domain = DOMAIN rows
    BY <1>4, <1>8
  <2>2. WithRow(r, rows) = [i \in DOMAIN rows |-> rows[i]]
    BY <1>4, <1>8, <2>1 DEF WithRow
  <2>3. QED
    BY <1>1, <2>2
<1>9. QED
  BY <1>5, <1>6, <1>7, <1>8

LEMMA ProfileLeft ==
    ASSUME ProfilesInv, NEW r, WellFormed(r), r.loaded # None
    PROVE  /\ WrittenProfile(r) \in ProfileRows /\ CurrentProfile \in ProfileRows
           /\ r.op = "read" => WrittenProfile(r) = CurrentProfile
           /\ r.op \in Edits =>
                /\ WrittenProfile(r).version = r.loaded.version + 1
                /\ WrittenProfile(r).columns = WithColumn(r, CurrentProfile.columns)
                /\ WrittenProfile(r).completeness =
                     Column(r.completeness, r.loaded.completeness, CurrentProfile.completeness)
<1>1. Fresh \in ProfileRows
  BY DEF Fresh, ProfileRows, Opinions
<1>2. CurrentProfile \in ProfileRows
  BY <1>1 DEF CurrentProfile, ProfilesInv, ProfileInv, ProfilesTypeOK
<1>3. r.loaded \in ProfileRows /\ r.completeness \in 0..100 /\ r.value \in Opinions
  BY DEF WellFormed, EditRequests
<1>4. r.op = "read" => WrittenProfile(r) = CurrentProfile
  BY DEF WrittenProfile, CurrentProfile, Edits
<1>5. CASE r.op \in Edits
  <2> DEFINE columns == WithColumn(r, CurrentProfile.columns)
             c == Column(r.completeness, r.loaded.completeness, CurrentProfile.completeness)
  <2>1. WrittenProfile(r) = [version |-> r.loaded.version + 1, completeness |-> c,
                             columns |-> columns]
    BY <1>5 DEF WrittenProfile, NextVersion, CurrentProfile
  <2>2. c \in 0..100
    BY <1>2, <1>3 DEF Column, ProfileRows
  <2>3. columns \in [Columns -> Opinions]
    BY <1>2, <1>3 DEF WithColumn, ProfileRows
  <2>4. r.loaded.version + 1 \in Nat \ {0}
    BY <1>3 DEF ProfileRows
  <2> HIDE DEF columns, c
  <2>5. WrittenProfile(r) \in ProfileRows
    BY <2>1, <2>2, <2>3, <2>4 DEF ProfileRows
  <2>6. QED
    BY <1>2, <1>5, <2>1, <2>5 DEF Edits, columns, c
<1>6. CASE r.op = "read"
  BY <1>2, <1>4, <1>6 DEF Edits
<1>7. QED
  BY <1>5, <1>6 DEF WellFormed, EditRequests

(* The profile after a commit.                                             *)
LEMMA CommitKeepsProfile ==
    ASSUME ProfilesInv, NEW s \in OnProfile, Done(req[s]), NEW r, r = req[s],
           profile' = WrittenProfile(r), rows' = WithRow(r, rows),
           told' = told \cup {<<profile'.version, profile'.columns, rows'>>},
           crossed \subseteq crossed', s \in raced => r.op \in crossed', ProfilesTypeOK'
    PROVE  ProfileInv'
<1>1. /\ WellFormed(r) /\ (Unraced(s) => IsUpToDate(r)) /\ r.op \in Edits \cup {"read"}
      /\ r.step # "creating" /\ r.loaded # None
      /\ r.op \in Edits => r.step \in {"touched", "scheduled"}
  <2>1. WellFormed(r) /\ (Unraced(s) => IsUpToDate(r)) /\ r.op \in Edits \cup {"read"}
    BY OnProfileIsSound
  <2>2. QED
    BY <2>1 DEF Done, WellFormed, Edits
<1>2. /\ profile' \in ProfileRows /\ profile' # None /\ CurrentProfile \in ProfileRows
      /\ r.op = "read" => profile' = CurrentProfile /\ rows' = rows
      /\ rows' = [i \in DOMAIN rows' |-> rows'[i]]
  BY <1>1, RowsLeft, ProfileLeft, ProfilesAssumption
<1>3. /\ profile = None => told = {} /\ rows = << >>
      /\ crossed \cap Edits = {} => VersionIsLast
      /\ CompletenessFits
  BY DEF ProfilesInv, ProfileInv, ProfilesTypeOK
<1>4. CASE crossed' \cap Edits # {}
  BY <1>2, <1>4 DEF ProfileInv, CompletenessFits
<1>5. CASE crossed' \cap Edits = {} /\ r.op = "read"
  <2>1. crossed \cap Edits = {} /\ profile' = CurrentProfile /\ rows' = rows
    BY <1>2, <1>5
  <2>2. CASE profile # None
    <3>1. profile' = profile /\ told' = told
      BY <1>3, <2>1, <2>2 DEF CurrentProfile, VersionIsLast
    <3>2. QED
      BY <1>2, <1>3, <2>1, <3>1 DEF ProfileInv, VersionIsLast, VersionsTellApart, CompletenessFits
  <2>3. CASE profile = None
    <3>1. profile' = Fresh /\ told' = {<<Fresh.version, Fresh.columns, rows>>} /\ rows = << >>
      BY <1>3, <2>1, <2>3 DEF CurrentProfile
    <3>2. VersionIsLast'
      BY <2>1, <3>1 DEF Fresh, VersionIsLast, VersionsTellApart
    <3>3. Completeness(Fresh.columns, rows) = 0
      BY <3>1, NothingIsComplete
    <3>4. CompletenessFits'
      BY <2>1, <3>1, <3>3 DEF Fresh, CompletenessFits
    <3>5. QED
      BY <1>2, <3>2, <3>4 DEF ProfileInv
  <2>4. QED
    BY <2>2, <2>3
<1>6. CASE crossed' \cap Edits = {} /\ r.op \in Edits
  <2>1. Unraced(s) /\ crossed \cap Edits = {}
    BY <1>6 DEF Unraced
  <2>2. /\ r.loaded = CurrentProfile
        /\ r.completeness = Completeness(WithColumn(r, CurrentProfile.columns), WithRow(r, rows))
    BY <1>1, <1>6, <2>1 DEF IsUpToDate
  <2>3. /\ profile'.version = CurrentProfile.version + 1
        /\ profile'.columns = WithColumn(r, CurrentProfile.columns)
        /\ profile'.completeness = r.completeness
    BY <1>1, <1>6, <2>2, ProfileLeft DEF Column
  <2>4. CompletenessFits'
    BY <2>2, <2>3 DEF CompletenessFits
  <2>5. /\ CurrentProfile.version \in Nat
        /\ \A a \in told : a[1] \in Nat /\ a[1] <= CurrentProfile.version
    BY <1>2, <1>3, <2>1 DEF CurrentProfile, VersionIsLast, ProfileRows
  <2>6. \A a \in told : a[1] \in Nat /\ a[1] < profile'.version
    BY <2>3, <2>5
  <2> DEFINE last == <<profile'.version, profile'.columns, rows'>>
  <2>7. told' = told \cup {last} /\ last[1] = profile'.version /\ profile'.version \in Nat
    BY <2>3, <2>5
  <2>8. \A a, b \in told : a[1] = b[1] => a = b
    BY <1>3, <2>1 DEF VersionIsLast, VersionsTellApart
  <2> HIDE DEF last
  <2>9. /\ \A a, b \in told' : a[1] = b[1] => a = b
        /\ \A a \in told' : a[1] \in Nat /\ a[1] <= profile'.version
    BY <2>6, <2>7, <2>8
  <2>10. VersionIsLast'
    BY <2>7, <2>9 DEF VersionIsLast, VersionsTellApart, last
  <2>11. QED
    BY <1>2, <2>4, <2>10 DEF ProfileInv
<1>7. QED
  BY <1>1, <1>4, <1>5, <1>6

LEMMA CommitInv ==
    ASSUME ProfilesInv, NEW s \in Slots, Commit(s)
    PROVE  ProfilesInv'
<1>1. PICK r : r = req[s]
  OBVIOUS
<1>2. /\ s \in OnProfile /\ Done(r) /\ Commits(s) /\ UNCHANGED <<arq, limits>>
      /\ profile' = WrittenProfile(r) /\ rows' = WithRow(r, rows)
      /\ told' = told \cup {<<profile'.version, profile'.columns, rows'>>}
      /\ IF r.op \in Edits THEN unread' = TRUE /\ unasked' = unasked \cup Unasked(r)
         ELSE UNCHANGED <<unread, unasked>>
  BY <1>1, Zenon DEF Commit
<1>3. /\ s \in InFlight /\ WellFormed(r) /\ r.op # "rematch"
      /\ r.op \in Edits \cup {"read"} /\ r.loaded # None
  <2>1. /\ s \in InFlight /\ WellFormed(r) /\ r.op # "rematch"
        /\ r.op \in Edits \cup {"read"}
    BY <1>1, <1>2, OnProfileIsSound
  <2>2. r.step # "creating"
    BY <1>2 DEF Done
  <2>3. QED
    BY <2>1, <2>2 DEF WellFormed
<1>4. EditsInv' /\ crossed \subseteq crossed' /\ (s \in raced => r.op \in crossed')
  BY <1>1, <1>2, <1>3, EditCommits DEF ProfilesInv, limits
<1>5. r.op \in Edits =>
        /\ Unasked(r) \subseteq {"child", "refused", "unreachable", "overtaken"}
        /\ Unasked(r) = {} => arq = "queued"
  <2>1. r.op \in Edits /\ r.op = "put" => r.asked \in Answers
    BY <1>2, <1>3 DEF Done, Schedules, WellFormed, EditRequests, Edits
  <2>2. QED
    BY <2>1 DEF Unasked, Answers
<1>6. ProfilesTypeOK'
  <2>1. profile' \in ProfileRows /\ profile' # None
    BY <1>2, <1>3, ProfileLeft, ProfilesAssumption
  <2>2. DOMAIN rows' \subseteq RowIds /\ \A i \in DOMAIN rows' : rows'[i] \in Values
    BY <1>2, <1>3, RowsLeft
  <2>3. unread' \in BOOLEAN /\ unasked' \subseteq {"child", "refused", "unreachable", "overtaken"}
    BY <1>2, <1>5 DEF ProfilesInv, ProfileInv, ProfilesTypeOK
  <2>4. QED
    BY <1>2, <2>1, <2>2, <2>3 DEF ProfilesInv, ProfileInv, ProfilesTypeOK, limits
<1>7. ProfileInv'
  BY <1>1, <1>2, <1>4, <1>6, CommitKeepsProfile
<1>8. EditsAreFollowed'
  BY <1>2, <1>5 DEF ProfilesInv, EditsAreFollowed
<1>9. LimitLifts'
  <2>1. \A t \in Slots : t # s => req'[t] = req[t]
    BY <1>2 DEF Commits, ProfilesInv, EditsInv
  <2>2. QED
    BY <1>1, <1>2, <1>3, <2>1, LimitStays DEF ProfilesInv
<1>10. QED
  BY <1>4, <1>7, <1>8, <1>9 DEF ProfilesInv

-----------------------------------------------------------------------------
(* The re-match, and the limit.                                            *)

LEMMA TriggerRematchInv ==
    ASSUME ProfilesInv, NEW s \in Slots, TriggerRematch(s)
    PROVE  ProfilesInv'
<1>1. PICK r : r = [op |-> "rematch", hit |-> hits + 1]
  OBVIOUS
<1>2. /\ Reads(s, r) /\ hits' = hits + 1 /\ UNCHANGED <<timed, untimed, stored, arq, history>>
  BY <1>1 DEF TriggerRematch, Hit
<1>3. /\ hits \in Nat /\ begun \in Nat /\ hits <= begun /\ begun' = begun + 1
      /\ begun + 1 <= MaxRequests
  BY <1>2, RequestsAssumption DEF ProfilesInv, EditsInv, ProfileInv, ProfilesTypeOK, Reads
<1>4. r \in ManualRequests /\ r.op = "rematch" /\ r.hit = hits + 1 /\ r # None
  BY <1>1, <1>3, ProfilesAssumption DEF ManualRequests
<1>5. ASSUME req'[s] = r PROVE SoundEdit(s)'
  BY <1>4, <1>5 DEF SoundEdit
<1>6. hits' <= begun' /\ hits' \in 0..MaxRequests
  BY <1>2, <1>3, RequestsAssumption
<1>7. EditsInv' /\ crossed' = crossed
  BY <1>2, <1>5, <1>6, EditReads DEF ProfilesInv
<1>8. ProfilesTypeOK'
  BY <1>2, <1>6 DEF ProfilesInv, ProfileInv, ProfilesTypeOK, stored, history
<1>9. ProfileInv'
  BY <1>2, <1>7, <1>8, ProfileStays DEF ProfilesInv, history
<1>10. LimitLifts'
  <2>1. req[s] = None /\ \A t \in Slots : t # s => req'[t] = req[t]
    BY <1>2 DEF Reads, ProfilesInv, EditsInv
  <2>2. s \in InFlight' /\ req'[s] = r
    BY <1>2, <1>4 DEF Reads, ProfilesInv, EditsInv, InFlight
  <2>3. CASE hits = 0
    BY <1>4, <2>2, <2>3 DEF LimitLifts
  <2>4. CASE hits # 0
    BY <1>2, <2>1, <2>4 DEF LimitLifts, InFlight, ProfilesInv
  <2>5. QED
    BY <2>3, <2>4
<1>11. EditsAreFollowed'
  BY <1>2 DEF ProfilesInv, EditsAreFollowed, history
<1>12. QED
  BY <1>7, <1>9, <1>10, <1>11 DEF ProfilesInv

LEMMA AnswerRematchInv ==
    ASSUME ProfilesInv, NEW s \in Slots, AnswerRematch(s)
    PROVE  ProfilesInv'
<1>1. /\ s \in InFlight /\ req[s].op = "rematch" /\ Ends(s)
      /\ Expires(req[s].hit) \/ NeverExpires(req[s].hit)
      /\ UNCHANGED <<stored, history>>
  BY DEF AnswerRematch, InFlight
<1>2. arq' = arq \/ \E answer \in Answers : ScheduleRematch(answer)
  BY DEF AnswerRematch
<1>3. arq' \in {"none", "queued", "running", "kept"} /\ (arq = "queued" => arq' = "queued")
  BY <1>2 DEF ScheduleRematch, ProfilesInv, ProfileInv, ProfilesTypeOK
<1>4. /\ hits' = hits /\ timed' \in BOOLEAN /\ untimed' \in BOOLEAN
      /\ timed => timed'
      /\ untimed => untimed'
      /\ req[s].hit = 1 => timed' \/ untimed'
  <2>1. timed \in BOOLEAN /\ untimed \in BOOLEAN
    BY DEF ProfilesInv, ProfileInv, ProfilesTypeOK
  <2>2. CASE Expires(req[s].hit)
    <3>1. /\ timed' = (timed \/ req[s].hit = 1)
          /\ hits' = hits /\ untimed' = untimed
      BY <2>2 DEF Expires, OpensWindow
    <3>2. timed' \in BOOLEAN /\ (timed => timed') /\ (req[s].hit = 1 => timed')
      BY <3>1
    <3>3. QED
      BY <2>1, <3>1, <3>2
  <2>3. CASE NeverExpires(req[s].hit)
    BY <2>1, <2>3 DEF NeverExpires
  <2>4. QED
    BY <1>1, <2>2, <2>3
<1>5. EditsInv' /\ crossed' = crossed
  BY <1>1, <1>4, EditEnds DEF ProfilesInv
<1>6. ProfilesTypeOK'
  BY <1>1, <1>3, <1>4 DEF ProfilesInv, ProfileInv, ProfilesTypeOK, stored, history
<1>7. ProfileInv'
  BY <1>1, <1>5, <1>6, ProfileStays DEF ProfilesInv, history
<1>8. EditsAreFollowed'
  BY <1>1, <1>3 DEF ProfilesInv, EditsAreFollowed, history
<1>9. LimitLifts'
  <2>1. \A t \in Slots : t # s => req'[t] = req[t]
    BY <1>1 DEF Ends, ProfilesInv, EditsInv
  <2>2. CASE hits = 0 \/ timed \/ untimed
    <3>1. CASE hits = 0
      BY <1>4, <3>1 DEF LimitLifts
    <3>2. CASE timed
      BY <1>4, <3>2, Zenon DEF LimitLifts
    <3>3. CASE untimed
      BY <1>4, <3>3, Zenon DEF LimitLifts
    <3>4. QED
      BY <2>2, <3>1, <3>2, <3>3, Zenon
  <2>3. CASE \E t \in InFlight : req[t].op = "rematch" /\ req[t].hit = 1
    <3>1. PICK t \in InFlight : req[t].op = "rematch" /\ req[t].hit = 1
      BY <2>3
    <3>2. CASE t = s
      BY <1>4, <3>1, <3>2 DEF LimitLifts
    <3>3. CASE t # s
      BY <2>1, <3>1, <3>3 DEF LimitLifts, InFlight
    <3>4. QED
      BY <3>2, <3>3
  <2>4. QED
    BY <2>2, <2>3 DEF LimitLifts, ProfilesInv
<1>10. QED
  BY <1>5, <1>7, <1>8, <1>9 DEF ProfilesInv

(* A step of no request.                                                   *)
LEMMA NoRequestMoves ==
    ASSUME ProfilesInv, UNCHANGED <<requests, stored>>, hits' <= begun
    PROVE  EditsInv' /\ crossed' = crossed
<1>1. UNCHANGED <<req, begun, raced, crossed, failed>>
  BY DEF requests
<1>2. \A t \in InFlight : SoundEdit(t)'
  BY <1>1, OtherEditsStay DEF ProfilesInv, EditsInv
<1>3. QED
  BY <1>1, <1>2 DEF ProfilesInv, EditsInv, InFlight

LEMMA RematchStepsInv ==
    ASSUME ProfilesInv, StartRematch \/ FinishRematch \/ ExpireResult \/ NextWindow
    PROVE  ProfilesInv'
<1>1. UNCHANGED <<requests, stored, told>>
  BY DEF StartRematch, FinishRematch, ExpireResult, NextWindow, history
<1>2. /\ hits \in Nat /\ begun \in Nat /\ hits <= begun /\ begun <= MaxRequests
      /\ hits' = hits \/ hits' = 0
  BY RequestsAssumption DEF ProfilesInv, EditsInv, ProfileInv, ProfilesTypeOK, StartRematch,
     FinishRematch, ExpireResult, NextWindow, WindowCloses, limits
<1>3. EditsInv' /\ crossed' = crossed
  BY <1>1, <1>2, NoRequestMoves
<1>4. ProfilesTypeOK' /\ EditsAreFollowed'
  <2>1. /\ arq' \in {"none", "queued", "running", "kept"}
        /\ (unread' = unread /\ unasked' = unasked /\ (arq = "queued" => arq' = "queued"))
           \/ (unread' = FALSE /\ unasked' = {})
    BY DEF ProfilesInv, ProfileInv, ProfilesTypeOK, StartRematch, FinishRematch, ExpireResult,
       NextWindow, history
  <2>2. /\ hits' \in 0..MaxRequests
        /\ (timed' = timed /\ untimed' = untimed) \/ (timed' = FALSE /\ untimed' = FALSE)
    <3>1. hits' \in 0..MaxRequests
      BY <1>2, RequestsAssumption
    <3>2. (timed' = timed /\ untimed' = untimed) \/ (timed' = FALSE /\ untimed' = FALSE)
      BY DEF StartRematch, FinishRematch, ExpireResult, NextWindow, WindowCloses, limits
    <3>3. QED
      BY <3>1, <3>2
  <2>3. ProfilesTypeOK'
    BY <1>1, <2>1, <2>2 DEF ProfilesInv, ProfileInv, ProfilesTypeOK, stored
  <2>4. EditsAreFollowed'
    BY <2>1 DEF ProfilesInv, EditsAreFollowed
  <2>5. QED
    BY <2>3, <2>4
<1>5. ProfileInv'
  BY <1>1, <1>3, <1>4, ProfileStays DEF ProfilesInv
<1>6. LimitLifts'
  BY <1>1 DEF ProfilesInv, LimitLifts, InFlight, requests, StartRematch, FinishRematch,
     ExpireResult, NextWindow, WindowCloses, limits
<1>7. QED
  BY <1>3, <1>4, <1>5, <1>6 DEF ProfilesInv

LEMMA ProfilesInitInv ==
    ASSUME ProfilesInit
    PROVE  ProfilesInv
<1>1. EditsInv
  BY RequestsAssumption DEF ProfilesInit, LimitsInit, RequestsInit, EditsInv, InFlight
<1>2. /\ profile = None /\ rows = << >> /\ DOMAIN rows = {} /\ told = {}
      /\ rows = [i \in DOMAIN rows |-> rows[i]]
  BY DEF ProfilesInit
<1>3. ProfilesTypeOK
  <2>1. 0 \in 0..MaxRequests
    BY RequestsAssumption
  <2>2. hits = 0 /\ timed = FALSE /\ untimed = FALSE /\ arq = "none" /\ unread = FALSE
        /\ unasked = {}
    BY DEF ProfilesInit, LimitsInit
  <2>3. QED
    BY <1>2, <2>1, <2>2 DEF ProfilesTypeOK
<1>4. ProfileInv
  BY <1>2, <1>3 DEF ProfileInv, VersionIsLast, VersionsTellApart, CompletenessFits
<1>5. QED
  BY <1>1, <1>4 DEF ProfilesInv, EditsAreFollowed, LimitLifts, ProfilesInit, LimitsInit

(* The inductive invariant of edits and re-matches, in every reachable     *)
(* state. *)
THEOREM ProfilesSound == ProfilesSpec => []ProfilesInv
<1>1. ASSUME ProfilesInv, ProfilesNext PROVE ProfilesInv'
  BY <1>1, BeginInv, CreateInv, CreateCollidesInv, FlushInv, TouchInv, ScheduleInv, CommitInv,
     TriggerRematchInv, AnswerRematchInv, RematchStepsInv DEF ProfilesNext
<1>2. ASSUME ProfilesInv, UNCHANGED profileVars PROVE ProfilesInv'
  <2>1. UNCHANGED <<requests, stored, arq, history, limits>>
    BY <1>2 DEF profileVars
  <2>2. EditsInv' /\ crossed' = crossed
    BY <1>2, <2>1, NoRequestMoves DEF limits, ProfilesInv, EditsInv
  <2>3. ProfilesTypeOK'
    BY <1>2, <2>1 DEF ProfilesInv, ProfileInv, ProfilesTypeOK, stored, history, limits
  <2>4. ProfileInv'
    BY <1>2, <2>1, <2>2, <2>3, ProfileStays DEF ProfilesInv, history
  <2>5. QED
    BY <1>2, <2>1, <2>2, <2>4 DEF ProfilesInv, EditsAreFollowed, LimitLifts, history, limits,
       requests, InFlight
<1>3. QED
  BY ProfilesInitInv, <1>1, <1>2, PTL DEF ProfilesSpec

(* Type correctness. *)
THEOREM ProfilesTypes == ProfilesSpec => []ProfilesTypeOK
BY ProfilesSound, PTL DEF ProfilesInv, ProfileInv

(* A version stands for one profile, and the stored completeness is that   *)
(* of the rows (profiles/service.py:179-197), unless edits overlapped.     *)
THEOREM EditsCount == ProfilesSpec => []EditsAddUp
<1>1. ProfilesInv => EditsAddUp
  <2>1. ASSUME ProfilesInv, crossed \cap Edits # {} PROVE VersionsTellApart
    BY <2>1 DEF VersionsTellApart
  <2>2. QED
    BY <2>1 DEF ProfilesInv, ProfileInv, VersionIsLast, EditsAddUp
<1>2. QED
  BY ProfilesSound, <1>1, PTL

(* An edit no re-match has read is followed by one (profiles/router.py:4), *)
(* but for those the code lets go.                                         *)
THEOREM Followed == ProfilesSpec => []EditsAreFollowed
BY ProfilesSound, PTL DEF ProfilesInv

(* A counter of the rate limiter that stands is going to be dropped        *)
(* (core/rate_limit.py:16), unless its EXPIRE was lost or is to come.      *)
THEOREM LimitsLift == ProfilesSpec => []LimitLifts
BY ProfilesSound, PTL DEF ProfilesInv

-----------------------------------------------------------------------------
(* Sessions.                                                               *)

Committed == {t \in Tokens : tokens[t].row # "uncommitted"}

(* The steps each request has, and what it has issued, seen and holds.     *)
StepsInOrder(r) ==
    /\ r.op = "sign in" => r.step \in {"sent", "answered"}
    /\ r.op = "refresh" => r.step \in {"sent", "reused", "issued", "answered"}
    /\ r.op \in {"logout", "logout all", "forgot"} => r.step \in {"sent", "waiting", "answered"}
    /\ r.op = "reset" => r.step \in {"sent", "opened", "waiting", "answered"}

HasIssued(r) ==
    \/ r.op \in {"sign in", "reset"} /\ r.step = "answered"
    \/ r.op = "refresh" /\ r.step \in {"issued", "answered"}

InOrder(r) ==
    /\ r \in AccountRequests /\ StepsInOrder(r)
    /\ r.sent \in {0} \cup Tokens
    /\ r.op \in {"refresh", "logout", "logout all"} => r.sent # 0
    /\ r.issued # 0 <=> HasIssued(r)
    /\ r.issued # 0 => r.issued \in Tokens \ Committed
    /\ r.seen \cup r.holds \subseteq Rows(Committed) \cup Links(1..Len(links))
    /\ r.op = "refresh" /\ HasIssued(r) => r.sent \in Committed
    /\ r.step = "reused" =>
         /\ tokens[r.sent].row = "revoked"
         /\ r.seen \subseteq Rows({t \in Tokens : tokens[t].family = tokens[r.sent].family})
    /\ r.step = "sent" \/ (r.step = "waiting" /\ r.op # "reset") => r.holds = {}

(* As long as no other request has been committed since, what was seen is  *)
(* how things are.                                                         *)
SeesAll(r) ==
    /\ r.op = "forgot" =>
         /\ r.step = "waiting" => Links(Usable) \subseteq r.seen
         /\ r.step = "answered" => Links(Usable) \subseteq r.holds
    /\ r.op = "reset" => r.seen \cup r.holds \subseteq Rows(Committed) \cup Links(Usable)
    /\ r.op \in {"logout all", "reset"} =>
         /\ r.step = "waiting" => Rows(Live) \subseteq r.seen
         /\ r.step = "answered" => Rows(Live) \subseteq r.holds
    /\ r.issued # 0 => tokens[r.issued].era = signOuts

SoundRequest(s) == InOrder(req[s]) /\ (Unraced(s) => SeesAll(req[s]))

TokensIssued ==
    \A s, t \in InFlight : req[s].issued # 0 /\ req[s].issued = req[t].issued => s = t

AccountRequestsInv ==
    /\ req = [s \in Slots |-> req[s]]
    /\ raced \subseteq InFlight
    /\ \A s \in InFlight : SoundRequest(s)
    /\ TokensIssued

(* What a device knows, and that two devices descend from two logins.      *)
Knows(d, t) ==
    /\ t # 0
    /\ \/ cookie[d] = t
       \/ \E r \in replies : r.to = d /\ r.token = t
       \/ \E s \in InFlight : req[s].device = d /\ t \in {req[s].sent, req[s].issued}

FamiliesApart ==
    \A d, e \in Devices : \A a, b \in Tokens :
        d # e /\ Knows(d, a) /\ Knows(e, b) => tokens[a].family # tokens[b].family

(* A device that sends one request at a time.                              *)
Good(t) == t # 0 /\ tokens[t].row = "revoked" => t \in dismissed

NoReply(d) == \A r \in replies : r.to # d

Orderly(d) ==
    /\ \A s, t \in InFlight : req[s].device = d /\ req[t].device = d => s = t
    /\ \A q, r \in replies : q.to = d /\ r.to = d => q = r
    /\ \A s \in InFlight : req[s].device = d /\ req[s].step # "answered" =>
         cookie[d] = req[s].sent /\ NoReply(d)
    /\ \A s \in InFlight :
         req[s].device = d /\ req[s].op = "refresh" /\ req[s].step = "answered" =>
            /\ \A r \in replies : r.to = d => r.token = req[s].issued
            /\ NoReply(d) => cookie[d] = req[s].issued
    /\ \A r \in replies : r.to = d => Good(r.token)
    /\ NoReply(d) => Good(cookie[d])

DevicesOrderly == \A d \in Devices \ troubled : Orderly(d)

LinksInv ==
    LinksWorkOnce /\ \A i \in 1..Len(links) : ~links[i].used => links[i].opened = 0

TokenRows == [family : Nat \ {0}, row : RowStates, era : Nat]

LinkRows == [used : BOOLEAN, opened : Nat]

AccountTypes ==
    /\ tokens \in Seq(TokenRows)
    /\ \A t \in Tokens : tokens[t].family <= t /\ tokens[t].era <= signOuts
    /\ cookie \in [Devices -> {0} \cup Tokens]
    /\ replies \subseteq [to : Devices, token : {0} \cup Tokens]
    /\ links \in Seq(LinkRows)
    /\ signOuts \in Nat /\ dismissed \subseteq Tokens /\ troubled \subseteq Devices

AllIssued == \A t \in Tokens \ Committed : \E s \in InFlight : req[s].issued = t

SessionsInv ==
    /\ AccountRequestsInv /\ AccountTypes /\ AllIssued
    /\ LinksInv /\ ResetSignsOut /\ FamiliesApart /\ DevicesOrderly

-----------------------------------------------------------------------------
(* Rows, tokens and links.                                                 *)

LEMMA RowFacts ==
    ASSUME NEW T, NEW I
    PROVE  /\ \A t : <<"refresh_sessions", t>> \in Rows(T) <=> t \in T
           /\ \A t : <<"refresh_sessions", t>> \notin Links(I)
           /\ \A i : <<"auth_tokens", i>> \in Links(I) <=> i \in I
           /\ \A i : <<"auth_tokens", i>> \notin Rows(T)
BY DEF Rows, Links

LEMMA RowsMonotonic ==
    ASSUME NEW T, NEW U, T \subseteq U
    PROVE  Rows(T) \subseteq Rows(U) /\ Links(T) \subseteq Links(U)
BY DEF Rows, Links

LEMMA OfAccount ==
    ASSUME AccountRequestsInv
    PROVE  \A s \in Slots : IsOfAccount(s) <=> s \in InFlight
BY DEF AccountRequestsInv, SoundRequest, InOrder, IsOfAccount, InFlight, AccountRequests

LEMMA TokenFacts ==
    ASSUME AccountTypes
    PROVE  /\ Len(tokens) \in Nat /\ Tokens = 1..Len(tokens)
           /\ \A t \in Tokens : /\ t \in Nat \ {0} /\ tokens[t] \in TokenRows
                                /\ tokens[t].family \in Nat \ {0} /\ tokens[t].row \in RowStates
                                /\ tokens[t].era \in Nat
           /\ NewToken \in Nat \ {0} /\ NewToken \notin Tokens
           /\ \A t \in Tokens : t < NewToken
<1>1. tokens \in Seq(TokenRows) /\ Len(tokens) \in Nat
  BY LenProperties DEF AccountTypes
<1>2. \A t \in 1..Len(tokens) : tokens[t] \in TokenRows
  BY <1>1, ElementOfSeq
<1>3. QED
  BY <1>1, <1>2 DEF Tokens, NewToken, TokenRows

LEMMA LinkFacts ==
    ASSUME AccountTypes
    PROVE  /\ Len(links) \in Nat
           /\ \A i \in 1..Len(links) : /\ links[i] \in LinkRows
                                       /\ links[i].used \in BOOLEAN /\ links[i].opened \in Nat
<1>1. links \in Seq(LinkRows) /\ Len(links) \in Nat
  BY LenProperties DEF AccountTypes
<1>2. \A i \in 1..Len(links) : links[i] \in LinkRows
  BY <1>1, ElementOfSeq
<1>3. QED
  BY <1>1, <1>2 DEF LinkRows

(* A token is issued.                                                      *)
LEMMA IssueFacts ==
    ASSUME AccountTypes, NEW f \in Nat, f <= Len(tokens), Issue(f)
    PROVE  /\ tokens' \in Seq(TokenRows) /\ Tokens' = Tokens \cup {NewToken}
           /\ \A t \in Tokens : tokens'[t] = tokens[t]
           /\ tokens'[NewToken].row = "uncommitted" /\ tokens'[NewToken].era = signOuts
           /\ tokens'[NewToken].family = IF f = 0 THEN NewToken ELSE f
           /\ Live' = Live /\ Committed' = Committed
<1> DEFINE row == [family |-> IF f = 0 THEN Len(tokens) + 1 ELSE f,
                   row |-> "uncommitted", era |-> signOuts]
<1>1. tokens' = Append(tokens, row)
  BY DEF Issue
<1>2. tokens \in Seq(TokenRows) /\ Len(tokens) \in Nat /\ signOuts \in Nat
  BY TokenFacts DEF AccountTypes
<1>3. row \in TokenRows
  BY <1>2 DEF TokenRows, RowStates
<1>4. /\ tokens' \in Seq(TokenRows) /\ Len(tokens') = Len(tokens) + 1
      /\ \A t \in 1..Len(tokens) : tokens'[t] = tokens[t]
      /\ tokens'[Len(tokens) + 1] = row
  BY <1>1, <1>2, <1>3, AppendProperties
<1>5. /\ row.row = "uncommitted" /\ row.era = signOuts
      /\ row.family = IF f = 0 THEN NewToken ELSE f
  BY DEF NewToken
<1> HIDE DEF row
<1>6. Tokens' = Tokens \cup {NewToken} /\ \A t \in Tokens : tokens'[t] = tokens[t]
  BY <1>2, <1>4 DEF Tokens, NewToken
<1>7. tokens'[NewToken] = row
  BY <1>4 DEF NewToken
<1>8. Live' = Live /\ Committed' = Committed
  BY <1>5, <1>6, <1>7 DEF Live, Committed
<1>9. QED
  BY <1>4, <1>5, <1>6, <1>7, <1>8

(* Tokens are stored, or revoked. *)
LEMMA StoredFacts ==
    ASSUME AccountTypes, NEW issued, NEW revoked
    PROVE  /\ Stored(issued, revoked) \in Seq(TokenRows)
           /\ Len(Stored(issued, revoked)) = Len(tokens)
           /\ DOMAIN Stored(issued, revoked) = Tokens
           /\ \A t \in Tokens :
                /\ Stored(issued, revoked)[t] \in TokenRows
                /\ Stored(issued, revoked)[t].family = tokens[t].family
                /\ Stored(issued, revoked)[t].era = tokens[t].era
                /\ Stored(issued, revoked)[t].row = IF t \in revoked THEN "revoked"
                                                    ELSE IF t = issued THEN "live"
                                                    ELSE tokens[t].row
<1>1. \A t \in Tokens : tokens[t] \in TokenRows
  BY TokenFacts
<1>2. \A t \in Tokens :
                /\ Stored(issued, revoked)[t] \in TokenRows
                /\ Stored(issued, revoked)[t].family = tokens[t].family
                /\ Stored(issued, revoked)[t].era = tokens[t].era
                /\ Stored(issued, revoked)[t].row = IF t \in revoked THEN "revoked"
                                                    ELSE IF t = issued THEN "live"
                                                    ELSE tokens[t].row
  BY <1>1 DEF Stored, TokenRows, RowStates
<1>3. DOMAIN Stored(issued, revoked) = Tokens
  BY DEF Stored
<1>4. Stored(issued, revoked) = [t \in Tokens |-> Stored(issued, revoked)[t]]
  BY DEF Stored
<1>5. Stored(issued, revoked) \in [Tokens -> TokenRows]
  BY <1>2, <1>3, <1>4
<1>6. Stored(issued, revoked) \in Seq(TokenRows)
  BY <1>5, TokenFacts, SeqDef
<1>7. QED
  BY <1>2, <1>3, <1>6, TokenFacts, LenProperties

-----------------------------------------------------------------------------
(* Requests, as the tokens there are become more ...                       *)
TokensGrow ==
    /\ Tokens \subseteq Tokens' /\ \A t \in Tokens : tokens'[t] = tokens[t]
    /\ Live' = Live /\ UNCHANGED <<links, signOuts>>

LEMMA RequestStays ==
    ASSUME NEW r, InOrder(r), TokensGrow
    PROVE  InOrder(r)' /\ (SeesAll(r) => SeesAll(r)')
<1>1. Committed \subseteq Committed' /\ \A t \in Tokens : t \in Committed' <=> t \in Committed
  BY DEF TokensGrow, Committed
<1>2. Rows(Committed) \subseteq Rows(Committed')
  BY <1>1, RowsMonotonic
<1>3. Len(links)' = Len(links) /\ Usable' = Usable /\ signOuts' = signOuts
  BY DEF TokensGrow, Usable
<1>4. r.issued # 0 => r.issued \in Tokens /\ tokens'[r.issued] = tokens[r.issued]
  BY DEF InOrder, TokensGrow
<1>5. InOrder(r)'
  <2>1. r.op \in {"refresh", "logout", "logout all"} => r.sent \in Tokens
    BY DEF InOrder
  <2>2. r.step = "reused" => r.sent \in Tokens
    BY <2>1 DEF InOrder, StepsInOrder, AccountRequests
  <2>3. r.step = "reused" =>
           Rows({t \in Tokens : tokens[t].family = tokens[r.sent].family})
             \subseteq Rows({t \in Tokens' : tokens'[t].family = tokens'[r.sent].family})
    <3>1. r.step = "reused" =>
            {t \in Tokens : tokens[t].family = tokens[r.sent].family}
              \subseteq {t \in Tokens' : tokens'[t].family = tokens'[r.sent].family}
      BY <2>2 DEF TokensGrow
    <3>2. QED
      BY <3>1, RowsMonotonic
  <2>4. r.step = "reused" => /\ tokens'[r.sent].row = "revoked"
                             /\ r.seen \subseteq Rows({t \in Tokens' : tokens'[t].family = tokens'[r.sent].family})
    BY <2>2, <2>3 DEF InOrder, TokensGrow
  <2>5. r.seen \cup r.holds \subseteq Rows(Committed') \cup Links(1..Len(links'))
    BY <1>2, <1>3 DEF InOrder
  <2>6. /\ r.sent \in {0} \cup Tokens' /\ (r.issued # 0 => r.issued \in Tokens' \ Committed')
        /\ r.op = "refresh" /\ HasIssued(r) => r.sent \in Committed'
    BY <1>1 DEF InOrder, TokensGrow
  <2>7. QED
    BY <2>4, <2>5, <2>6 DEF InOrder
<1>6. ASSUME SeesAll(r) PROVE SeesAll(r)'
  BY <1>2, <1>3, <1>4, <1>6 DEF SeesAll, TokensGrow
<1>7. QED
  BY <1>5, <1>6

(* ... or the rows of another request are written.                         *)
TokensChange ==
    /\ Tokens' = Tokens /\ \A t \in Tokens : tokens'[t].family = tokens[t].family
    /\ Committed \subseteq Committed'
    /\ \A t \in Tokens : tokens[t].row = "revoked" => tokens'[t].row = "revoked"
    /\ Len(links) \in Nat /\ Len(links)' \in Nat /\ Len(links) <= Len(links)'

LEMMA RequestIsRaced ==
    ASSUME NEW r, InOrder(r), TokensChange, r.issued # 0 => r.issued \notin Committed'
    PROVE  InOrder(r)'
<1>1. Rows(Committed) \subseteq Rows(Committed') /\ Links(1..Len(links)) \subseteq Links(1..Len(links'))
  <2>1. 1..Len(links) \subseteq 1..Len(links')
    BY DEF TokensChange
  <2>2. QED
    BY <2>1, RowsMonotonic DEF TokensChange
<1>2. r.step = "reused" => r.sent \in Tokens
  BY DEF InOrder, StepsInOrder, AccountRequests
<1>3. r.step = "reused" =>
        {t \in Tokens : tokens[t].family = tokens[r.sent].family}
          = {t \in Tokens' : tokens'[t].family = tokens'[r.sent].family}
  BY <1>2 DEF TokensChange
<1>4. r.step = "reused" =>
        /\ tokens'[r.sent].row = "revoked"
        /\ r.seen \subseteq Rows({t \in Tokens' : tokens'[t].family = tokens'[r.sent].family})
  BY <1>2, <1>3 DEF InOrder, TokensChange
<1>5. r.seen \cup r.holds \subseteq Rows(Committed') \cup Links(1..Len(links'))
  BY <1>1 DEF InOrder
<1>6. QED
  BY <1>4, <1>5 DEF InOrder, TokensChange

LEMMA AccountReads ==
    ASSUME SessionsInv, NEW s \in Slots, NEW r, Reads(s, r), TokensGrow,
           InOrder(r), SeesAll(r), r.issued = 0
    PROVE  AccountRequestsInv' /\ crossed' = crossed
<1>1. /\ req'[s] = r /\ \A t \in Slots : t # s => req'[t] = req[t]
      /\ req' = [t \in Slots |-> req'[t]] /\ req[s] = None
      /\ UNCHANGED <<raced, crossed>>
  BY DEF SessionsInv, AccountRequestsInv, Reads
<1>2. raced' \subseteq InFlight'
  BY <1>1 DEF SessionsInv, AccountRequestsInv, InFlight
<1>3. ASSUME NEW t \in InFlight' PROVE SoundRequest(t)'
  <2>1. CASE t = s
    BY <1>1, <2>1, RequestStays DEF SoundRequest
  <2>2. CASE t # s
    <3>1. t \in InFlight /\ SoundRequest(t)
      BY <1>1, <1>3, <2>2 DEF SessionsInv, AccountRequestsInv, InFlight
    <3>2. PICK q : q = req[t]
      OBVIOUS
    <3>3. InOrder(q)' /\ (SeesAll(q) => SeesAll(q)')
      BY <3>1, <3>2, RequestStays DEF SoundRequest
    <3>4. QED
      BY <1>1, <1>3, <2>2, <3>1, <3>2, <3>3 DEF SoundRequest, Unraced, InFlight
  <2>3. QED
    BY <2>1, <2>2
<1>4. TokensIssued'
  BY <1>1 DEF TokensIssued, InFlight, SessionsInv, AccountRequestsInv
<1>5. QED
  BY <1>1, <1>2, <1>3, <1>4 DEF AccountRequestsInv

LEMMA AccountReadsOn ==
    ASSUME SessionsInv, NEW s \in InFlight, NEW r, ReadsOn(s, r), TokensGrow,
           InOrder(r)', Unraced(s) => SeesAll(r)',
           r.issued \in {0, req[s].issued} \/ r.issued \notin Tokens
    PROVE  AccountRequestsInv' /\ crossed' = crossed /\ InFlight' = InFlight
<1>1. r # None
  BY SessionsAssumption DEF InOrder
<1>2. /\ req'[s] = r /\ \A t \in Slots : t # s => req'[t] = req[t]
      /\ req' = [t \in Slots |-> req'[t]] /\ s \in Slots
      /\ UNCHANGED <<raced, crossed>>
  BY DEF SessionsInv, AccountRequestsInv, ReadsOn, InFlight
<1>3. InFlight' = InFlight
  BY <1>1, <1>2 DEF InFlight
<1>4. ASSUME NEW t \in InFlight PROVE SoundRequest(t)'
  <2>1. CASE t = s
    BY <1>2, <2>1 DEF SoundRequest, Unraced
  <2>2. CASE t # s
    <3>1. SoundRequest(t)
      BY DEF SessionsInv, AccountRequestsInv
    <3>2. PICK q : q = req[t]
      OBVIOUS
    <3>3. InOrder(q)' /\ (SeesAll(q) => SeesAll(q)')
      BY <3>1, <3>2, RequestStays DEF SoundRequest
    <3>4. QED
      BY <1>2, <2>2, <3>1, <3>2, <3>3 DEF SoundRequest, Unraced, InFlight
  <2>3. QED
    BY <2>1, <2>2
<1>5. TokensIssued'
  <2>1. \A t \in InFlight : req[t].issued # 0 => req[t].issued \in Tokens
    BY DEF SessionsInv, AccountRequestsInv, SoundRequest, InOrder
  <2>2. QED
    BY <1>2, <1>3, <2>1 DEF TokensIssued, InFlight, SessionsInv, AccountRequestsInv
<1>6. QED
  BY <1>2, <1>3, <1>4, <1>5 DEF AccountRequestsInv, SessionsInv

LEMMA AccountEnds ==
    ASSUME SessionsInv, NEW s \in InFlight, Ends(s), TokensGrow
    PROVE  AccountRequestsInv' /\ crossed' = crossed /\ InFlight' = InFlight \ {s}
<1>1. /\ req'[s] = None /\ \A t \in Slots : t # s => req'[t] = req[t]
      /\ req' = [t \in Slots |-> req'[t]]
      /\ raced' = raced \ {s} /\ UNCHANGED crossed
  BY DEF SessionsInv, AccountRequestsInv, Ends, InFlight
<1>2. InFlight' = InFlight \ {s}
  BY <1>1 DEF InFlight
<1>3. ASSUME NEW t \in InFlight' PROVE SoundRequest(t)'
  <2>1. t # s /\ req'[t] = req[t] /\ SoundRequest(t)
    BY <1>1, <1>2, <1>3 DEF SessionsInv, AccountRequestsInv, InFlight
  <2>2. PICK q : q = req[t]
    OBVIOUS
  <2>3. InOrder(q)' /\ (SeesAll(q) => SeesAll(q)')
    BY <2>1, <2>2, RequestStays DEF SoundRequest
  <2>4. QED
    BY <1>1, <2>1, <2>2, <2>3 DEF SoundRequest, Unraced
<1>4. TokensIssued'
  BY <1>1, <1>2 DEF TokensIssued, InFlight, SessionsInv, AccountRequestsInv
<1>5. QED
  BY <1>1, <1>2, <1>3, <1>4 DEF AccountRequestsInv, SessionsInv

LEMMA AccountCommits ==
    ASSUME SessionsInv, NEW s \in InFlight, Commits(s), TokensChange,
           Committed' \subseteq Committed \cup {req[s].issued}
    PROVE  /\ AccountRequestsInv' /\ crossed \subseteq crossed' /\ InFlight' = InFlight \ {s}
           /\ s \in raced => req[s].op \in crossed'
           /\ \A t \in InFlight' : req'[t] = req[t]
<1>1. /\ req'[s] = None /\ \A t \in Slots : t # s => req'[t] = req[t]
      /\ req' = [t \in Slots |-> req'[t]]
      /\ raced' = (raced \cup InFlight) \ {s}
      /\ crossed' = IF s \in raced THEN crossed \cup {req[s].op} ELSE crossed
  BY DEF SessionsInv, AccountRequestsInv, Commits, InFlight
<1>2. InFlight' = InFlight \ {s} /\ raced' = InFlight'
  BY <1>1 DEF SessionsInv, AccountRequestsInv, InFlight
<1>3. ASSUME NEW t \in InFlight' PROVE SoundRequest(t)'
  <2>1. t # s /\ t \in InFlight /\ req'[t] = req[t] /\ InOrder(req[t])
    BY <1>1, <1>2, <1>3 DEF SessionsInv, AccountRequestsInv, InFlight, SoundRequest
  <2>2. PICK q : q = req[t]
    OBVIOUS
  <2>3. q.issued # 0 => q.issued \notin Committed'
    BY <2>1, <2>2 DEF SessionsInv, AccountRequestsInv, TokensIssued, InOrder
  <2>4. InOrder(q)'
    BY <2>1, <2>2, <2>3, RequestIsRaced
  <2>5. QED
    BY <1>2, <1>3, <2>1, <2>2, <2>4 DEF SoundRequest, Unraced
<1>4. TokensIssued'
  BY <1>1, <1>2 DEF TokensIssued, InFlight, SessionsInv, AccountRequestsInv
<1>5. \A t \in InFlight' : req'[t] = req[t]
  BY <1>1, <1>2 DEF InFlight
<1>6. QED
  BY <1>1, <1>2, <1>3, <1>4, <1>5 DEF AccountRequestsInv, SessionsInv

-----------------------------------------------------------------------------
(* Devices.                                                                *)

(* What a device that neither sends nor receives knows is still good. *)
LEMMA OtherDevice ==
    ASSUME NEW e, Orderly(e), cookie'[e] = cookie[e],
           \A t \in InFlight' : req'[t].device = e => t \in InFlight /\ req'[t] = req[t],
           \A r : r.to = e => (r \in replies' <=> r \in replies),
           \A t : Knows(e, t) /\ Good(t) => Good(t)'
    PROVE  Orderly(e)'
<1>1. NoReply(e)' <=> NoReply(e)
  BY DEF NoReply
<1>2. Good(0) /\ Good(0)'
  BY DEF Good
<1>3. \A r \in replies : r.to = e => Knows(e, r.token) \/ r.token = 0
  BY DEF Knows
<1>4. Knows(e, cookie[e]) \/ cookie[e] = 0
  BY DEF Knows
<1>5. \A r \in replies' : r.to = e => Good(r.token)'
  BY <1>2, <1>3 DEF Orderly
<1>6. NoReply(e)' => Good(cookie[e])'
  <2>1. SUFFICES ASSUME NoReply(e) PROVE Good(cookie[e])'
    BY <1>1
  <2>2. PICK t : t = cookie[e]
    OBVIOUS
  <2>3. Good(t)
    BY <2>1, <2>2 DEF Orderly
  <2>4. Good(t)'
    BY <1>2, <1>4, <2>2, <2>3
  <2>5. QED
    BY <2>2, <2>4 DEF Good
<1>7. QED
  BY <1>1, <1>5, <1>6 DEF Orderly

(* Families stay as they are, and no device learns a token of another one. *)
LEMMA FamiliesStay ==
    ASSUME FamiliesApart, AccountTypes,
           \A t \in Tokens : t \in Tokens' /\ tokens'[t].family = tokens[t].family,
           \A e \in Devices, t \in Tokens' : Knows(e, t)' => Knows(e, t) /\ t \in Tokens
    PROVE  FamiliesApart'
BY DEF FamiliesApart

(* A device learns a new token, of a new family or one of its own.         *)
LEMMA FamiliesGrow ==
    ASSUME FamiliesApart, AccountTypes, NEW d \in Devices, NEW n, n \notin Tokens,
           Tokens' = Tokens \cup {n}, \A t \in Tokens : tokens'[t] = tokens[t],
           \A e \in Devices : \A t : Knows(e, t)' => Knows(e, t) \/ (e = d /\ t = n),
           \A e \in Devices : \A t : Knows(e, t) => t \in Tokens,
           \/ \A t \in Tokens : tokens[t].family # tokens'[n].family
           \/ \E a \in Tokens : Knows(d, a) /\ tokens'[n].family = tokens[a].family
    PROVE  FamiliesApart'
<1>1. SUFFICES ASSUME NEW e \in Devices, NEW f \in Devices, NEW a \in Tokens', NEW b \in Tokens',
                      e # f, Knows(e, a)', Knows(f, b)'
               PROVE  tokens'[a].family # tokens'[b].family
  BY DEF FamiliesApart
<1>2. CASE a # n /\ b # n
  BY <1>1, <1>2 DEF FamiliesApart
<1>3. CASE a = n
  <2>1. e = d /\ Knows(f, b) /\ b \in Tokens
    BY <1>1, <1>3
  <2>2. QED
    BY <1>1, <1>3, <2>1 DEF FamiliesApart
<1>4. CASE b = n
  <2>1. f = d /\ Knows(e, a) /\ a \in Tokens
    BY <1>1, <1>4
  <2>2. QED
    BY <1>1, <1>4, <2>1 DEF FamiliesApart
<1>5. QED
  BY <1>2, <1>3, <1>4

LEMMA KnownAreTokens ==
    ASSUME SessionsInv, NEW e \in Devices, NEW t, Knows(e, t)
    PROVE  t \in Tokens
<1>1. \A s \in InFlight : {req[s].sent, req[s].issued} \subseteq {0} \cup Tokens
  BY DEF SessionsInv, AccountRequestsInv, SoundRequest, InOrder
<1>2. QED
  BY <1>1 DEF Knows, SessionsInv, AccountTypes

(* A request that has not been answered goes on, issues a token or not, is *)
(* answered or not.                                                        *)
Quiet(r) == replies' = replies /\ (r.step = "answered" => r.op # "refresh")

Replies(r, d, x) ==
    /\ replies' = replies \cup {[to |-> d, token |-> x]} /\ r.step = "answered"
    /\ x = r.issued \/ (x = 0 /\ r.op # "refresh")

IssuesOne(s, r) ==
    /\ req[s].issued = 0 /\ r.issued = NewToken
    /\ Tokens' = Tokens \cup {NewToken}
    /\ tokens'[NewToken].era <= signOuts'
    /\ tokens'[NewToken].family <= NewToken
    /\ \/ tokens'[NewToken].family = NewToken
       \/ r.sent \in Tokens /\ tokens'[NewToken].family = tokens[r.sent].family

IssuesNone(s, r) == tokens' = tokens /\ r.issued = req[s].issued

LEMMA GoesOn ==
    ASSUME SessionsInv, NEW s \in InFlight, NEW r, NEW d, d = req[s].device, NEW x,
           ReadsOn(s, r), TokensGrow, tokens' \in Seq(TokenRows),
           UNCHANGED <<cookie, dismissed, troubled>>,
           InOrder(r)', Unraced(s) => SeesAll(r)',
           req[s].step # "answered", r.device = d, r.sent = req[s].sent, r.op = req[s].op,
           IssuesOne(s, r) \/ IssuesNone(s, r),
           Quiet(r) \/ Replies(r, d, x)
    PROVE  SessionsInv'
<1>1. /\ AccountRequestsInv /\ AccountTypes /\ AllIssued
      /\ LinksInv /\ ResetSignsOut /\ FamiliesApart /\ DevicesOrderly
  BY DEF SessionsInv
<1>2. InOrder(req[s]) /\ d \in Devices
  BY <1>1 DEF AccountRequestsInv, SoundRequest, InOrder, AccountRequests
<1>3. /\ NewToken \notin Tokens /\ NewToken # 0 /\ \A t \in Tokens : t # 0
      /\ NewToken \in Nat /\ Len(tokens) \in Nat
      /\ \A t \in Tokens : t < NewToken
  BY <1>1, TokenFacts
<1>4. Tokens' = Tokens \/ Tokens' = Tokens \cup {NewToken}
  BY DEF IssuesOne, IssuesNone, Tokens
<1>5. /\ AccountRequestsInv' /\ crossed' = crossed /\ InFlight' = InFlight
  BY <1>3, AccountReadsOn DEF IssuesOne, IssuesNone
<1>6. /\ req'[s] = r /\ \A t \in Slots : t # s => req'[t] = req[t]
      /\ s \in Slots
  BY <1>1 DEF ReadsOn, AccountRequestsInv, InFlight
<1>7. r.issued # 0 => r.issued \in Tokens' /\ tokens'[r.issued].row = "uncommitted"
  BY DEF InOrder, Committed
<1>8. AccountTypes'
  <2>1. \A t \in Tokens' : tokens'[t].family <= t /\ tokens'[t].era <= signOuts'
    <3>1. \A t \in Tokens : tokens'[t].family <= t /\ tokens'[t].era <= signOuts'
      BY <1>1 DEF TokensGrow, AccountTypes
    <3>2. QED
      BY <3>1 DEF IssuesOne, IssuesNone, Tokens
  <2>2. replies' \subseteq [to : Devices, token : {0} \cup Tokens']
    BY <1>1, <1>2, <1>7 DEF Quiet, Replies, TokensGrow, AccountTypes
  <2>3. QED
    BY <1>1, <2>1, <2>2 DEF TokensGrow, AccountTypes
<1>9. AllIssued'
  <2>1. SUFFICES ASSUME NEW t \in Tokens' \ Committed'
                 PROVE  \E u \in InFlight : req'[u].issued = t
    BY <1>5 DEF AllIssued
  <2>2. CASE t \in Tokens
    <3>1. t \notin Committed
      BY <2>1, <2>2 DEF Committed, TokensGrow
    <3>2. PICK u \in InFlight : req[u].issued = t
      BY <1>1, <2>2, <3>1 DEF AllIssued
    <3>3. u = s => r.issued = t
      BY <1>3, <2>2, <3>2 DEF IssuesOne, IssuesNone
    <3>4. QED
      BY <1>6, <3>2, <3>3 DEF InFlight
  <2>3. CASE t \notin Tokens
    BY <1>6, <2>1, <2>3 DEF IssuesOne, IssuesNone, Tokens
  <2>4. QED
    BY <2>2, <2>3
<1>10. LinksInv' /\ ResetSignsOut'
  <2>1. LinksInv'
    BY <1>1, <1>5 DEF LinksInv, LinksWorkOnce, Usable, TokensGrow
  <2>2. \A t \in Live : tokens'[t] = tokens[t]
    BY DEF TokensGrow, Live
  <2>3. QED
    BY <1>1, <1>5, <2>1, <2>2 DEF ResetSignsOut, TokensGrow
<1>11. /\ \A e \in Devices : \A t : Knows(e, t)' => Knows(e, t) \/ (e = d /\ t = r.issued)
       /\ \A e \in Devices : \A t : Knows(e, t) => t \in Tokens
  <2>1. ASSUME NEW e \in Devices, NEW t, Knows(e, t)', ~(e = d /\ t = r.issued) PROVE Knows(e, t)
    <3>1. CASE cookie'[e] = t
      BY <2>1, <3>1 DEF Knows
    <3>2. CASE \E q \in replies' : q.to = e /\ q.token = t
      BY <2>1, <3>2 DEF Knows, Quiet, Replies
    <3>3. CASE \E u \in InFlight : req'[u].device = e /\ t \in {req'[u].sent, req'[u].issued}
      BY <1>6, <2>1, <3>3 DEF Knows, InFlight
    <3>4. QED
      BY <1>5, <2>1, <3>1, <3>2, <3>3 DEF Knows
  <2>2. QED
    BY <2>1, KnownAreTokens
<1>12. FamiliesApart'
  <2>1. CASE IssuesNone(s, r)
    <3>1. Knows(d, r.issued) \/ r.issued = 0
      BY <2>1 DEF Knows, IssuesNone
    <3>2. \A e \in Devices, t \in Tokens' : Knows(e, t)' => Knows(e, t) /\ t \in Tokens
      <4>1. \A e \in Devices : \A t : Knows(e, t)' => t # 0
        BY DEF Knows
      <4>2. QED
        BY <1>11, <3>1, <4>1
    <3>3. QED
      BY <1>1, <2>1, <3>2, FamiliesStay DEF IssuesNone, Tokens
  <2>2. CASE IssuesOne(s, r)
    <3>1. PICK n : n = NewToken
      OBVIOUS
    <3>2. \A e \in Devices : \A t : Knows(e, t)' => Knows(e, t) \/ (e = d /\ t = n)
      BY <1>11, <2>2, <3>1 DEF IssuesOne
    <3>3. \A t \in Tokens : tokens[t].family # n
      <4>1. \A t \in Tokens : tokens[t].family <= t /\ tokens[t].family \in Nat /\ t \in Nat
        BY <1>1, TokenFacts DEF AccountTypes
      <4>2. QED
        BY <1>3, <3>1, <4>1
    <3>4. r.sent \in Tokens => Knows(d, r.sent)
      BY <1>3 DEF Knows
    <3>5. QED
      BY <1>1, <1>2, <1>3, <1>11, <2>2, <3>1, <3>2, <3>3, <3>4, FamiliesGrow
      DEF IssuesOne, TokensGrow
  <2>3. QED
    BY <2>1, <2>2
<1>13. DevicesOrderly'
  <2>1. SUFFICES ASSUME NEW e \in Devices \ troubled PROVE Orderly(e)'
    BY DEF DevicesOrderly
  <2>2. Orderly(e)
    BY <1>1 DEF DevicesOrderly
  <2>3. \A t \in Tokens : Good(t)' <=> Good(t)
    BY DEF Good, TokensGrow
  <2>4. CASE e # d
    <3>1. \A t \in InFlight' : req'[t].device = e => t \in InFlight /\ req'[t] = req[t]
      BY <1>5, <1>6, <2>4 DEF InFlight
    <3>2. \A q : q.to = e => (q \in replies' <=> q \in replies)
      BY <2>4 DEF Quiet, Replies
    <3>3. \A t : Knows(e, t) /\ Good(t) => Good(t)'
      BY <1>11, <2>3
    <3>4. QED
      BY <2>2, <3>1, <3>2, <3>3, OtherDevice
  <2>5. CASE e = d
    <3>1. /\ \A t \in InFlight : req[t].device = d => t = s
          /\ cookie[d] = req[s].sent /\ NoReply(d)
          /\ Good(cookie[d])
      BY <2>2, <2>5 DEF Orderly
    <3>2. \A t \in InFlight : req'[t].device = d => t = s
      BY <1>6, <3>1 DEF InFlight
    <3>3. Good(0)' /\ (r.issued # 0 => Good(r.issued)') /\ Good(cookie[d])'
      <4>1. Good(0)'
        BY DEF Good
      <4>2. r.issued # 0 => Good(r.issued)'
        BY <1>7 DEF Good
      <4>3. cookie[d] \in {0} \cup Tokens
        BY <1>1, <1>2 DEF AccountTypes
      <4>4. Good(cookie[d])'
        BY <2>3, <3>1, <4>1, <4>3 DEF Good
      <4>5. QED
        BY <4>1, <4>2, <4>4
    <3>4. CASE Quiet(r)
      <4>1. NoReply(d)'
        BY <3>1, <3>4 DEF NoReply, Quiet
      <4>2. QED
        BY <1>5, <1>6, <2>5, <3>1, <3>2, <3>3, <3>4, <4>1 DEF Orderly, Quiet, NoReply
    <3>5. CASE Replies(r, d, x)
      <4>1. \A q \in replies' : q.to = d => q = [to |-> d, token |-> x]
        BY <3>1, <3>5 DEF NoReply, Replies
      <4>2. ~NoReply(d)'
        <5>1. PICK q : q = [to |-> d, token |-> x]
          OBVIOUS
        <5>2. q \in replies' /\ q.to = d
          BY <3>5, <5>1 DEF Replies
        <5>3. QED
          BY <5>2 DEF NoReply
      <4>3. Good(x)'
        BY <3>3, <3>5 DEF Replies, Good
      <4>4. \A q \in replies' : q.to = d => Good(q.token)'
        BY <4>1, <4>3
      <4>5. QED
        BY <1>5, <1>6, <2>5, <3>2, <3>5, <4>1, <4>2, <4>4 DEF Orderly, Replies
    <3>6. QED
      BY <3>4, <3>5
  <2>6. QED
    BY <2>4, <2>5
<1>14. QED
  BY <1>5, <1>8, <1>9, <1>10, <1>12, <1>13 DEF SessionsInv

(* ... and the account is as it was. *)
LEMMA Looks ==
    ASSUME SessionsInv, NEW s \in InFlight, NEW r, ReadsOn(s, r), UNCHANGED account,
           InOrder(r), Unraced(s) => SeesAll(r),
           req[s].step # "answered", r.device = req[s].device, r.sent = req[s].sent,
           r.op = req[s].op, r.issued = req[s].issued, r.step = "answered" => r.op # "refresh"
    PROVE  SessionsInv'
<1>1. UNCHANGED <<tokens, cookie, replies, links, signOuts, dismissed, troubled>>
  BY DEF account
<1>2. TokensGrow
  BY <1>1 DEF TokensGrow, Tokens, Live
<1>3. InOrder(r)' /\ (Unraced(s) => SeesAll(r)')
  BY <1>2, RequestStays
<1>4. tokens' \in Seq(TokenRows)
  BY <1>1 DEF SessionsInv, AccountTypes
<1>5. IssuesNone(s, r) /\ Quiet(r)
  BY <1>1 DEF IssuesNone, Quiet
<1>6. PICK d : d = req[s].device
  OBVIOUS
<1>7. QED
  BY <1>1, <1>2, <1>3, <1>4, <1>5, <1>6, GoesOn

LEMMA RowsTyped ==
    ASSUME NEW T \in SUBSET Nat
    PROVE  /\ Rows(T) \subseteq {"refresh_sessions", "auth_tokens"} \X Nat
           /\ Links(T) \subseteq {"refresh_sessions", "auth_tokens"} \X Nat
BY DEF Rows, Links

LEMMA IsSound ==
    ASSUME SessionsInv, NEW s \in InFlight
    PROVE  /\ InOrder(req[s]) /\ (Unraced(s) => SeesAll(req[s]))
           /\ req[s] \in AccountRequests /\ AccountTypes
BY DEF SessionsInv, AccountRequestsInv, SoundRequest, InOrder

LEMMA LiveAreCommitted ==
    ASSUME AccountTypes
    PROVE  /\ Live \subseteq Committed /\ Committed \subseteq Tokens /\ Tokens \subseteq Nat
           /\ Usable \subseteq 1..Len(links) /\ 1..Len(links) \subseteq Nat
           /\ Rows(Live) \subseteq Rows(Committed) /\ Links(Usable) \subseteq Links(1..Len(links))
           /\ Outstanding \subseteq Rows(Committed) \cup Links(1..Len(links))
           /\ Outstanding \subseteq {"refresh_sessions", "auth_tokens"} \X Nat
<1>1. /\ Live \subseteq Committed /\ Committed \subseteq Tokens /\ Tokens \subseteq Nat
      /\ Usable \subseteq 1..Len(links) /\ 1..Len(links) \subseteq Nat
  BY TokenFacts, LinkFacts DEF Live, Committed, Usable
<1>2. Rows(Live) \subseteq Rows(Committed) /\ Links(Usable) \subseteq Links(1..Len(links))
  BY <1>1, RowsMonotonic
<1>3. Live \in SUBSET Nat /\ Usable \in SUBSET Nat
  BY <1>1
<1>4. QED
  BY <1>1, <1>2, <1>3, RowsTyped DEF Outstanding

LEMMA RefreshReuseInv ==
    ASSUME SessionsInv, NEW s \in InFlight, RefreshReuse(s)
    PROVE  SessionsInv'
<1> DEFINE family == Family(tokens[req[s].sent].family)
<1>1. PICK r : r = [req[s] EXCEPT !.seen = Rows(family), !.step = "reused"]
  OBVIOUS
<1>2. /\ ReadsOn(s, r) /\ UNCHANGED account
      /\ req[s].op = "refresh" /\ req[s].step = "sent" /\ tokens[req[s].sent].row = "revoked"
  BY <1>1 DEF RefreshReuse, Sees, Descendants, Is
<1>3. InOrder(req[s]) /\ req[s] \in AccountRequests /\ AccountTypes
  BY IsSound
<1>4. /\ family \subseteq Live /\ family \subseteq Nat /\ family \subseteq Committed
      /\ family \subseteq {t \in Tokens : tokens[t].family = tokens[req[s].sent].family}
  BY <1>3, LiveAreCommitted DEF Family, Live
<1> HIDE DEF family
<1>5. /\ r \in AccountRequests /\ r.op = "refresh" /\ r.device = req[s].device
      /\ r.sent = req[s].sent /\ r.issued = req[s].issued /\ r.holds = req[s].holds
      /\ r.seen = Rows(family) /\ r.step = "reused"
  <2>1. Rows(family) \subseteq {"refresh_sessions", "auth_tokens"} \X Nat
    BY <1>4, RowsTyped
  <2>2. QED
    BY <1>1, <1>2, <1>3, <2>1 DEF AccountRequests
<1>6. InOrder(r)
  <2>1. Rows(family) \subseteq Rows(Committed)
    BY <1>4, RowsMonotonic
  <2>2. Rows(family) \subseteq Rows({t \in Tokens : tokens[t].family = tokens[req[s].sent].family})
    BY <1>4, RowsMonotonic
  <2>3. QED
    BY <1>2, <1>3, <1>5, <2>1, <2>2 DEF InOrder, StepsInOrder, HasIssued
<1>7. SeesAll(r)
  BY <1>5, <1>6 DEF SeesAll, InOrder, HasIssued
<1>8. QED
  BY <1>2, <1>5, <1>6, <1>7, Looks

LEMMA SignOutBeginsInv ==
    ASSUME SessionsInv, NEW s \in InFlight, SignOutBegins(s)
    PROVE  SessionsInv'
<1>1. PICK T : T = IF req[s].op = "logout" THEN {req[s].sent} \cap Live ELSE Live
  OBVIOUS
<1>2. PICK r : r = [req[s] EXCEPT !.seen = Rows(T), !.step = "waiting"]
  OBVIOUS
<1>3. /\ ReadsOn(s, r) /\ UNCHANGED account
      /\ req[s].op \in {"logout", "logout all"} /\ req[s].step = "sent"
  BY <1>1, <1>2 DEF SignOutBegins, SignsOut, Sees, Is
<1>4. InOrder(req[s]) /\ req[s] \in AccountRequests /\ AccountTypes
  BY IsSound
<1>5. T \subseteq Live /\ T \subseteq Committed /\ T \in SUBSET Nat
      /\ (req[s].op = "logout all" => T = Live)
  BY <1>1, <1>4, LiveAreCommitted
<1>6. /\ r \in AccountRequests /\ r.op = req[s].op /\ r.device = req[s].device
      /\ r.sent = req[s].sent /\ r.issued = req[s].issued /\ r.holds = req[s].holds
      /\ r.seen = Rows(T) /\ r.step = "waiting"
  <2>1. Rows(T) \subseteq {"refresh_sessions", "auth_tokens"} \X Nat
    BY <1>5, RowsTyped
  <2>2. QED
    BY <1>2, <1>4, <2>1 DEF AccountRequests
<1>7. InOrder(r)
  <2>1. Rows(T) \subseteq Rows(Committed)
    BY <1>5, RowsMonotonic
  <2>2. QED
    BY <1>3, <1>4, <1>6, <2>1 DEF InOrder, StepsInOrder, HasIssued
<1>8. SeesAll(r)
  BY <1>3, <1>5, <1>6, <1>7 DEF SeesAll, InOrder, HasIssued
<1>9. QED
  BY <1>3, <1>6, <1>7, <1>8, Looks

LEMMA ForgetBeginsInv ==
    ASSUME SessionsInv, NEW s \in InFlight, ForgetBegins(s)
    PROVE  SessionsInv'
<1>1. PICK r : r = [req[s] EXCEPT !.seen = Links(Usable), !.step = "waiting"]
  OBVIOUS
<1>2. /\ ReadsOn(s, r) /\ UNCHANGED account
      /\ req[s].op = "forgot" /\ req[s].step = "sent"
  BY <1>1 DEF ForgetBegins, Sees, Is
<1>3. InOrder(req[s]) /\ req[s] \in AccountRequests /\ AccountTypes
  BY IsSound
<1>4. Usable \in SUBSET Nat /\ Links(Usable) \subseteq Links(1..Len(links))
  BY <1>3, LiveAreCommitted
<1>5. /\ r \in AccountRequests /\ r.op = req[s].op /\ r.device = req[s].device
      /\ r.sent = req[s].sent /\ r.issued = req[s].issued /\ r.holds = req[s].holds
      /\ r.seen = Links(Usable) /\ r.step = "waiting"
  <2>1. Links(Usable) \subseteq {"refresh_sessions", "auth_tokens"} \X Nat
    BY <1>4, RowsTyped
  <2>2. QED
    BY <1>1, <1>3, <2>1 DEF AccountRequests
<1>6. InOrder(r)
  BY <1>2, <1>3, <1>4, <1>5 DEF InOrder, StepsInOrder, HasIssued
<1>7. SeesAll(r)
  BY <1>2, <1>5, <1>6 DEF SeesAll, InOrder, HasIssued
<1>8. QED
  BY <1>2, <1>5, <1>6, <1>7, Looks

LEMMA ForgetInv ==
    ASSUME SessionsInv, NEW s \in InFlight, Forget(s)
    PROVE  SessionsInv'
<1>1. PICK taken : taken = req[s].seen \cap Outstanding
  OBVIOUS
<1>2. PICK r : r = [req[s] EXCEPT !.holds = @ \cup taken, !.issued = 0, !.step = "answered"]
  OBVIOUS
<1>3. /\ ReadsOn(s, r) /\ UNCHANGED account
      /\ req[s].op = "forgot" /\ req[s].step = "waiting"
  BY <1>1, <1>2 DEF Forget, Holds, Is
<1>4. /\ InOrder(req[s]) /\ req[s] \in AccountRequests /\ AccountTypes
      /\ (Unraced(s) => SeesAll(req[s]))
  BY IsSound
<1>5. /\ taken \subseteq {"refresh_sessions", "auth_tokens"} \X Nat
      /\ taken \subseteq Rows(Committed) \cup Links(1..Len(links))
  BY <1>1, <1>4, LiveAreCommitted
<1>6. /\ r \in AccountRequests /\ r.op = req[s].op /\ r.device = req[s].device
      /\ r.sent = req[s].sent /\ r.issued = 0 /\ r.holds = req[s].holds \cup taken
      /\ r.seen = req[s].seen /\ r.step = "answered"
  BY <1>2, <1>4, <1>5 DEF AccountRequests
<1>7. req[s].issued = 0 /\ InOrder(r)
  BY <1>3, <1>4, <1>5, <1>6 DEF InOrder, StepsInOrder, HasIssued
<1>8. Unraced(s) => SeesAll(r)
  BY <1>1, <1>3, <1>4, <1>6 DEF SeesAll, Outstanding
<1>9. QED
  BY <1>3, <1>6, <1>7, <1>8, Looks

LEMMA OpenInv ==
    ASSUME SessionsInv, NEW s \in InFlight, NEW i \in Usable, Open(s, i)
    PROVE  SessionsInv'
<1>1. PICK r : r = [req[s] EXCEPT !.seen = Links({i}), !.step = "opened"]
  OBVIOUS
<1>2. /\ ReadsOn(s, r) /\ UNCHANGED account
      /\ req[s].op = "reset" /\ req[s].step = "sent"
  BY <1>1 DEF Open, Sees, Is
<1>3. InOrder(req[s]) /\ req[s] \in AccountRequests /\ AccountTypes
  BY IsSound
<1>4. {i} \in SUBSET Nat /\ {i} \subseteq Usable /\ {i} \subseteq 1..Len(links)
  BY <1>3, LiveAreCommitted
<1>5. /\ r \in AccountRequests /\ r.op = req[s].op /\ r.device = req[s].device
      /\ r.sent = req[s].sent /\ r.issued = req[s].issued /\ r.holds = req[s].holds
      /\ r.seen = Links({i}) /\ r.step = "opened"
  <2>1. Links({i}) \subseteq {"refresh_sessions", "auth_tokens"} \X Nat
    BY <1>4, RowsTyped
  <2>2. QED
    BY <1>1, <1>3, <2>1 DEF AccountRequests
<1>6. Links({i}) \subseteq Links(Usable) /\ Links({i}) \subseteq Links(1..Len(links))
  BY <1>4, RowsMonotonic
<1>7. InOrder(r)
  BY <1>2, <1>3, <1>5, <1>6 DEF InOrder, StepsInOrder, HasIssued
<1>8. SeesAll(r)
  BY <1>2, <1>3, <1>5, <1>6 DEF SeesAll, InOrder, HasIssued
<1>9. QED
  BY <1>2, <1>5, <1>7, <1>8, Looks

LEMMA ConsumeInv ==
    ASSUME SessionsInv, NEW s \in InFlight, Consume(s)
    PROVE  SessionsInv'
<1>1. PICK r : r = [req[s] EXCEPT !.holds = @ \cup req[s].seen, !.seen = Rows(Live),
                                  !.step = "waiting"]
  OBVIOUS
<1>2. /\ ReadsOn(s, r) /\ UNCHANGED account
      /\ req[s].op = "reset" /\ req[s].step = "opened"
  BY <1>1 DEF Consume, Is
<1>3. /\ InOrder(req[s]) /\ req[s] \in AccountRequests /\ AccountTypes
      /\ (Unraced(s) => SeesAll(req[s]))
  BY IsSound
<1>4. Live \in SUBSET Nat /\ Rows(Live) \subseteq Rows(Committed)
  BY <1>3, LiveAreCommitted
<1>5. /\ r \in AccountRequests /\ r.op = req[s].op /\ r.device = req[s].device
      /\ r.sent = req[s].sent /\ r.issued = req[s].issued
      /\ r.holds = req[s].holds \cup req[s].seen
      /\ r.seen = Rows(Live) /\ r.step = "waiting"
  BY <1>1, <1>3, <1>4, RowsTyped DEF AccountRequests
<1>6. InOrder(r)
  BY <1>2, <1>3, <1>4, <1>5 DEF InOrder, StepsInOrder, HasIssued
<1>7. Unraced(s) => SeesAll(r)
  BY <1>2, <1>3, <1>4, <1>5, <1>6 DEF SeesAll, InOrder, HasIssued
<1>8. QED
  BY <1>2, <1>5, <1>6, <1>7, Looks

LEMMA SignOutInv ==
    ASSUME SessionsInv, NEW s \in InFlight, SignOut(s)
    PROVE  SessionsInv'
<1>1. PICK taken : taken = req[s].seen \cap Outstanding
  OBVIOUS
<1>2. PICK r : r = [req[s] EXCEPT !.holds = @ \cup taken, !.issued = 0, !.step = "answered"]
  OBVIOUS
<1>3. PICK d : d = req[s].device
  OBVIOUS
<1>4. /\ ReadsOn(s, r) /\ replies' = replies \cup {[to |-> d, token |-> 0]}
      /\ UNCHANGED <<tokens, cookie, links, signOuts, dismissed, troubled>>
      /\ req[s].op \in {"logout", "logout all"} /\ req[s].step = "waiting"
  BY <1>1, <1>2, <1>3 DEF SignOut, SignsOut, Holds, Respond, Is
<1>5. /\ InOrder(req[s]) /\ req[s] \in AccountRequests /\ AccountTypes
      /\ (Unraced(s) => SeesAll(req[s]))
  BY IsSound
<1>6. /\ taken \subseteq {"refresh_sessions", "auth_tokens"} \X Nat
      /\ taken \subseteq Rows(Committed) \cup Links(1..Len(links))
  BY <1>1, <1>5, LiveAreCommitted
<1>7. /\ r \in AccountRequests /\ r.op = req[s].op /\ r.device = req[s].device
      /\ r.sent = req[s].sent /\ r.issued = 0 /\ r.holds = req[s].holds \cup taken
      /\ r.seen = req[s].seen /\ r.step = "answered"
  BY <1>2, <1>5, <1>6 DEF AccountRequests
<1>8. req[s].issued = 0 /\ InOrder(r)
  BY <1>4, <1>5, <1>6, <1>7 DEF InOrder, StepsInOrder, HasIssued
<1>9. Unraced(s) => SeesAll(r)
  BY <1>1, <1>4, <1>5, <1>7 DEF SeesAll, Outstanding
<1>10. TokensGrow
  BY <1>4 DEF TokensGrow, Tokens, Live
<1>11. InOrder(r)' /\ (Unraced(s) => SeesAll(r)')
  BY <1>8, <1>9, <1>10, RequestStays
<1>12. IssuesNone(s, r) /\ Replies(r, d, 0) /\ tokens' \in Seq(TokenRows)
  BY <1>4, <1>5, <1>7, <1>8 DEF IssuesNone, Replies, AccountTypes
<1>13. QED
  BY <1>3, <1>4, <1>7, <1>10, <1>11, <1>12, GoesOn

LEMMA RefreshRevokeInv ==
    ASSUME SessionsInv, NEW s \in InFlight, RefreshRevoke(s)
    PROVE  SessionsInv'
<1>1. PICK taken : taken = Rows({req[s].sent})
  OBVIOUS
<1>2. PICK r : r = [req[s] EXCEPT !.holds = @ \cup taken, !.issued = req[s].issued,
                                  !.step = "answered"]
  OBVIOUS
<1>3. PICK d, x : d = req[s].device /\ x = req[s].issued
  OBVIOUS
<1>4. /\ ReadsOn(s, r) /\ replies' = replies \cup {[to |-> d, token |-> x]}
      /\ UNCHANGED <<tokens, cookie, links, signOuts, dismissed, troubled>>
      /\ req[s].op = "refresh" /\ req[s].step = "issued"
  BY <1>1, <1>2, <1>3 DEF RefreshRevoke, Holds, Respond, Is
<1>5. /\ InOrder(req[s]) /\ req[s] \in AccountRequests /\ AccountTypes
      /\ (Unraced(s) => SeesAll(req[s]))
  BY IsSound
<1>6. /\ taken \subseteq {"refresh_sessions", "auth_tokens"} \X Nat
      /\ taken \subseteq Rows(Committed)
  <2>1. {req[s].sent} \subseteq Committed /\ {req[s].sent} \in SUBSET Nat
    BY <1>4, <1>5 DEF InOrder, HasIssued, AccountRequests
  <2>2. QED
    BY <1>1, <2>1, RowsTyped, RowsMonotonic
<1>7. /\ r \in AccountRequests /\ r.op = req[s].op /\ r.device = req[s].device
      /\ r.sent = req[s].sent /\ r.issued = req[s].issued /\ r.holds = req[s].holds \cup taken
      /\ r.seen = req[s].seen /\ r.step = "answered"
  <2>1. req[s].issued \in Nat
    BY <1>5 DEF AccountRequests
  <2>2. QED
    BY <1>2, <1>5, <1>6, <2>1 DEF AccountRequests
<1>8. InOrder(r)
  BY <1>4, <1>5, <1>6, <1>7 DEF InOrder, StepsInOrder, HasIssued
<1>9. Unraced(s) => SeesAll(r)
  BY <1>4, <1>5, <1>7 DEF SeesAll
<1>10. TokensGrow
  BY <1>4 DEF TokensGrow, Tokens, Live
<1>11. InOrder(r)' /\ (Unraced(s) => SeesAll(r)')
  BY <1>8, <1>9, <1>10, RequestStays
<1>12. IssuesNone(s, r) /\ Replies(r, d, x) /\ tokens' \in Seq(TokenRows)
  BY <1>3, <1>4, <1>5, <1>7, <1>8 DEF IssuesNone, Replies, AccountTypes
<1>13. QED
  BY <1>3, <1>4, <1>7, <1>10, <1>11, <1>12, GoesOn

(* A token is issued, in a family of its own or that of the one sent.      *)
LEMMA Issues ==
    ASSUME SessionsInv, NEW s \in InFlight, NEW f \in Nat, Issue(f), f <= Len(tokens),
           NEW r, NEW d, d = req[s].device, NEW x, x = NewToken, ReadsOn(s, r),
           UNCHANGED <<cookie, links, signOuts, dismissed, troubled>>,
           InOrder(r)', Unraced(s) => SeesAll(r)',
           req[s].step # "answered", r.device = d, r.sent = req[s].sent, r.op = req[s].op,
           req[s].issued = 0, r.issued = x,
           f = 0 \/ (r.sent \in Tokens /\ f = tokens[r.sent].family),
           Quiet(r) \/ Replies(r, d, x)
    PROVE  SessionsInv'
<1>1. AccountTypes
  BY IsSound
<1>2. /\ tokens' \in Seq(TokenRows) /\ Tokens' = Tokens \cup {NewToken}
      /\ \A t \in Tokens : tokens'[t] = tokens[t]
      /\ tokens'[NewToken].era = signOuts
      /\ tokens'[NewToken].family = IF f = 0 THEN NewToken ELSE f
      /\ Live' = Live
  BY <1>1, IssueFacts
<1>3. TokensGrow
  BY <1>2 DEF TokensGrow
<1>4. NewToken \in Nat /\ signOuts \in Nat /\ Len(tokens) \in Nat /\ NewToken = Len(tokens) + 1
  BY <1>1, TokenFacts DEF AccountTypes, NewToken
<1>5. tokens'[NewToken].era <= signOuts' /\ tokens'[NewToken].family <= NewToken
  BY <1>2, <1>4
<1>6. \/ tokens'[NewToken].family = NewToken
      \/ r.sent \in Tokens /\ tokens'[NewToken].family = tokens[r.sent].family
  BY <1>2
<1>7. IssuesOne(s, r)
  BY <1>2, <1>5, <1>6 DEF IssuesOne
<1>8. QED
  BY <1>2, <1>3, <1>7, GoesOn

LEMMA SignInInv ==
    ASSUME SessionsInv, NEW s \in InFlight, SignIn(s)
    PROVE  SessionsInv'
<1>1. PICK d, x, f : d = req[s].device /\ x = NewToken /\ f = 0
  OBVIOUS
<1>2. PICK r : r = [req[s] EXCEPT !.holds = @ \cup {}, !.issued = x, !.step = "answered"]
  OBVIOUS
<1>3. /\ ReadsOn(s, r) /\ replies' = replies \cup {[to |-> d, token |-> x]} /\ Issue(f)
      /\ UNCHANGED <<cookie, links, signOuts, dismissed, troubled>>
      /\ req[s].op = "sign in" /\ req[s].step = "sent"
  BY <1>1, <1>2 DEF SignIn, Holds, Respond, Is
<1>4. /\ InOrder(req[s]) /\ req[s] \in AccountRequests /\ AccountTypes
      /\ (Unraced(s) => SeesAll(req[s]))
  BY IsSound
<1>5. x \in Nat \ {0} /\ f \in Nat /\ f <= Len(tokens)
  BY <1>1, <1>4, TokenFacts
<1>6. /\ r \in AccountRequests /\ r.op = req[s].op /\ r.device = req[s].device
      /\ r.sent = req[s].sent /\ r.issued = x /\ r.holds = req[s].holds
      /\ r.seen = req[s].seen /\ r.step = "answered"
  BY <1>2, <1>4, <1>5 DEF AccountRequests
<1>7. req[s].issued = 0
  BY <1>3, <1>4 DEF InOrder, HasIssued
<1>8. /\ Tokens' = Tokens \cup {x} /\ tokens'[x].row = "uncommitted"
      /\ tokens'[x].era = signOuts' /\ Committed' = Committed
  BY <1>1, <1>3, <1>4, <1>5, IssueFacts
<1>9. InOrder(r)'
  BY <1>3, <1>4, <1>5, <1>6, <1>8 DEF InOrder, StepsInOrder, HasIssued, Committed
<1>10. SeesAll(r)'
  BY <1>3, <1>6, <1>8 DEF SeesAll
<1>11. Replies(r, d, x)
  BY <1>3, <1>6 DEF Replies
<1>12. QED
  BY <1>1, <1>3, <1>5, <1>6, <1>7, <1>9, <1>10, <1>11, Issues

LEMMA ResetInv ==
    ASSUME SessionsInv, NEW s \in InFlight, Reset(s)
    PROVE  SessionsInv'
<1>1. PICK d, x, taken : /\ d = req[s].device /\ x = NewToken
                        /\ taken = req[s].seen \cap Outstanding
  OBVIOUS
<1>2. PICK r : r = [req[s] EXCEPT !.holds = @ \cup taken, !.issued = x, !.step = "answered"]
  OBVIOUS
<1>3. /\ ReadsOn(s, r) /\ replies' = replies \cup {[to |-> d, token |-> x]} /\ Issue(0)
      /\ UNCHANGED <<cookie, links, signOuts, dismissed, troubled>>
      /\ req[s].op = "reset" /\ req[s].step = "waiting"
  BY <1>1, <1>2 DEF Reset, Holds, Respond, Is
<1>4. /\ InOrder(req[s]) /\ req[s] \in AccountRequests /\ AccountTypes
      /\ (Unraced(s) => SeesAll(req[s]))
  BY IsSound
<1>5. x \in Nat \ {0} /\ Len(tokens) \in Nat
  BY <1>1, <1>4, TokenFacts
<1>6. /\ taken \subseteq {"refresh_sessions", "auth_tokens"} \X Nat
      /\ taken \subseteq Rows(Committed) \cup Links(1..Len(links))
  BY <1>1, <1>4, LiveAreCommitted
<1>7. /\ r \in AccountRequests /\ r.op = req[s].op /\ r.device = req[s].device
      /\ r.sent = req[s].sent /\ r.issued = x /\ r.holds = req[s].holds \cup taken
      /\ r.seen = req[s].seen /\ r.step = "answered"
  BY <1>2, <1>4, <1>5, <1>6 DEF AccountRequests
<1>8. req[s].issued = 0
  BY <1>3, <1>4 DEF InOrder, HasIssued
<1>9. /\ Tokens' = Tokens \cup {x} /\ tokens'[x].row = "uncommitted"
      /\ tokens'[x].era = signOuts' /\ Committed' = Committed /\ Live' = Live
  BY <1>1, <1>3, <1>4, <1>5, IssueFacts
<1>10. InOrder(r)'
  <2>1. r.seen \cup r.holds \subseteq Rows(Committed)' \cup Links(1..Len(links))'
    BY <1>3, <1>4, <1>6, <1>7, <1>9 DEF InOrder, Rows, Links
  <2>2. r.issued \in (Tokens \ Committed)'
    BY <1>7, <1>9 DEF Committed
  <2>3. QED
    BY <1>3, <1>4, <1>5, <1>7, <1>9, <2>1, <2>2 DEF InOrder, StepsInOrder, HasIssued
<1>11. ASSUME Unraced(s) PROVE SeesAll(r)'
  <2>1. Links(Usable)' = Links(Usable) /\ Rows(Live)' = Rows(Live) /\ Rows(Committed)' = Rows(Committed)
    BY <1>3, <1>9 DEF Links, Rows, Usable
  <2>2. r.seen \cup r.holds \subseteq Rows(Committed)' \cup Links(Usable)'
    <3>1. taken \subseteq Rows(Committed) \cup Links(Usable)
      BY <1>1, <1>4, LiveAreCommitted DEF Outstanding
    <3>2. QED
      BY <1>3, <1>4, <1>7, <1>11, <2>1, <3>1 DEF SeesAll
  <2>3. Rows(Live)' \subseteq r.holds
    BY <1>1, <1>3, <1>4, <1>7, <1>11, <2>1 DEF SeesAll, Outstanding
  <2>4. QED
    BY <1>3, <1>7, <1>9, <2>2, <2>3 DEF SeesAll
<1>12. Replies(r, d, x)
  BY <1>3, <1>7 DEF Replies
<1>13. QED
  BY <1>1, <1>3, <1>5, <1>7, <1>8, <1>10, <1>11, <1>12, Issues

LEMMA RefreshIssueInv ==
    ASSUME SessionsInv, NEW s \in InFlight, RefreshIssue(s)
    PROVE  SessionsInv'
<1>1. PICK d, x, f : d = req[s].device /\ x = NewToken /\ f = tokens[req[s].sent].family
  OBVIOUS
<1>2. PICK r : r = [req[s] EXCEPT !.issued = x, !.step = "issued"]
  OBVIOUS
<1>3. /\ ReadsOn(s, r) /\ Issue(f)
      /\ UNCHANGED <<cookie, replies, links, signOuts, dismissed, troubled>>
      /\ req[s].op = "refresh" /\ req[s].step = "sent" /\ tokens[req[s].sent].row = "live"
  BY <1>1, <1>2 DEF RefreshIssue, Is
<1>4. /\ InOrder(req[s]) /\ req[s] \in AccountRequests /\ AccountTypes
      /\ (Unraced(s) => SeesAll(req[s]))
  BY IsSound
<1>5. req[s].sent \in Tokens /\ req[s].sent \in Committed
  BY <1>3, <1>4 DEF InOrder, Committed
<1>6. x \in Nat \ {0} /\ Len(tokens) \in Nat /\ f \in Nat /\ f <= Len(tokens)
  <2>1. f \in Nat /\ f <= req[s].sent /\ req[s].sent \in 1..Len(tokens) /\ Len(tokens) \in Nat
    BY <1>1, <1>4, <1>5, TokenFacts DEF AccountTypes
  <2>2. QED
    BY <1>1, <1>4, <2>1, TokenFacts
<1>7. /\ r \in AccountRequests /\ r.op = req[s].op /\ r.device = req[s].device
      /\ r.sent = req[s].sent /\ r.issued = x /\ r.holds = req[s].holds
      /\ r.seen = req[s].seen /\ r.step = "issued"
  BY <1>2, <1>4, <1>6 DEF AccountRequests
<1>8. req[s].issued = 0
  BY <1>3, <1>4 DEF InOrder, HasIssued
<1>9. /\ Tokens' = Tokens \cup {x} /\ tokens'[x].row = "uncommitted"
      /\ tokens'[x].era = signOuts' /\ Committed' = Committed
  BY <1>1, <1>3, <1>4, <1>6, IssueFacts
<1>10. InOrder(r)'
  <2>1. r.issued \in (Tokens \ Committed)'
    BY <1>7, <1>9 DEF Committed
  <2>2. r.seen \cup r.holds \subseteq Rows(Committed)' \cup Links(1..Len(links))'
    BY <1>3, <1>4, <1>7, <1>9 DEF InOrder, Rows, Links
  <2>3. QED
    BY <1>3, <1>4, <1>5, <1>6, <1>7, <1>9, <2>1, <2>2 DEF InOrder, StepsInOrder, HasIssued
<1>11. SeesAll(r)'
  BY <1>3, <1>7, <1>9 DEF SeesAll
<1>12. Quiet(r)
  BY <1>3, <1>7 DEF Quiet
<1>13. QED
  BY <1>1, <1>3, <1>5, <1>6, <1>7, <1>8, <1>10, <1>11, <1>12, Issues

-----------------------------------------------------------------------------
(* Requests that begin, end, and are answered.                             *)
LEMMA RequestsRest ==
    ASSUME AccountRequestsInv, UNCHANGED <<tokens, links, signOuts>>, UNCHANGED requests
    PROVE  AccountRequestsInv' /\ InFlight' = InFlight /\ crossed' = crossed
<1>1. UNCHANGED <<tokens, links, signOuts, req, raced, crossed>>
  BY DEF requests
<1>2. TokensGrow
  BY <1>1 DEF TokensGrow, Tokens, Live
<1>3. InFlight' = InFlight
  BY <1>1 DEF InFlight
<1>4. ASSUME NEW t \in InFlight PROVE SoundRequest(t)'
  <2>1. PICK q : q = req[t]
    OBVIOUS
  <2>2. InOrder(q) /\ (Unraced(t) => SeesAll(q))
    BY <2>1 DEF AccountRequestsInv, SoundRequest
  <2>3. InOrder(q)' /\ (SeesAll(q) => SeesAll(q)')
    BY <1>2, <2>2, RequestStays
  <2>4. QED
    BY <1>1, <2>1, <2>2, <2>3 DEF SoundRequest, Unraced
<1>5. QED
  BY <1>1, <1>3, <1>4 DEF AccountRequestsInv, TokensIssued

LEMMA EndsInv ==
    ASSUME SessionsInv, NEW s \in InFlight, Ends(s), UNCHANGED account, req[s].issued = 0
    PROVE  SessionsInv'
<1>1. UNCHANGED <<tokens, cookie, replies, links, signOuts, dismissed, troubled>>
  BY DEF account
<1>2. TokensGrow /\ Tokens' = Tokens /\ Committed' = Committed /\ Live' = Live
  BY <1>1 DEF TokensGrow, Tokens, Live, Committed
<1>3. AccountRequestsInv' /\ crossed' = crossed /\ InFlight' = InFlight \ {s}
  BY <1>2, AccountEnds
<1>4. \A t \in InFlight' : req'[t] = req[t]
  BY <1>3 DEF Ends, InFlight, SessionsInv, AccountRequestsInv
<1>5. \A e, t : Knows(e, t)' => Knows(e, t)
  BY <1>1, <1>3, <1>4 DEF Knows
<1>6. \A t : Good(t)' <=> Good(t)
  BY <1>1 DEF Good
<1>7. AccountTypes' /\ LinksInv' /\ ResetSignsOut'
  BY <1>1, <1>2, <1>3 DEF SessionsInv, AccountTypes, LinksInv, LinksWorkOnce, Usable, ResetSignsOut
<1>8. AllIssued'
  BY <1>1, <1>2, <1>3, <1>4, TokenFacts DEF SessionsInv, AllIssued
<1>9. FamiliesApart'
  BY <1>1, <1>2, <1>5, FamiliesStay DEF SessionsInv
<1>10. DevicesOrderly'
  <2>1. SUFFICES ASSUME NEW e \in Devices \ troubled PROVE Orderly(e)'
    BY <1>1 DEF DevicesOrderly
  <2>2. Orderly(e)
    BY DEF SessionsInv, DevicesOrderly
  <2>3. QED
    BY <1>1, <1>3, <1>4, <1>6, <2>2, OtherDevice
<1>11. QED
  BY <1>3, <1>7, <1>8, <1>9, <1>10 DEF SessionsInv

LEMMA RefreshUnknownInv ==
    ASSUME SessionsInv, NEW s \in InFlight, RefreshUnknown(s) \/ ResetRefused(s)
    PROVE  SessionsInv'
<1>1. /\ Ends(s) /\ UNCHANGED account
      /\ req[s].op \in {"refresh", "reset"} /\ req[s].step = "sent"
  BY DEF RefreshUnknown, ResetRefused, Is
<1>2. req[s].issued = 0
  BY <1>1, IsSound DEF InOrder, HasIssued
<1>3. QED
  BY <1>1, <1>2, EndsInv

LEMMA SendsInv ==
    ASSUME SessionsInv, NEW s \in Slots, NEW d \in Devices,
           NEW op \in {"sign in", "refresh", "logout", "logout all", "forgot", "reset"},
           op \in {"refresh", "logout", "logout all"} => cookie[d] # 0,
           Sends(s, d, op)
    PROVE  SessionsInv'
<1>1. PICK r : r = [op |-> op, device |-> d, sent |-> cookie[d], step |-> "sent",
                    issued |-> 0, seen |-> {}, holds |-> {}]
  OBVIOUS
<1>2. /\ Reads(s, r) /\ troubled' = IF Busy(d) THEN troubled \cup {d} ELSE troubled
      /\ UNCHANGED <<tokens, cookie, replies, links, signOuts, dismissed>>
  BY <1>1 DEF Sends
<1>3. AccountTypes /\ AccountRequestsInv
  BY DEF SessionsInv
<1>4. cookie[d] \in {0} \cup Tokens /\ cookie[d] \in Nat
  <2>1. cookie[d] \in {0} \cup Tokens
    BY <1>3 DEF AccountTypes
  <2>2. Tokens \subseteq Nat
    BY <1>3, LiveAreCommitted
  <2>3. 0 \in Nat
    OBVIOUS
  <2>4. QED
    BY <2>1, <2>2, <2>3, Zenon
<1>5. /\ r \in AccountRequests /\ r.op = op /\ r.device = d /\ r.sent = cookie[d]
      /\ r.step = "sent" /\ r.issued = 0 /\ r.seen = {} /\ r.holds = {}
  BY <1>1, <1>4 DEF AccountRequests
<1>6. InOrder(r)
  BY <1>4, <1>5 DEF InOrder, StepsInOrder, HasIssued
<1>7. SeesAll(r)
  BY <1>5 DEF SeesAll
<1>8. TokensGrow /\ Tokens' = Tokens /\ Committed' = Committed /\ Live' = Live
  BY <1>2 DEF TokensGrow, Tokens, Live, Committed
<1>9. AccountRequestsInv' /\ crossed' = crossed
  BY <1>2, <1>5, <1>6, <1>7, <1>8, AccountReads
<1>10. /\ req'[s] = r /\ \A t \in Slots : t # s => req'[t] = req[t]
       /\ s \notin InFlight /\ r # None
  BY <1>2, <1>3, <1>5, SessionsAssumption DEF Reads, AccountRequestsInv, InFlight
<1>11. InFlight' = InFlight \cup {s} /\ \A t \in InFlight : req'[t] = req[t]
  BY <1>10 DEF InFlight
<1>12. \A e, t : Knows(e, t)' => Knows(e, t)
  <2>1. \A e, t : Knows(e, t)' => t # 0
    BY DEF Knows
  <2>2. \A e, t : e = d /\ t \in {r.sent, r.issued} /\ t # 0 => Knows(e, t)
    BY <1>5 DEF Knows
  <2>3. SUFFICES ASSUME NEW e, NEW t, Knows(e, t)', ~Knows(e, t) PROVE FALSE
    OBVIOUS
  <2>4. t # 0 /\ cookie'[e] # t /\ ~\E q \in replies' : q.to = e /\ q.token = t
    BY <1>2, <2>1, <2>3 DEF Knows
  <2>5. PICK u \in InFlight' : req'[u].device = e /\ t \in {req'[u].sent, req'[u].issued}
    BY <2>3, <2>4 DEF Knows
  <2>6. u = s
    BY <1>11, <2>3, <2>4, <2>5 DEF Knows
  <2>7. QED
    BY <1>5, <1>10, <2>2, <2>3, <2>4, <2>5, <2>6
<1>13. \A t : Good(t)' <=> Good(t)
  BY <1>2 DEF Good
<1>14. AccountTypes' /\ LinksInv' /\ ResetSignsOut'
  BY <1>2, <1>8, <1>9 DEF SessionsInv, AccountTypes, LinksInv, LinksWorkOnce, Usable, ResetSignsOut
<1>15. AllIssued'
  BY <1>2, <1>8, <1>11 DEF SessionsInv, AllIssued
<1>16. FamiliesApart'
  BY <1>2, <1>3, <1>8, <1>12, FamiliesStay DEF SessionsInv
<1>17. DevicesOrderly'
  <2>1. SUFFICES ASSUME NEW e \in Devices \ troubled' PROVE Orderly(e)'
    BY DEF DevicesOrderly
  <2>2. Orderly(e)
    BY <1>2, <2>1 DEF SessionsInv, DevicesOrderly
  <2>3. CASE e # d
    <3>1. \A t \in InFlight' : req'[t].device = e => t \in InFlight /\ req'[t] = req[t]
      BY <1>5, <1>10, <1>11, <2>3
    <3>2. QED
      BY <1>2, <1>13, <2>2, <3>1, OtherDevice
  <2>4. CASE e = d
    <3>1. ~Busy(d)
      BY <1>2, <2>1, <2>4
    <3>2. NoReply(d) /\ \A t \in InFlight : req[t].device # d
      BY <1>3, <3>1, OfAccount DEF Busy, NoReply, InFlight
    <3>3. NoReply(d)' /\ Good(cookie[d])'
      BY <1>2, <1>13, <2>2, <2>4, <3>2 DEF Orderly, NoReply, Good
    <3>4. \A t \in InFlight' : req'[t].device = d => t = s
      BY <1>11, <3>2
    <3>5. QED
      BY <1>2, <1>5, <1>10, <2>4, <3>3, <3>4 DEF Orderly, NoReply
  <2>5. QED
    BY <2>3, <2>4
<1>18. QED
  BY <1>9, <1>14, <1>15, <1>16, <1>17 DEF SessionsInv

(* A response arrives, or is lost. *)
LEMMA RepliesInv ==
    ASSUME SessionsInv, NEW r \in replies, Deliver(r) \/ Lose(r)
    PROVE  SessionsInv'
<1>1. /\ UNCHANGED requests /\ UNCHANGED <<tokens, links, signOuts, dismissed>>
      /\ replies' = replies \ {r} /\ troubled \subseteq troubled'
      /\ troubled' \subseteq troubled \cup {r.to}
      /\ cookie' = cookie \/ cookie' = [cookie EXCEPT ![r.to] = r.token]
  BY DEF Deliver, Lose, requests
<1>2. AccountTypes /\ AccountRequestsInv
  BY DEF SessionsInv
<1>3. r.to \in Devices /\ r.token \in {0} \cup Tokens
  BY <1>2 DEF AccountTypes
<1>4. AccountRequestsInv' /\ InFlight' = InFlight /\ crossed' = crossed /\ req' = req
  BY <1>1, <1>2, RequestsRest DEF requests
<1>5. Tokens' = Tokens /\ Committed' = Committed /\ Live' = Live
  BY <1>1 DEF Tokens, Live, Committed
<1>6. \A e \in Devices : cookie'[e] = cookie[e] \/ (e = r.to /\ cookie'[e] = r.token)
  BY <1>1, <1>2 DEF AccountTypes
<1>7. \A e \in Devices : \A t : Knows(e, t)' => Knows(e, t)
  BY <1>1, <1>4, <1>6 DEF Knows
<1>8. \A t : Good(t)' <=> Good(t)
  BY <1>1 DEF Good
<1>9. AccountTypes' /\ LinksInv' /\ ResetSignsOut' /\ AllIssued'
  <2>1. cookie' \in [Devices -> {0} \cup Tokens'] /\ replies' \subseteq [to : Devices, token : {0} \cup Tokens']
    BY <1>1, <1>2, <1>3, <1>5 DEF AccountTypes
  <2>2. QED
    BY <1>1, <1>3, <1>4, <1>5, <2>1
    DEF SessionsInv, AccountTypes, LinksInv, LinksWorkOnce, Usable, ResetSignsOut, AllIssued
<1>10. FamiliesApart'
  BY <1>1, <1>2, <1>5, <1>7, FamiliesStay DEF SessionsInv
<1>11. DevicesOrderly'
  <2>1. SUFFICES ASSUME NEW e \in Devices \ troubled' PROVE Orderly(e)'
    BY DEF DevicesOrderly
  <2>2. Orderly(e)
    BY <1>1, <2>1 DEF SessionsInv, DevicesOrderly
  <2>3. CASE e # r.to
    <3>1. \A q : q.to = e => (q \in replies' <=> q \in replies)
      BY <1>1, <2>3
    <3>2. cookie'[e] = cookie[e]
      BY <1>6, <2>3
    <3>3. QED
      BY <1>4, <1>8, <2>2, <3>1, <3>2, OtherDevice
  <2>4. CASE e = r.to
    <3>1. Deliver(r)
      BY <2>1, <2>4 DEF Lose
    <3>2. cookie'[e] = r.token
      BY <1>2, <1>3, <2>4, <3>1 DEF Deliver, AccountTypes
    <3>3. NoReply(e)' /\ ~NoReply(e)
      BY <1>1, <2>2, <2>4 DEF NoReply, Orderly
    <3>4. Good(cookie[e])'
      <4>1. Good(r.token)
        BY <2>2, <2>4 DEF Orderly
      <4>2. PICK t : t = r.token
        OBVIOUS
      <4>3. QED
        BY <1>8, <3>2, <4>1, <4>2 DEF Good
    <3>5. QED
      BY <1>4, <2>2, <2>4, <3>2, <3>3, <3>4 DEF Orderly, NoReply
  <2>5. QED
    BY <2>3, <2>4
<1>12. QED
  BY <1>4, <1>9, <1>10, <1>11 DEF SessionsInv

LEMMA SessionsRest ==
    ASSUME SessionsInv, UNCHANGED <<account, requests>>
    PROVE  SessionsInv'
<1>1. /\ UNCHANGED <<tokens, cookie, replies, links, signOuts, dismissed, troubled>>
      /\ UNCHANGED requests
  BY DEF account
<1>2. AccountRequestsInv' /\ InFlight' = InFlight /\ crossed' = crossed /\ req' = req
  BY <1>1, RequestsRest DEF SessionsInv, requests
<1>3. Tokens' = Tokens /\ Committed' = Committed /\ Live' = Live
  BY <1>1 DEF Tokens, Live, Committed
<1>4. \A e, t : Knows(e, t)' => Knows(e, t)
  BY <1>1, <1>2 DEF Knows
<1>5. AccountTypes' /\ LinksInv' /\ ResetSignsOut' /\ AllIssued'
  BY <1>1, <1>2, <1>3
  DEF SessionsInv, AccountTypes, LinksInv, LinksWorkOnce, Usable, ResetSignsOut, AllIssued
<1>6. FamiliesApart'
  BY <1>1, <1>3, <1>4, FamiliesStay DEF SessionsInv
<1>7. DevicesOrderly'
  BY <1>1, <1>2 DEF SessionsInv, DevicesOrderly, Orderly, NoReply, Good
<1>8. QED
  BY <1>2, <1>5, <1>6, <1>7 DEF SessionsInv

-----------------------------------------------------------------------------
(* Requests that are committed.                                            *)

(* What the other devices know is as good as before.                       *)
StaysGood(d) == \A e \in Devices : \A t : e # d /\ Knows(e, t) /\ Good(t) => Good(t)'

LEMMA CommitsInv ==
    ASSUME SessionsInv, NEW s \in InFlight, Commits(s), TokensChange,
           UNCHANGED <<cookie, replies, troubled>>,
           tokens' \in Seq(TokenRows), \A t \in Tokens : tokens'[t].era <= signOuts',
           Committed' \subseteq Committed \cup {req[s].issued},
           req[s].issued # 0 => req[s].issued \in Committed',
           links' \in Seq(LinkRows), signOuts' \in Nat, dismissed' \subseteq Tokens,
           LinksInv', ResetSignsOut', NEW d, d = req[s].device, StaysGood(d),
           NEW c, c = req[s].sent, NEW x, x = req[s].issued,
           \/ \A t \in Tokens : Good(t) => Good(t)'
           \/ req[s].step = "reused" /\ (Good(c) => Good(c)')
           \/ req[s].op = "refresh" /\ req[s].step = "answered" /\ Good(x)'
    PROVE  SessionsInv'
<1>1. /\ AccountRequestsInv' /\ crossed \subseteq crossed' /\ InFlight' = InFlight \ {s}
      /\ \A t \in InFlight' : req'[t] = req[t]
  BY AccountCommits
<1>2. AccountTypes /\ InOrder(req[s]) /\ d \in Devices
  BY IsSound DEF AccountRequests
<1>3. AccountTypes'
  BY <1>2 DEF AccountTypes, TokensChange
<1>4. AllIssued'
  <2>1. SUFFICES ASSUME NEW t \in Tokens' \ Committed' PROVE \E u \in InFlight' : req'[u].issued = t
    BY DEF AllIssued
  <2>2. t \in Tokens \ Committed
    BY <2>1 DEF TokensChange
  <2>3. PICK u \in InFlight : req[u].issued = t
    BY <2>2 DEF SessionsInv, AllIssued
  <2>4. t # 0
    BY <1>2, <2>2, TokenFacts
  <2>5. u # s
    BY <2>1, <2>3, <2>4
  <2>6. QED
    BY <1>1, <2>3, <2>5
<1>5. \A e, t : Knows(e, t)' => Knows(e, t)
  BY <1>1 DEF Knows
<1>6. FamiliesApart'
  BY <1>2, <1>5, FamiliesStay DEF SessionsInv, TokensChange
<1>7. DevicesOrderly'
  <2>1. SUFFICES ASSUME NEW e \in Devices \ troubled PROVE Orderly(e)'
    BY DEF DevicesOrderly
  <2>2. Orderly(e)
    BY DEF SessionsInv, DevicesOrderly
  <2>3. \A t : Knows(e, t) => t \in Tokens
    BY KnownAreTokens
  <2>4. CASE e # d \/ \A t \in Tokens : Good(t) => Good(t)'
    <3>1. \A t : Knows(e, t) /\ Good(t) => Good(t)'
      BY <2>3, <2>4 DEF StaysGood
    <3>2. QED
      BY <1>1, <2>2, <3>1, OtherDevice
  <2>5. ASSUME e = d, req[s].step = "reused", Good(c) => Good(c)'
        PROVE  Orderly(e)'
    <3>1. /\ \A t \in InFlight' : req'[t].device # d
          /\ cookie[d] = c /\ NoReply(d) /\ Good(cookie[d])
      BY <1>1, <2>2, <2>5 DEF Orderly
    <3>2. NoReply(d)' /\ Good(cookie[d])'
      BY <2>5, <3>1 DEF NoReply, Good
    <3>3. QED
      BY <2>2, <2>5, <3>1, <3>2 DEF Orderly, NoReply
  <2>6. ASSUME e = d, req[s].op = "refresh", req[s].step = "answered", Good(x)'
        PROVE  Orderly(e)'
    <3>1. /\ \A t \in InFlight' : req'[t].device # d
          /\ \A r \in replies : r.to = d => r.token = x
          /\ NoReply(d) => cookie[d] = x
      BY <1>1, <2>2, <2>6 DEF Orderly
    <3>2. NoReply(d)' <=> NoReply(d)
      BY DEF NoReply
    <3>3. \A t : t = x => Good(t)'
      BY <2>6 DEF Good
    <3>4. /\ \A r \in replies' : r.to = d => Good(r.token)'
          /\ NoReply(d)' => Good(cookie[d])'
      BY <3>1, <3>2, <3>3 DEF Good
    <3>5. QED
      BY <2>2, <2>6, <3>1, <3>4 DEF Orderly
  <2>7. QED
    BY <2>4, <2>5, <2>6
<1>8. QED
  BY <1>1, <1>3, <1>4, <1>6, <1>7 DEF SessionsInv

(* What is stored, and what is revoked. *)
Stores(issued, revoked) == tokens' = Stored(issued, revoked)

LEMMA StoredChange ==
    ASSUME AccountTypes, NEW issued, issued \notin Committed, NEW revoked,
           Stores(issued, revoked), revoked \subseteq Committed
    PROVE  /\ tokens' \in Seq(TokenRows) /\ Tokens' = Tokens
           /\ \A t \in Tokens : tokens'[t].family = tokens[t].family /\ tokens'[t].era = tokens[t].era
           /\ issued \notin Tokens => Committed' = Committed /\ Live' = Live \ revoked
           /\ issued \in Tokens => Committed' = Committed \cup {issued} /\ Live' = (Live \cup {issued}) \ revoked
           /\ \A t \in Tokens : tokens'[t].row = "revoked" <=> tokens[t].row = "revoked" \/ t \in revoked
<1>1. PICK S : S = Stored(issued, revoked)
  OBVIOUS
<1>2. /\ S \in Seq(TokenRows) /\ Len(S) = Len(tokens)
      /\ \A t \in Tokens :
            /\ S[t].family = tokens[t].family /\ S[t].era = tokens[t].era
            /\ S[t].row = IF t \in revoked THEN "revoked"
                          ELSE IF t = issued THEN "live" ELSE tokens[t].row
  BY <1>1, StoredFacts
<1>3. tokens' = S /\ Tokens' = Tokens
  BY <1>1, <1>2 DEF Stores, Tokens
<1>4. QED
  BY <1>2, <1>3 DEF Committed, Live

(* What a request that is committed holds, it has revoked or used.         *)
LEMMA HeldFacts ==
    ASSUME SessionsInv, NEW s \in InFlight
    PROVE  /\ RowsHeld(s) \subseteq Committed /\ LinksHeld(s) \subseteq 1..Len(links)
           /\ Rows(Live) \subseteq req[s].holds => Live \subseteq RowsHeld(s)
           /\ Links(Usable) \subseteq req[s].holds => Usable \subseteq LinksHeld(s)
           /\ req[s].holds \subseteq Rows(Committed) \cup Links(Usable) => LinksHeld(s) \subseteq Usable
<1>1. /\ req[s].holds \subseteq Rows(Committed) \cup Links(1..Len(links)) /\ AccountTypes
  BY IsSound DEF InOrder
<1>2. /\ Live \subseteq Tokens /\ Usable \subseteq 1..Len(links)
  BY DEF Live, Usable
<1>3. QED
  BY <1>1, <1>2, RowFacts DEF RowsHeld, LinksHeld

LEMMA SignInCommitInv ==
    ASSUME SessionsInv, NEW s \in InFlight, SignInCommit(s)
    PROVE  SessionsInv'
<1>1. PICK d, x, R : d = req[s].device /\ x = req[s].issued /\ R = {}
  OBVIOUS
<1>2. /\ Commits(s) /\ Stores(x, R)
      /\ UNCHANGED <<cookie, replies, links, signOuts, dismissed, troubled>>
      /\ req[s].op = "sign in" /\ req[s].step = "answered"
  BY <1>1 DEF SignInCommit, Is, Stores
<1>3. /\ InOrder(req[s]) /\ AccountTypes /\ (Unraced(s) => SeesAll(req[s]))
  BY IsSound
<1>4. x # 0 /\ x \in Tokens /\ x \notin Committed /\ R \subseteq Committed
  BY <1>1, <1>2, <1>3 DEF InOrder, HasIssued
<1>5. /\ tokens' \in Seq(TokenRows) /\ Tokens' = Tokens
      /\ \A t \in Tokens : tokens'[t].family = tokens[t].family /\ tokens'[t].era = tokens[t].era
      /\ Committed' = Committed \cup {x} /\ Live' = (Live \cup {x}) \ R
      /\ \A t \in Tokens : tokens'[t].row = "revoked" <=> tokens[t].row = "revoked" \/ t \in R
  BY <1>2, <1>3, <1>4, StoredChange
<1>6. TokensChange
  <2>1. Len(links) \in Nat /\ links' = links
    BY <1>2, <1>3, LinkFacts
  <2>2. QED
    BY <1>5, <2>1 DEF TokensChange
<1>7. crossed \subseteq crossed' /\ (s \in raced => "sign in" \in crossed')
  BY <1>1, <1>2, <1>5, <1>6, AccountCommits
<1>8. LinksInv'
  BY <1>2, <1>7 DEF SessionsInv, LinksInv, LinksWorkOnce, Usable
<1>9. ResetSignsOut'
  <2>1. Unraced(s) => tokens[x].era = signOuts
    BY <1>1, <1>3, <1>4 DEF SeesAll
  <2>2. Live \subseteq Tokens
    BY DEF Live
  <2>3. QED
    BY <1>2, <1>4, <1>5, <1>7, <2>1, <2>2 DEF SessionsInv, ResetSignsOut, Unraced
<1>10. \A t \in Tokens : Good(t) => Good(t)'
  BY <1>1, <1>2, <1>5 DEF Good
<1>11. StaysGood(d)
  BY <1>10, KnownAreTokens DEF StaysGood
<1>12. /\ \A t \in Tokens : tokens'[t].era <= signOuts'
       /\ links' \in Seq(LinkRows) /\ signOuts' \in Nat /\ dismissed' \subseteq Tokens
  BY <1>2, <1>3, <1>5 DEF AccountTypes
<1>13. QED
  BY <1>1, <1>2, <1>5, <1>6, <1>8, <1>9, <1>10, <1>11, <1>12, CommitsInv

LEMMA SignOutCommitInv ==
    ASSUME SessionsInv, NEW s \in InFlight, SignOutCommit(s)
    PROVE  SessionsInv'
<1>1. PICK d, R : d = req[s].device /\ R = RowsHeld(s)
  OBVIOUS
<1>2. /\ Commits(s) /\ Stores(0, R) /\ dismissed' = dismissed \cup R
      /\ signOuts' = IF req[s].op = "logout all" THEN signOuts + 1 ELSE signOuts
      /\ UNCHANGED <<cookie, replies, links, troubled>>
      /\ req[s].op \in {"logout", "logout all"} /\ req[s].step = "answered"
  BY <1>1 DEF SignOutCommit, SignsOut, Is, Stores
<1>3. /\ InOrder(req[s]) /\ AccountTypes /\ (Unraced(s) => SeesAll(req[s]))
  BY IsSound
<1>4. req[s].issued = 0 /\ 0 \notin Tokens /\ R \subseteq Committed /\ Committed \subseteq Tokens
  BY <1>1, <1>2, <1>3, TokenFacts, HeldFacts DEF InOrder, HasIssued, Committed
<1>5. /\ tokens' \in Seq(TokenRows) /\ Tokens' = Tokens
      /\ \A t \in Tokens : tokens'[t].family = tokens[t].family /\ tokens'[t].era = tokens[t].era
      /\ Committed' = Committed /\ Live' = Live \ R
      /\ \A t \in Tokens : tokens'[t].row = "revoked" <=> tokens[t].row = "revoked" \/ t \in R
  BY <1>2, <1>3, <1>4, StoredChange
<1>6. TokensChange
  <2>1. Len(links) \in Nat /\ links' = links
    BY <1>2, <1>3, LinkFacts
  <2>2. QED
    BY <1>5, <2>1 DEF TokensChange
<1>7. crossed \subseteq crossed' /\ (s \in raced => req[s].op \in crossed')
  BY <1>1, <1>2, <1>5, <1>6, AccountCommits
<1>8. LinksInv'
  BY <1>2, <1>7 DEF SessionsInv, LinksInv, LinksWorkOnce, Usable
<1>9. Live \subseteq Tokens /\ signOuts \in Nat /\ signOuts' \in Nat /\ signOuts <= signOuts'
  <2>1. Live \subseteq Tokens /\ signOuts \in Nat
    BY <1>3 DEF Live, AccountTypes
  <2>2. signOuts' = signOuts \/ signOuts' = signOuts + 1
    BY <1>2, Zenon
  <2>3. QED
    BY <2>1, <2>2
<1>10. ResetSignsOut'
  <2>1. CASE req[s].op = "logout"
    BY <1>2, <1>5, <1>7, <1>9, <2>1 DEF SessionsInv, ResetSignsOut
  <2>2. CASE req[s].op = "logout all" /\ Unraced(s)
    <3>1. Live \subseteq R
      BY <1>1, <1>2, <1>3, <2>2, HeldFacts DEF SeesAll
    <3>2. QED
      BY <1>5, <3>1 DEF ResetSignsOut
  <2>3. CASE req[s].op = "logout all" /\ ~Unraced(s)
    BY <1>7, <2>3 DEF ResetSignsOut, Unraced
  <2>4. QED
    BY <1>2, <2>1, <2>2, <2>3
<1>11. \A t \in Tokens : Good(t) => Good(t)'
  BY <1>2, <1>5 DEF Good
<1>12. StaysGood(d)
  BY <1>11, KnownAreTokens DEF StaysGood
<1>13. /\ \A t \in Tokens : tokens'[t].era <= signOuts'
       /\ links' \in Seq(LinkRows) /\ dismissed' \subseteq Tokens
  <2>1. \A t \in Tokens : tokens'[t].era \in Nat /\ tokens'[t].era <= signOuts
    BY <1>3, <1>5, TokenFacts DEF AccountTypes
  <2>2. \A t \in Tokens : tokens'[t].era <= signOuts'
    BY <1>9, <2>1
  <2>3. QED
    BY <1>2, <1>3, <1>4, <2>2 DEF AccountTypes
<1>14. QED
  BY <1>1, <1>2, <1>4, <1>5, <1>6, <1>8, <1>9, <1>10, <1>11, <1>12, <1>13, CommitsInv

LEMMA RefreshReusedInv ==
    ASSUME SessionsInv, NEW s \in InFlight, RefreshReused(s)
    PROVE  SessionsInv'
<1>1. PICK d, c, R : d = req[s].device /\ c = req[s].sent /\ R = {t \in Live : <<"refresh_sessions", t>> \in req[s].seen}
  OBVIOUS
<1>2. /\ Commits(s) /\ Stores(0, R)
      /\ UNCHANGED <<cookie, replies, links, signOuts, dismissed, troubled>>
      /\ req[s].op = "refresh" /\ req[s].step = "reused"
  BY <1>1 DEF RefreshReused, Is, Stores
<1>3. /\ InOrder(req[s]) /\ AccountTypes /\ d \in Devices
  BY <1>1, IsSound DEF AccountRequests
<1>4. /\ req[s].issued = 0 /\ 0 \notin Tokens /\ R \subseteq Committed /\ Committed \subseteq Tokens
  BY <1>1, <1>2, <1>3, TokenFacts, LiveAreCommitted DEF InOrder, HasIssued
<1>5. /\ tokens' \in Seq(TokenRows) /\ Tokens' = Tokens
      /\ \A t \in Tokens : tokens'[t].family = tokens[t].family /\ tokens'[t].era = tokens[t].era
      /\ Committed' = Committed /\ Live' = Live \ R
      /\ \A t \in Tokens : tokens'[t].row = "revoked" <=> tokens[t].row = "revoked" \/ t \in R
  BY <1>2, <1>3, <1>4, StoredChange
<1>6. TokensChange
  <2>1. Len(links) \in Nat /\ links' = links
    BY <1>2, <1>3, LinkFacts
  <2>2. QED
    BY <1>5, <2>1 DEF TokensChange
<1>7. crossed \subseteq crossed'
  BY <1>1, <1>2, <1>5, <1>6, AccountCommits
<1>8. LinksInv'
  BY <1>2, <1>7 DEF SessionsInv, LinksInv, LinksWorkOnce, Usable
<1>9. ResetSignsOut'
  <2>1. Live \subseteq Tokens
    BY DEF Live
  <2>2. QED
    BY <1>2, <1>5, <1>7, <2>1 DEF SessionsInv, ResetSignsOut
<1>10. req[s].sent \in Tokens /\ tokens[req[s].sent].row = "revoked" /\ Knows(d, req[s].sent)
  BY <1>1, <1>2, <1>3, <1>4 DEF InOrder, Knows
<1>11. \A t \in R : tokens[t].family = tokens[req[s].sent].family
  BY <1>1, <1>2, <1>3, RowFacts DEF InOrder
<1>12. StaysGood(d)
  <2>1. SUFFICES ASSUME NEW e \in Devices, NEW t, e # d, Knows(e, t), Good(t) PROVE Good(t)'
    BY DEF StaysGood
  <2>2. t \in Tokens
    BY <2>1, KnownAreTokens
  <2>3. t \notin R
    BY <1>3, <1>10, <1>11, <2>1, <2>2 DEF SessionsInv, FamiliesApart
  <2>4. QED
    BY <1>2, <1>5, <2>1, <2>2, <2>3 DEF Good
<1>13. Good(c) => Good(c)'
  <2>1. c \in Tokens /\ tokens[c].row = "revoked" /\ c # 0
    BY <1>1, <1>4, <1>10
  <2>2. Good(c) => c \in dismissed
    BY <2>1 DEF Good
  <2>3. QED
    BY <1>2, <2>2 DEF Good
<1>14. /\ \A t \in Tokens : tokens'[t].era <= signOuts'
       /\ links' \in Seq(LinkRows) /\ signOuts' \in Nat /\ dismissed' \subseteq Tokens
  BY <1>2, <1>3, <1>5 DEF AccountTypes
<1>15. QED
  BY <1>1, <1>2, <1>4, <1>5, <1>6, <1>8, <1>9, <1>12, <1>13, <1>14, CommitsInv

LEMMA RefreshCommitInv ==
    ASSUME SessionsInv, NEW s \in InFlight, RefreshCommit(s)
    PROVE  SessionsInv'
<1>1. PICK d, c, x, R : d = req[s].device /\ c = req[s].sent /\ x = req[s].issued /\ R = {c}
  OBVIOUS
<1>2. /\ Commits(s) /\ Stores(x, R)
      /\ UNCHANGED <<cookie, replies, links, signOuts, dismissed, troubled>>
      /\ req[s].op = "refresh" /\ req[s].step = "answered"
  BY <1>1 DEF RefreshCommit, Is, Stores
<1>3. /\ InOrder(req[s]) /\ AccountTypes /\ (Unraced(s) => SeesAll(req[s])) /\ d \in Devices
  BY <1>1, IsSound DEF AccountRequests
<1>4. /\ x # 0 /\ x \in Tokens /\ x \notin Committed /\ c \in Committed /\ R \subseteq Committed
      /\ c \in Tokens /\ c # 0
  BY <1>1, <1>2, <1>3 DEF InOrder, HasIssued, Committed
<1>5. /\ tokens' \in Seq(TokenRows) /\ Tokens' = Tokens
      /\ \A t \in Tokens : tokens'[t].family = tokens[t].family /\ tokens'[t].era = tokens[t].era
      /\ Committed' = Committed \cup {x} /\ Live' = (Live \cup {x}) \ R
      /\ \A t \in Tokens : tokens'[t].row = "revoked" <=> tokens[t].row = "revoked" \/ t \in R
  BY <1>2, <1>3, <1>4, StoredChange
<1>6. TokensChange
  <2>1. Len(links) \in Nat /\ links' = links
    BY <1>2, <1>3, LinkFacts
  <2>2. QED
    BY <1>5, <2>1 DEF TokensChange
<1>7. crossed \subseteq crossed' /\ (s \in raced => "refresh" \in crossed')
  BY <1>1, <1>2, <1>5, <1>6, AccountCommits
<1>8. LinksInv'
  BY <1>2, <1>7 DEF SessionsInv, LinksInv, LinksWorkOnce, Usable
<1>9. ResetSignsOut'
  <2>1. Unraced(s) => tokens[x].era = signOuts
    BY <1>1, <1>3, <1>4 DEF SeesAll
  <2>2. Live \subseteq Tokens
    BY DEF Live
  <2>3. QED
    BY <1>2, <1>4, <1>5, <1>7, <2>1, <2>2 DEF SessionsInv, ResetSignsOut, Unraced
<1>10. Knows(d, c)
  BY <1>1, <1>4 DEF Knows
<1>11. StaysGood(d)
  <2>1. SUFFICES ASSUME NEW e \in Devices, NEW t, e # d, Knows(e, t), Good(t) PROVE Good(t)'
    BY DEF StaysGood
  <2>2. t \in Tokens
    BY <2>1, KnownAreTokens
  <2>3. t # c
    BY <1>3, <1>4, <1>10, <2>1, <2>2 DEF SessionsInv, FamiliesApart
  <2>4. QED
    BY <1>1, <1>2, <1>5, <2>1, <2>2, <2>3 DEF Good
<1>12. Good(x)'
  BY <1>1, <1>4, <1>5 DEF Good, Committed
<1>13. /\ \A t \in Tokens : tokens'[t].era <= signOuts'
       /\ links' \in Seq(LinkRows) /\ signOuts' \in Nat /\ dismissed' \subseteq Tokens
  BY <1>2, <1>3, <1>5 DEF AccountTypes
<1>14. QED
  BY <1>1, <1>2, <1>4, <1>5, <1>6, <1>8, <1>9, <1>11, <1>12, <1>13, CommitsInv

(* The links of an account, as one more is sent or one is used. *)
LEMMA LinkIsSent ==
    ASSUME AccountTypes, NEW I,
           links' = Append([i \in 1..Len(links) |-> [links[i] EXCEPT !.used = @ \/ i \in I]],
                           [used |-> FALSE, opened |-> 0])
    PROVE  /\ links' \in Seq(LinkRows) /\ Len(links') = Len(links) + 1
           /\ \A i \in 1..Len(links) : /\ links'[i].opened = links[i].opened
                                       /\ links'[i].used <=> links[i].used \/ i \in I
           /\ ~links'[Len(links')].used /\ links'[Len(links')].opened = 0
<1>1. PICK L : L = [i \in 1..Len(links) |-> [links[i] EXCEPT !.used = @ \/ i \in I]]
  OBVIOUS
<1>2. PICK new : new = [used |-> FALSE, opened |-> 0]
  OBVIOUS
<1>3. links' = Append(L, new) /\ new \in LinkRows /\ ~new.used /\ new.opened = 0
  BY <1>1, <1>2 DEF LinkRows
<1>4. Len(links) \in Nat /\ \A i \in 1..Len(links) : links[i] \in LinkRows
  BY LinkFacts
<1>5. \A i \in 1..Len(links) : /\ L[i] \in LinkRows /\ L[i].opened = links[i].opened
                               /\ L[i].used <=> links[i].used \/ i \in I
  <2>1. SUFFICES ASSUME NEW i \in 1..Len(links)
                 PROVE  /\ L[i] \in LinkRows /\ L[i].opened = links[i].opened
                        /\ L[i].used <=> links[i].used \/ i \in I
    OBVIOUS
  <2>2. PICK b \in BOOLEAN : b = (links[i].used \/ i \in I)
    OBVIOUS
  <2>3. L[i] = [links[i] EXCEPT !.used = b] /\ links[i] \in LinkRows
    BY <1>1, <1>4, <2>2
  <2>4. L[i] \in LinkRows /\ L[i].opened = links[i].opened /\ L[i].used = b
    BY <2>3 DEF LinkRows
  <2>5. QED
    BY <2>2, <2>4
<1>6. L \in Seq(LinkRows) /\ Len(L) = Len(links)
  <2>1. L \in [1..Len(links) -> LinkRows]
    BY <1>1, <1>5
  <2>2. L \in Seq(LinkRows)
    BY <1>4, <2>1, SeqDef
  <2>3. QED
    BY <1>4, <2>1, <2>2, LenProperties
<1>7. /\ links' \in Seq(LinkRows) /\ Len(links') = Len(links) + 1
      /\ \A i \in 1..Len(links) : links'[i] = L[i]
      /\ links'[Len(links) + 1] = new
  BY <1>3, <1>4, <1>6, AppendProperties
<1>8. QED
  BY <1>3, <1>5, <1>7

LEMMA ForgetCommitInv ==
    ASSUME SessionsInv, NEW s \in InFlight, ForgetCommit(s)
    PROVE  SessionsInv'
<1>1. PICK d, I : d = req[s].device /\ I = LinksHeld(s)
  OBVIOUS
<1>2. /\ Commits(s)
      /\ UNCHANGED <<tokens, cookie, replies, signOuts, dismissed, troubled>>
      /\ req[s].op = "forgot" /\ req[s].step = "answered"
  BY DEF ForgetCommit, Is
<1>3. /\ InOrder(req[s]) /\ AccountTypes /\ (Unraced(s) => SeesAll(req[s]))
  BY IsSound
<1>4. req[s].issued = 0
  BY <1>2, <1>3 DEF InOrder, HasIssued
<1>5. /\ links' \in Seq(LinkRows) /\ Len(links') = Len(links) + 1
      /\ \A i \in 1..Len(links) : /\ links'[i].opened = links[i].opened
                                  /\ links'[i].used <=> links[i].used \/ i \in I
      /\ ~links'[Len(links')].used /\ links'[Len(links')].opened = 0
  <2>1. links' = Append([i \in 1..Len(links) |-> [links[i] EXCEPT !.used = @ \/ i \in I]],
                        [used |-> FALSE, opened |-> 0])
    BY <1>1 DEF ForgetCommit
  <2>2. QED
    BY <1>3, <2>1, LinkIsSent
<1>6. Len(links) \in Nat /\ \A i \in 1..Len(links) : links[i].opened \in Nat
  BY <1>3, LinkFacts
<1>7. Tokens' = Tokens /\ Committed' = Committed /\ Live' = Live /\ TokensChange
  BY <1>2, <1>5, <1>6 DEF TokensChange, Tokens, Committed, Live
<1>8. crossed \subseteq crossed' /\ (s \in raced => "forgot" \in crossed')
  BY <1>1, <1>2, <1>7, AccountCommits
<1>9. \A i \in 1..Len(links') : i \in 1..Len(links) \/ i = Len(links')
  BY <1>5, <1>6
<1>10. LinksInv'
  <2>1. (\A i \in 1..Len(links') : links'[i].opened <= 1) \/ "reset" \in crossed'
    BY <1>5, <1>8, <1>9 DEF SessionsInv, LinksInv, LinksWorkOnce
  <2>2. \A i \in 1..Len(links') : ~links'[i].used => links'[i].opened = 0
    BY <1>5, <1>9 DEF SessionsInv, LinksInv
  <2>3. Usable' \subseteq {Len(links')} \/ "forgot" \in crossed'
    <3>1. Unraced(s) => Usable \subseteq I
      BY <1>1, <1>2, <1>3, HeldFacts DEF SeesAll
    <3>2. QED
      BY <1>5, <1>8, <1>9, <3>1 DEF Usable, Unraced
  <2>4. QED
    BY <2>1, <2>2, <2>3 DEF LinksInv, LinksWorkOnce
<1>11. ResetSignsOut'
  BY <1>2, <1>7, <1>8 DEF SessionsInv, ResetSignsOut
<1>12. /\ \A t \in Tokens : Good(t) => Good(t)'
       /\ StaysGood(d)
  BY <1>2 DEF Good, StaysGood
<1>13. /\ \A t \in Tokens : tokens'[t].era <= signOuts' /\ tokens' \in Seq(TokenRows)
       /\ signOuts' \in Nat /\ dismissed' \subseteq Tokens /\ tokens' \in Seq(TokenRows)
  BY <1>2, <1>3 DEF AccountTypes
<1>14. QED
  BY <1>1, <1>2, <1>4, <1>5, <1>7, <1>10, <1>11, <1>12, <1>13, CommitsInv

LEMMA LinkIsUsed ==
    ASSUME AccountTypes, NEW s, NEW I, I = LinksHeld(s), links' = Consumed(s)
    PROVE  /\ links' \in Seq(LinkRows) /\ Len(links') = Len(links)
           /\ \A i \in 1..Len(links) :
                IF i \in I THEN links'[i].used /\ links'[i].opened = links[i].opened + 1
                           ELSE links'[i] = links[i]
<1>1. Len(links) \in Nat /\ \A i \in 1..Len(links) : links[i] \in LinkRows /\ links[i].opened \in Nat
  BY LinkFacts
<1>2. PICK L : L = Consumed(s)
  OBVIOUS
<1>3. /\ DOMAIN L = 1..Len(links)
      /\ L = [i \in 1..Len(links) |-> L[i]]
      /\ \A i \in 1..Len(links) : IF i \in I THEN L[i] = [used |-> TRUE, opened |-> links[i].opened + 1]
                                             ELSE L[i] = links[i]
  BY <1>2 DEF Consumed
<1>4. \A i \in 1..Len(links) :
         /\ L[i] \in LinkRows
         /\ IF i \in I THEN L[i].used /\ L[i].opened = links[i].opened + 1 ELSE L[i] = links[i]
  <2>1. SUFFICES ASSUME NEW i \in 1..Len(links)
                 PROVE  /\ L[i] \in LinkRows
                        /\ IF i \in I THEN L[i].used /\ L[i].opened = links[i].opened + 1
                                      ELSE L[i] = links[i]
    OBVIOUS
  <2>2. CASE i \in I
    <3>1. PICK n \in Nat : n = links[i].opened + 1
      BY <1>1
    <3>2. L[i] = [used |-> TRUE, opened |-> n]
      BY <1>3, <2>2, <3>1
    <3>3. QED
      BY <2>2, <3>1, <3>2 DEF LinkRows
  <2>3. CASE i \notin I
    BY <1>1, <1>3, <2>3
  <2>4. QED
    BY <2>2, <2>3
<1>5. L \in [1..Len(links) -> LinkRows]
  BY <1>3, <1>4
<1>6. L \in Seq(LinkRows) /\ Len(L) = Len(links)
  <2>1. L \in Seq(LinkRows)
    BY <1>1, <1>5, SeqDef
  <2>2. QED
    BY <1>1, <1>5, <2>1, LenProperties
<1>7. QED
  BY <1>2, <1>4, <1>6

LEMMA StoredAfterReset ==
    ASSUME AccountTypes, NEW issued \in Tokens, issued \notin Committed,
           NEW revoked, revoked \subseteq Committed, NEW n \in Nat,
           tokens' = [Stored(issued, revoked) EXCEPT ![issued].era = n]
    PROVE  /\ tokens' \in Seq(TokenRows) /\ Tokens' = Tokens
           /\ \A t \in Tokens : tokens'[t].family = tokens[t].family
           /\ \A t \in Tokens \ {issued} : tokens'[t].era = tokens[t].era
           /\ tokens'[issued].era = n
           /\ Committed' = Committed \cup {issued} /\ Live' = (Live \cup {issued}) \ revoked
           /\ \A t \in Tokens : tokens'[t].row = "revoked" <=> tokens[t].row = "revoked" \/ t \in revoked
<1>1. PICK S : S = Stored(issued, revoked)
  OBVIOUS
<1>2. /\ S \in Seq(TokenRows) /\ Len(S) = Len(tokens) /\ DOMAIN S = Tokens
      /\ \A t \in Tokens :
            /\ S[t] \in TokenRows /\ S[t].family = tokens[t].family /\ S[t].era = tokens[t].era
            /\ S[t].row = IF t \in revoked THEN "revoked"
                          ELSE IF t = issued THEN "live" ELSE tokens[t].row
  BY <1>1, StoredFacts
<1>3. PICK row : row = [S[issued] EXCEPT !.era = n]
  OBVIOUS
<1>4. row \in TokenRows /\ row.family = S[issued].family /\ row.row = S[issued].row /\ row.era = n
  BY <1>2, <1>3 DEF TokenRows
<1>5. PICK U : U = [S EXCEPT ![issued] = row]
  OBVIOUS
<1>6. tokens' = U
  BY <1>1, <1>3, <1>5
<1>7. /\ U \in Seq(TokenRows) /\ Len(U) = Len(tokens)
      /\ U[issued] = row /\ \A t \in Tokens \ {issued} : U[t] = S[t]
  <2>1. Len(tokens) \in Nat /\ Tokens = 1..Len(tokens)
    BY TokenFacts
  <2>2. /\ U \in [1..Len(tokens) -> TokenRows]
        /\ U[issued] = row /\ \A t \in Tokens \ {issued} : U[t] = S[t]
    <3>1. S \in [1..Len(tokens) -> TokenRows]
      BY <1>2, <2>1, LenProperties
    <3>2. QED
      BY <1>4, <1>5, <2>1, <3>1
  <2>3. U \in Seq(TokenRows)
    BY <2>1, <2>2, SeqDef
  <2>4. QED
    BY <2>1, <2>2, <2>3, LenProperties
<1>8. Tokens' = Tokens
  BY <1>6, <1>7 DEF Tokens
<1>9. \A t \in Tokens : /\ U[t].family = tokens[t].family
                        /\ U[t].row = IF t \in revoked THEN "revoked"
                                      ELSE IF t = issued THEN "live" ELSE tokens[t].row
  BY <1>2, <1>4, <1>7
<1>10. /\ \A t \in Tokens \ {issued} : U[t].era = tokens[t].era
       /\ U[issued].era = n
  BY <1>2, <1>4, <1>7
<1>11. /\ Committed' = Committed \cup {issued} /\ Live' = (Live \cup {issued}) \ revoked
       /\ \A t \in Tokens : tokens'[t].row = "revoked" <=> tokens[t].row = "revoked" \/ t \in revoked
  <2>1. \A t \in Tokens : tokens'[t].row = IF t \in revoked THEN "revoked"
                                           ELSE IF t = issued THEN "live" ELSE tokens[t].row
    BY <1>6, <1>9
  <2>2. Committed' = Committed \cup {issued}
    BY <1>8, <2>1 DEF Committed
  <2>3. Live' = (Live \cup {issued}) \ revoked
    BY <1>8, <2>1 DEF Live
  <2>4. \A t \in Tokens : tokens[t].row = "revoked" \/ t \in revoked => tokens'[t].row = "revoked"
    BY <2>1 DEF Committed
  <2>5. \A t \in Tokens : tokens'[t].row = "revoked" => tokens[t].row = "revoked" \/ t \in revoked
    BY <2>1
  <2>6. QED
    BY <2>2, <2>3, <2>4, <2>5
<1>12. QED
  BY <1>6, <1>7, <1>8, <1>9, <1>10, <1>11

LEMMA ResetCommitInv ==
    ASSUME SessionsInv, NEW s \in InFlight, ResetCommit(s)
    PROVE  SessionsInv'
<1>1. PICK d, x, R, I, n : /\ d = req[s].device /\ x = req[s].issued /\ R = RowsHeld(s)
                           /\ I = LinksHeld(s) /\ n = signOuts + 1
  OBVIOUS
<1>2. /\ Commits(s) /\ dismissed' = dismissed \cup R /\ signOuts' = n
      /\ UNCHANGED <<cookie, replies, troubled>>
      /\ req[s].op = "reset" /\ req[s].step = "answered"
  BY <1>1 DEF ResetCommit, Revoked, Is
<1>3. /\ InOrder(req[s]) /\ AccountTypes /\ (Unraced(s) => SeesAll(req[s]))
  BY IsSound
<1>4. /\ x # 0 /\ x \in Tokens /\ x \notin Committed /\ R \subseteq Committed
      /\ Committed \subseteq Tokens
  BY <1>1, <1>2, <1>3, HeldFacts DEF InOrder, HasIssued, Committed
<1>5. n \in Nat /\ signOuts \in Nat /\ n = signOuts + 1
  BY <1>1, <1>3 DEF AccountTypes
<1>6. /\ tokens' \in Seq(TokenRows) /\ Tokens' = Tokens
      /\ \A t \in Tokens : tokens'[t].family = tokens[t].family
      /\ \A t \in Tokens \ {x} : tokens'[t].era = tokens[t].era
      /\ tokens'[x].era = n
      /\ Committed' = Committed \cup {x} /\ Live' = (Live \cup {x}) \ R
      /\ \A t \in Tokens : tokens'[t].row = "revoked" <=> tokens[t].row = "revoked" \/ t \in R
  <2>1. tokens' = [Stored(x, R) EXCEPT ![x].era = n]
    BY <1>1 DEF ResetCommit, Revoked
  <2>2. QED
    BY <1>3, <1>4, <1>5, <2>1, StoredAfterReset
<1>7. /\ links' \in Seq(LinkRows) /\ Len(links') = Len(links)
      /\ \A i \in 1..Len(links) :
           IF i \in I THEN links'[i].used /\ links'[i].opened = links[i].opened + 1
                      ELSE links'[i] = links[i]
  <2>1. links' = Consumed(s)
    BY DEF ResetCommit
  <2>2. QED
    BY <1>1, <1>3, <2>1, LinkIsUsed
<1>8. TokensChange
  <2>1. Len(links) \in Nat
    BY <1>3, LinkFacts
  <2>2. QED
    BY <1>6, <1>7, <2>1 DEF TokensChange
<1>9. crossed \subseteq crossed' /\ (s \in raced => "reset" \in crossed')
  BY <1>1, <1>2, <1>6, <1>8, AccountCommits
<1>10. LinksInv'
  <2>1. \A i \in 1..Len(links) : links[i].opened \in Nat
    BY <1>3, LinkFacts
  <2>2. Usable' \subseteq Usable
    BY <1>7 DEF Usable
  <2>3. Usable' \subseteq {Len(links')} \/ "forgot" \in crossed'
    BY <1>7, <1>9, <2>2 DEF SessionsInv, LinksInv, LinksWorkOnce
  <2>4. \A i \in 1..Len(links') : ~links'[i].used => links'[i].opened = 0
    BY <1>7 DEF SessionsInv, LinksInv
  <2>5. (\A i \in 1..Len(links') : links'[i].opened <= 1) \/ "reset" \in crossed'
    <3>1. CASE s \in raced
      BY <1>9, <3>1
    <3>2. CASE s \notin raced
      <4>1. I \subseteq Usable
        BY <1>1, <1>2, <1>3, <3>2, HeldFacts DEF SeesAll, Unraced
      <4>2. \A i \in I : links[i].opened = 0
        BY <4>1 DEF SessionsInv, LinksInv, Usable
      <4>3. CASE "reset" \in crossed
        BY <1>9, <4>3
      <4>4. CASE \A i \in 1..Len(links) : links[i].opened <= 1
        <5>1. ASSUME NEW i \in 1..Len(links') PROVE links'[i].opened <= 1
          <6>1. CASE i \in I
            BY <1>7, <4>2, <5>1, <6>1
          <6>2. CASE i \notin I
            BY <1>7, <4>4, <5>1, <6>2
          <6>3. QED
            BY <6>1, <6>2
        <5>2. QED
          BY <5>1
      <4>5. QED
        BY <4>3, <4>4 DEF SessionsInv, LinksInv, LinksWorkOnce
    <3>3. QED
      BY <3>1, <3>2
  <2>6. QED
    BY <2>3, <2>4, <2>5 DEF LinksInv, LinksWorkOnce
<1>11. ResetSignsOut'
  <2>1. Unraced(s) => Live \subseteq R
    BY <1>1, <1>2, <1>3, HeldFacts DEF SeesAll
  <2>2. Unraced(s) => Live' \subseteq {x}
    BY <1>6, <2>1
  <2>3. QED
    BY <1>2, <1>6, <1>9, <2>2 DEF ResetSignsOut, Unraced
<1>12. \A t \in Tokens : Good(t) => Good(t)'
  BY <1>2, <1>6 DEF Good
<1>13. StaysGood(d)
  BY <1>12, KnownAreTokens DEF StaysGood
<1>14. \A t \in Tokens : tokens'[t].era <= signOuts'
  <2>1. SUFFICES ASSUME NEW t \in Tokens PROVE tokens'[t].era <= n
    BY <1>2
  <2>2. CASE t = x
    BY <1>5, <1>6, <2>2
  <2>3. CASE t # x
    <3>1. tokens'[t].era = tokens[t].era /\ tokens[t].era \in Nat /\ tokens[t].era <= signOuts
      BY <1>3, <1>6, <2>3, TokenFacts DEF AccountTypes
    <3>2. QED
      BY <1>5, <3>1
  <2>4. QED
    BY <2>2, <2>3
<1>15. links' \in Seq(LinkRows) /\ signOuts' \in Nat /\ dismissed' \subseteq Tokens
  BY <1>2, <1>3, <1>4, <1>5, <1>7 DEF AccountTypes
<1>16. QED
  BY <1>1, <1>2, <1>6, <1>8, <1>10, <1>11, <1>12, <1>13, <1>14, <1>15, CommitsInv

-----------------------------------------------------------------------------
LEMMA SessionsInitInv ==
    ASSUME SessionsInit
    PROVE  SessionsInv
<1>1. PICK N : N = Cardinality(Devices)
  OBVIOUS
<1>2. N \in Nat
  BY <1>1, SessionsAssumption, FS_CardinalityType
<1>3. /\ cookie \in [Devices -> 1..N]
      /\ \A d, e \in Devices : d # e => cookie[d] # cookie[e]
      /\ tokens = [t \in 1..N |-> [family |-> t, row |-> "live", era |-> 0]]
      /\ replies = {} /\ links \in {<< >>, <<[used |-> FALSE, opened |-> 0]>>}
      /\ signOuts = 0 /\ dismissed = {} /\ troubled = {}
      /\ req = [s \in Slots |-> None] /\ raced = {} /\ crossed = {}
  BY <1>1 DEF SessionsInit, RequestsInit
<1>4. \A t \in 1..N : tokens[t].family = t /\ tokens[t].row = "live" /\ tokens[t].era = 0
  BY <1>3
<1>5. tokens \in Seq(TokenRows) /\ Len(tokens) = N /\ Tokens = 1..N
  <2>1. \A t \in 1..N : [family |-> t, row |-> "live", era |-> 0] \in TokenRows
    BY <1>2 DEF TokenRows, RowStates
  <2>2. tokens \in [1..N -> TokenRows]
    BY <1>3, <2>1
  <2>3. tokens \in Seq(TokenRows)
    BY <1>2, <2>2, SeqDef
  <2>4. QED
    BY <1>2, <2>2, <2>3, LenProperties DEF Tokens
<1>6. /\ links \in Seq(LinkRows) /\ Usable \subseteq {Len(links)}
      /\ \A i \in 1..Len(links) : links[i].opened = 0
  <2>1. PICK new : new = [used |-> FALSE, opened |-> 0]
    OBVIOUS
  <2>2. new \in LinkRows /\ new.opened = 0
    BY <2>1 DEF LinkRows
  <2>3. CASE links = << >>
    <3>1. links \in Seq(LinkRows) /\ Len(links) = 0
      BY <2>3, EmptySeq
    <3>2. QED
      BY <3>1 DEF Usable
  <2>4. CASE links = <<new>>
    <3>1. links \in Seq(LinkRows) /\ Len(links) = 1 /\ links[1] = new
      BY <2>2, <2>4
    <3>2. QED
      BY <2>2, <3>1 DEF Usable
  <2>5. QED
    BY <1>3, <2>1, <2>3, <2>4
<1>7. InFlight = {} /\ Committed = Tokens
  BY <1>3, <1>4, <1>5 DEF InFlight, Committed
<1>8. AccountRequestsInv /\ AllIssued
  BY <1>3, <1>7 DEF AccountRequestsInv, TokensIssued, AllIssued
<1>9. AccountTypes
  <2>1. \A t \in Tokens : tokens[t].family <= t /\ tokens[t].era <= signOuts
    <3>1. \A t \in Tokens : t \in Nat /\ tokens[t].family = t /\ tokens[t].era = 0
      BY <1>2, <1>4, <1>5
    <3>2. signOuts = 0
      BY <1>3
    <3>3. QED
      BY <3>1, <3>2
  <2>2. cookie \in [Devices -> {0} \cup Tokens]
    BY <1>3, <1>5
  <2>3. QED
    BY <1>3, <1>5, <1>6, <2>1, <2>2 DEF AccountTypes
<1>10. LinksInv /\ ResetSignsOut
  <2>1. LinksInv
    BY <1>6 DEF LinksInv, LinksWorkOnce
  <2>2. Live \subseteq Tokens
    BY DEF Live
  <2>3. QED
    BY <1>3, <1>4, <1>5, <2>1, <2>2 DEF ResetSignsOut
<1>11. FamiliesApart
  <2>1. \A d \in Devices : \A t : Knows(d, t) => cookie[d] = t
    BY <1>3, <1>7 DEF Knows
  <2>2. QED
    BY <1>3, <1>4, <1>5, <2>1 DEF FamiliesApart
<1>12. DevicesOrderly
  <2>1. \A d \in Devices : Good(cookie[d])
    BY <1>3, <1>4 DEF Good
  <2>2. QED
    BY <1>3, <1>7, <2>1 DEF DevicesOrderly, Orderly, NoReply
<1>13. QED
  BY <1>8, <1>9, <1>10, <1>11, <1>12 DEF SessionsInv

LEMMA SessionsStep ==
    ASSUME SessionsInv, [SessionsNext]_<<account, requests>>
    PROVE  SessionsInv'
<1>1. ASSUME NEW s \in Slots, NEW d \in Devices,
             \/ \E op \in {"sign in", "forgot", "reset"} : Sends(s, d, op)
             \/ cookie[d] # 0 /\ \E op \in {"refresh", "logout", "logout all"} : Sends(s, d, op)
      PROVE  SessionsInv'
  BY <1>1, SendsInv
<1>2. ASSUME NEW s \in InFlight,
             \/ SignIn(s) \/ SignInCommit(s)
             \/ RefreshUnknown(s) \/ RefreshReuse(s) \/ RefreshReused(s)
             \/ RefreshIssue(s) \/ RefreshRevoke(s) \/ RefreshCommit(s)
      PROVE  SessionsInv'
  BY <1>2, SignInInv, SignInCommitInv, RefreshUnknownInv, RefreshReuseInv, RefreshReusedInv,
     RefreshIssueInv, RefreshRevokeInv, RefreshCommitInv
<1>3. ASSUME NEW s \in InFlight,
             \/ SignOutBegins(s) \/ SignOut(s) \/ SignOutCommit(s)
             \/ ForgetBegins(s) \/ Forget(s) \/ ForgetCommit(s)
      PROVE  SessionsInv'
  BY <1>3, SignOutBeginsInv, SignOutInv, SignOutCommitInv, ForgetBeginsInv, ForgetInv,
     ForgetCommitInv
<1>4. ASSUME NEW s \in InFlight,
             \/ (\E i \in Usable : Open(s, i)) \/ ResetRefused(s)
             \/ Consume(s) \/ Reset(s) \/ ResetCommit(s)
      PROVE  SessionsInv'
  BY <1>4, OpenInv, RefreshUnknownInv, ConsumeInv, ResetInv, ResetCommitInv
<1>5. ASSUME NEW r \in replies, Deliver(r) \/ Lose(r) PROVE SessionsInv'
  BY <1>5, RepliesInv
<1>6. CASE UNCHANGED <<account, requests>>
  BY <1>6, SessionsRest
<1>7. QED
  BY <1>1, <1>2, <1>3, <1>4, <1>5, <1>6 DEF SessionsNext

(* The inductive invariant of an account, in every reachable state.        *)
THEOREM SessionsSound == SessionsSpec => []SessionsInv
<1>1. SessionsInit => SessionsInv
  BY SessionsInitInv
<1>2. SessionsInv /\ [SessionsNext]_<<account, requests>> => SessionsInv'
  BY SessionsStep
<1>3. QED
  BY <1>1, <1>2, PTL DEF SessionsSpec

(* Type correctness: a token without a row is one that a request in        *)
(* progress has issued.                                                    *)
THEOREM SessionsTypes == SessionsSpec => []SessionsTypeOK
<1>1. ASSUME SessionsInv PROVE SessionsTypeOK
  <2>1. AccountTypes /\ AccountRequestsInv /\ AllIssued
    BY <1>1 DEF SessionsInv
  <2>2. tokens \in Seq([family : Nat \ {0}, row : RowStates, era : 0..signOuts])
    <3>1. /\ Len(tokens) \in Nat /\ tokens \in [1..Len(tokens) -> TokenRows]
          /\ Tokens = 1..Len(tokens) /\ signOuts \in Nat
      BY <2>1, TokenFacts, LenProperties DEF AccountTypes
    <3>2. PICK R : R = [family : Nat \ {0}, row : RowStates, era : 0..signOuts]
      OBVIOUS
    <3>3. \A t \in 1..Len(tokens) : tokens[t] \in R
      <4>1. \A t \in 1..Len(tokens) : tokens[t] \in TokenRows /\ tokens[t].era \in 0..signOuts
        BY <2>1, <3>1, TokenFacts DEF AccountTypes
      <4>2. QED
        BY <3>2, <4>1 DEF TokenRows
    <3>4. tokens \in [1..Len(tokens) -> R]
      BY <3>1, <3>3
    <3>5. QED
      BY <3>1, <3>2, <3>4, SeqDef
  <2>3. ASSUME NEW t \in Tokens
        PROVE  tokens[t].row = "uncommitted" <=>
                 \E s \in Slots : IsOfAccount(s) /\ req[s].issued = t
    <3>1. ASSUME tokens[t].row = "uncommitted"
          PROVE  \E s \in Slots : IsOfAccount(s) /\ req[s].issued = t
      <4>1. PICK s \in InFlight : req[s].issued = t
        BY <2>1, <3>1 DEF AllIssued, Committed
      <4>2. s \in Slots /\ IsOfAccount(s)
        BY <2>1, OfAccount DEF InFlight
      <4>3. QED
        BY <4>1, <4>2
    <3>2. ASSUME NEW s \in Slots, IsOfAccount(s), req[s].issued = t
          PROVE  tokens[t].row = "uncommitted"
      <4>1. s \in InFlight
        BY <2>1, <3>2, OfAccount
      <4>2. InOrder(req[s]) /\ t # 0
        BY <2>1, <4>1, TokenFacts DEF AccountRequestsInv, SoundRequest
      <4>3. QED
        BY <3>2, <4>2 DEF InOrder, Committed
    <3>3. QED
      BY <3>1, <3>2
  <2>4. QED
    BY <2>1, <2>2, <2>3 DEF AccountTypes, LinkRows, SessionsTypeOK
<1>2. QED
  BY <1>1, SessionsSound, PTL

(* A device that sends one request at a time stays signed in until it is   *)
(* signed out (auth/service.py:258-306).                                   *)
THEOREM StaySignedIn == SessionsSpec => []DevicesStaySignedIn
<1>1. ASSUME SessionsInv PROVE DevicesStaySignedIn
  <2>1. SUFFICES ASSUME NEW d \in Devices \ troubled, ~Busy(d), cookie[d] # 0,
                        tokens[cookie[d]].row = "revoked"
                 PROVE  cookie[d] \in dismissed
    BY DEF DevicesStaySignedIn
  <2>2. NoReply(d)
    BY <2>1 DEF Busy, NoReply
  <2>3. Good(cookie[d])
    BY <1>1, <2>2 DEF SessionsInv, DevicesOrderly, Orderly
  <2>4. QED
    BY <2>1, <2>3 DEF Good
<1>2. QED
  BY <1>1, SessionsSound, PTL

(* A reset of the password signs every device out (auth/service.py:343).   *)
THEOREM AllSignedOut == SessionsSpec => []ResetSignsOut
<1>1. SessionsInv => ResetSignsOut
  BY DEF SessionsInv
<1>2. QED
  BY <1>1, SessionsSound, PTL

(* Only the newest link works, and once (auth/repository.py:49).           *)
THEOREM OnlyOnce == SessionsSpec => []LinksWorkOnce
<1>1. SessionsInv => LinksWorkOnce
  BY DEF SessionsInv, LinksInv
<1>2. QED
  BY <1>1, SessionsSound, PTL
=============================================================================
