-------------------------- MODULE TenantMembership --------------------------
(***************************************************************************)
(* The memberships and invitations of one tenant: MembershipService with   *)
(* the routes that call it and its two DynamoDB repositories.  A call      *)
(* proceeds one table access at a time.  Members are found by member id,   *)
(* and invitations by token, through indexes that lag; the other reads are *)
(* consistent.  The reads a call makes before its first waiting point      *)
(* (requester, member, invitation) are one step.  What a call is refused   *)
(* before (groups, MFA, body validation) and the listings are left out.    *)
(***************************************************************************)
EXTENDS Naturals

CONSTANTS
  Users, Invitations,
  MembershipCalls,   \* the API calls that may be in progress at once
  TenantRoles,
  NO_ONE,
  MaxMemberVersion   \* bound: versions of a membership row

ASSUME MembershipAssumption ==
  /\ NO_ONE \notin Users \union Invitations \union TenantRoles
               \union {"ACTIVE", "SUSPENDED", "REMOVED", "PENDING", "ACCEPTED", "CANCELLED"}
  /\ "tenant_owner" \in TenantRoles /\ MaxMemberVersion \in Nat \ {0}

VARIABLES
  members,           \* the membership rows by user, NO_ONE where there is none
  memberIndex,       \* the same rows as gsi2 shows them
  bootstrapMarker,   \* who bootstrapped the tenant
  invitations,
  calls,
  abandoned          \* invitations consumed by a call that then died

membershipVars == <<members, memberIndex, bootstrapMarker, invitations, calls, abandoned>>

MemberStatuses == {"ACTIVE", "SUSPENDED", "REMOVED"}

MembershipRecord == [status : MemberStatuses, role : TenantRoles,
                     version : 1 .. MaxMemberVersion, invitation : Invitations \union {NO_ONE}]

InvitationRecord == [status : {"PENDING", "ACCEPTED", "CANCELLED"}, role : TenantRoles,
                     by : Users \union {NO_ONE}, version : 1 .. 2]

ASSUME NoOneIsNoRow == NO_ONE \notin MembershipRecord \union InvitationRecord

CallStates == {"idle", "create", "write", "cancel", "mark", "getMember", "transact"}

\* named: the version a change is written under is the client's, and not the index's.
Call == [pc : CallStates, user : Users \union {NO_ONE}, inv : Invitations \union {NO_ONE},
         role : TenantRoles \union {NO_ONE}, status : MemberStatuses \union {NO_ONE},
         version : 0 .. MaxMemberVersion, named : BOOLEAN]

NoCall == [pc |-> "idle", user |-> NO_ONE, inv |-> NO_ONE, role |-> NO_ONE, status |-> NO_ONE,
           version |-> 0, named |-> FALSE]

MembershipManagementRoles == {"tenant_owner", "tenant_admin"}

NewMember(role, inv) ==
  [status |-> "ACTIVE", role |-> role, version |-> 1, invitation |-> inv]

MembershipInit ==
  /\ members = [u \in Users |-> NO_ONE]
  /\ memberIndex = members
  /\ bootstrapMarker = NO_ONE
  /\ invitations = [i \in Invitations |-> NO_ONE]
  /\ calls = [c \in MembershipCalls |-> NoCall]
  /\ abandoned = {}

CallGoesOn(c, call) == calls' = [calls EXCEPT ![c] = call]
At(c, pc) == calls[c].pc = pc
EndCall(c) == CallGoesOn(c, NoCall)
ContinueAt(c, pc) == CallGoesOn(c, [calls[c] EXCEPT !.pc = pc])

\* requireTenantRole and requireMembershipManagerFor, on a consistent read.
IsManager(u) ==
  /\ members[u] # NO_ONE
  /\ members[u].status = "ACTIVE" /\ members[u].role \in MembershipManagementRoles

(* POST /tenants/{tenantId}/members *)

AddMember(c) ==
  /\ At(c, "idle")
  /\ \E who \in Users, u \in Users, role \in TenantRoles :
       /\ IsManager(who) /\ members[u] = NO_ONE
       /\ CallGoesOn(c, [NoCall EXCEPT !.pc = "create", !.user = u, !.role = role])
  /\ UNCHANGED <<members, memberIndex, bootstrapMarker, invitations, abandoned>>

\* The create of the repository, on behalf of AddMember or of an acceptance.
CreateMember(c) ==
  /\ At(c, "create")
  /\ IF members[calls[c].user] = NO_ONE
     THEN members' = [members EXCEPT ![calls[c].user] = NewMember(calls[c].role, calls[c].inv)]
     ELSE UNCHANGED members
  /\ EndCall(c)
  /\ UNCHANGED <<memberIndex, bootstrapMarker, invitations, abandoned>>

(* PATCH and DELETE /members/{memberId} *)

\* The version a client may name: none (0), or any, as it is only asked to be positive.
\* One that the row has left behind is refused whatever happens, and is left out; so is
\* the bound, above which no row is changed.
ExpectedVersions(u) ==
  {0} \union {v \in 1 .. MaxMemberVersion - 1 : members[u] # NO_ONE => v >= members[u].version}

\* The requester is a manager, and an owner if it makes an owner.
MayChange(who, role) ==
  IsManager(who) /\ (role = "tenant_owner" => members[who].role = "tenant_owner")

ValidStatusTransition(from, to) ==
  <<from, to>> \in {<<"ACTIVE", "SUSPENDED">>, <<"ACTIVE", "REMOVED">>,
                    <<"SUSPENDED", "ACTIVE">>, <<"SUSPENDED", "REMOVED">>}

\* updateMember and removeMember find the member in the index; a PATCH changes the role,
\* the status or both.
ChangeMember(c) ==
  /\ At(c, "idle")
  /\ \E who \in Users, u \in Users, role \in TenantRoles \union {NO_ONE},
        status \in MemberStatuses \union {NO_ONE} :
       /\ memberIndex[u] # NO_ONE /\ MayChange(who, role)
       /\ memberIndex[u].status # "REMOVED"
       /\ status # NO_ONE \/ role # NO_ONE
       /\ status = "REMOVED" => role = NO_ONE
       /\ status # NO_ONE => ValidStatusTransition(memberIndex[u].status, status)
       /\ \E v \in ExpectedVersions(u) :
            CallGoesOn(c, [NoCall EXCEPT !.pc = "write", !.user = u, !.role = role, !.status = status,
                       !.version = IF v = 0 THEN memberIndex[u].version ELSE v,
                       !.named = v \notin {0, memberIndex[u].version}])
  /\ UNCHANGED <<members, memberIndex, bootstrapMarker, invitations, abandoned>>

Changed(row, call) ==
  [status |-> IF call.status = NO_ONE THEN row.status ELSE call.status,
   role |-> IF call.role = NO_ONE THEN row.role ELSE call.role,
   version |-> row.version + 1,
   invitation |-> IF call.inv = NO_ONE THEN row.invitation ELSE call.inv]

VersionMatches(c) ==
  IF members[calls[c].user] = NO_ONE THEN FALSE
  ELSE members[calls[c].user].version = calls[c].version

\* The versioned update of the repository, for updateMember, removeMember and an acceptance.
WriteMember(c) ==
  /\ At(c, "write")
  /\ IF VersionMatches(c)
     THEN /\ members[calls[c].user].version < MaxMemberVersion
          /\ members' = [members EXCEPT ![calls[c].user] = Changed(@, calls[c])]
     ELSE UNCHANGED members
  /\ EndCall(c)
  /\ UNCHANGED <<memberIndex, bootstrapMarker, invitations, abandoned>>

(* POST /tenants/{tenantId}/invite and /invitations/{invitationId}/cancel *)

\* The invitation is a new row under a random id, which nothing can conflict with.
InviteMember(c) ==
  /\ At(c, "idle")
  /\ \E who \in Users, role \in TenantRoles, i \in Invitations :
       /\ IsManager(who) /\ invitations[i] = NO_ONE
       /\ invitations' = [invitations EXCEPT ![i] =
            [status |-> "PENDING", role |-> role, by |-> NO_ONE, version |-> 1]]
  /\ UNCHANGED <<members, memberIndex, bootstrapMarker, calls, abandoned>>

CancelInvitation(c) ==
  /\ At(c, "idle")
  /\ \E who \in Users, i \in Invitations :
       /\ IsManager(who)
       /\ IF invitations[i] = NO_ONE THEN FALSE ELSE invitations[i].status = "PENDING"
       /\ CallGoesOn(c, [NoCall EXCEPT !.pc = "cancel", !.inv = i, !.version = invitations[i].version])
  /\ UNCHANGED <<members, memberIndex, bootstrapMarker, invitations, abandoned>>

WriteCancelled(c) ==
  /\ At(c, "cancel")
  /\ LET i == calls[c].inv
     IN IF invitations[i].version = calls[c].version
        THEN invitations' = [invitations EXCEPT ![i] =
               [status |-> "CANCELLED", role |-> @.role, by |-> @.by,
                version |-> @.version + 1]]
        ELSE UNCHANGED invitations
  /\ EndCall(c)
  /\ UNCHANGED <<members, memberIndex, bootstrapMarker, abandoned>>

(* POST /invitations/accept *)

\* The index by token may still show an invitation PENDING after it was used.  Whether it
\* has expired is told by the instant the call reads the clock at, also to the write that
\* follows: an expired invitation is one that no call begins to accept.
AcceptInvitation(c) ==
  /\ At(c, "idle")
  /\ \E u \in Users, i \in Invitations :
       /\ invitations[i] # NO_ONE
       /\ CallGoesOn(c, [NoCall EXCEPT !.pc = "mark", !.user = u, !.inv = i])
  /\ UNCHANGED <<members, memberIndex, bootstrapMarker, invitations, abandoned>>

\* Mutant: the status is not part of the write's condition.
Acceptable_AnyStatus(i) == TRUE

Acceptable(i) == invitations[i].status = "PENDING"

MarkAccepted(c) ==
  /\ At(c, "mark")
  /\ LET i == calls[c].inv
     IN IF Acceptable(i)
        THEN /\ invitations' = [invitations EXCEPT ![i] =
                  [status |-> "ACCEPTED", role |-> @.role, by |-> calls[c].user,
                   version |-> @.version + 1]]
             /\ CallGoesOn(c, [calls[c] EXCEPT !.pc = "getMember", !.role = invitations[i].role,
                           !.status = "ACTIVE"])
        ELSE UNCHANGED invitations /\ EndCall(c)
  /\ UNCHANGED <<members, memberIndex, bootstrapMarker, abandoned>>

\* Mutant: a user without a membership is not given one.
ActivateMembership_OnlyUpdates(c) ==
  /\ At(c, "getMember")
  /\ LET current == members[calls[c].user]
     IN IF IF current = NO_ONE THEN TRUE ELSE current.status = "REMOVED" THEN EndCall(c)
        ELSE CallGoesOn(c, [calls[c] EXCEPT !.pc = "write", !.version = current.version])
  /\ UNCHANGED <<members, memberIndex, bootstrapMarker, invitations, abandoned>>

\* Mutant: a removed member is let in again.
ActivateMembership_LetsRemovedIn(c) ==
  /\ At(c, "getMember")
  /\ LET current == members[calls[c].user]
     IN IF current = NO_ONE THEN ContinueAt(c, "create")
        ELSE CallGoesOn(c, [calls[c] EXCEPT !.pc = "write", !.version = current.version])
  /\ UNCHANGED <<members, memberIndex, bootstrapMarker, invitations, abandoned>>

\* activateMembershipFromInvitation
ActivateMembership(c) ==
  /\ At(c, "getMember")
  /\ LET current == members[calls[c].user]
     IN IF current = NO_ONE THEN ContinueAt(c, "create")
        ELSE IF current.status = "REMOVED" THEN EndCall(c)
        ELSE CallGoesOn(c, [calls[c] EXCEPT !.pc = "write", !.version = current.version])
  /\ UNCHANGED <<members, memberIndex, bootstrapMarker, invitations, abandoned>>

(* POST /tenants/bootstrap-owner, once the tenant was found ACTIVE *)

TenantHasAnyMembershipRecords == \E u \in Users : members[u] # NO_ONE

BootstrapFirstOwner(c) ==
  /\ At(c, "idle")
  /\ ~TenantHasAnyMembershipRecords
  /\ \E u \in Users : CallGoesOn(c, [NoCall EXCEPT !.pc = "transact", !.user = u])
  /\ UNCHANGED <<members, memberIndex, bootstrapMarker, invitations, abandoned>>

\* Mutant: only the membership put is conditional.
BootstrapCondition_NoMarker(u) == members[u] = NO_ONE

BootstrapCondition(u) == bootstrapMarker = NO_ONE /\ members[u] = NO_ONE

BootstrapTransaction(c) ==
  /\ At(c, "transact")
  /\ LET u == calls[c].user
     IN IF BootstrapCondition(u)
        THEN /\ bootstrapMarker' = u
             /\ members' = [members EXCEPT ![u] = NewMember("tenant_owner", NO_ONE)]
        ELSE UNCHANGED <<bootstrapMarker, members>>
  /\ EndCall(c)
  /\ UNCHANGED <<memberIndex, invitations, abandoned>>

(* The surroundings. *)

IndexCatchesUp(u) ==
  /\ memberIndex[u] # members[u]
  /\ memberIndex' = [memberIndex EXCEPT ![u] = members[u]]
  /\ UNCHANGED <<members, bootstrapMarker, invitations, calls, abandoned>>

\* An acceptance that has consumed its invitation and not written the membership yet.
Activating(c) == calls[c].inv # NO_ONE /\ calls[c].pc \in {"getMember", "create", "write"}

CallDies(c) ==
  /\ ~At(c, "idle")
  /\ abandoned' = IF Activating(c) THEN abandoned \union {calls[c].inv} ELSE abandoned
  /\ EndCall(c)
  /\ UNCHANGED <<members, memberIndex, bootstrapMarker, invitations>>

MembershipNext ==
  \/ \E c \in MembershipCalls :
       \/ AddMember(c) \/ CreateMember(c)
       \/ ChangeMember(c) \/ WriteMember(c)
       \/ InviteMember(c) \/ CancelInvitation(c) \/ WriteCancelled(c)
       \/ AcceptInvitation(c) \/ MarkAccepted(c) \/ ActivateMembership(c)
       \/ BootstrapFirstOwner(c) \/ BootstrapTransaction(c)
       \/ CallDies(c)
  \/ \E u \in Users : IndexCatchesUp(u)

MembershipSpec == MembershipInit /\ [][MembershipNext]_membershipVars

(* Properties. *)

MembershipTypeOK ==
  /\ members \in [Users -> MembershipRecord \union {NO_ONE}]
  /\ memberIndex \in [Users -> MembershipRecord \union {NO_ONE}]
  /\ bootstrapMarker \in Users \union {NO_ONE}
  /\ invitations \in [Invitations -> InvitationRecord \union {NO_ONE}]
  /\ calls \in [MembershipCalls -> Call]
  /\ abandoned \subseteq Invitations

\* An invitation is consumed before the membership is written (acceptInvitation): still,
\* whoever consumed it has a membership row, unless the call is about to write it or died.
AcceptanceIsAccountedFor ==
  \A i \in Invitations :
    invitations[i] # NO_ONE /\ invitations[i].status = "ACCEPTED" =>
      \/ members[invitations[i].by] # NO_ONE
      \/ i \in abandoned
      \/ \E c \in MembershipCalls : calls[c].inv = i /\ Activating(c)

\* A membership that names an invitation was given to the one user who consumed it,
\* however many acceptances of one token race with its cancellation (markAccepted).
StampedMembershipIsEarned ==
  \A u \in Users, i \in Invitations :
    members[u] # NO_ONE /\ members[u].invitation = i =>
      invitations[i] # NO_ONE /\ invitations[i].status = "ACCEPTED" /\ invitations[i].by = u

\* A tenant is bootstrapped once, and only while nobody is a member of it: the check and
\* the transaction of bootstrapFirstOwner are apart.
OneBootstrap ==
  [][bootstrapMarker' # bootstrapMarker =>
       bootstrapMarker = NO_ONE /\ \A u \in Users : members[u] = NO_ONE]_membershipVars

\* "REMOVED: []" (assertValidStatusTransition) is asked of the lagging index and the write
\* asks for the version alone, so that a client that names the version of the removed row,
\* which the index did not show, changes it.  Nothing else does: no update or removal under
\* the version of the index, and no acceptance, whatever it read before the removal.
RemovedStaysUnlessNamed ==
  [][\A u \in Users :
       members[u] # NO_ONE /\ members[u].status = "REMOVED" /\ members'[u] # members[u] =>
         \E c \in MembershipCalls :
           /\ At(c, "write") /\ ~At(c, "write")' /\ calls[c].named
           /\ calls[c].user = u /\ calls[c].version = members[u].version]_membershipVars
=============================================================================
