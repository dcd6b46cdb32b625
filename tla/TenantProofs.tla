---------------------------- MODULE TenantProofs -----------------------------
(***************************************************************************)
(* What holds of the memberships and of the registry of tenants for every  *)
(* number of users, invitations, tenants and concurrent calls.             *)
(***************************************************************************)
EXTENDS TenantMembership, TenantOnboarding, TLAPS

-----------------------------------------------------------------------------
(* Memberships: the invariant.                                             *)

Consumed(i, u) ==
  invitations[i] # NO_ONE /\ invitations[i].status = "ACCEPTED" /\ invitations[i].by = u

\* What a call knows of the rows between two of its accesses.  A write under a version that
\* its client did not name has one that the row had while the member was not removed.
CallSafe(call) ==
  /\ call \in Call
  /\ call.pc \notin {"idle", "cancel"} => call.user \in Users
  /\ call.pc \in {"create", "getMember"} => call.role \in TenantRoles
  /\ call.pc \in {"cancel", "mark", "getMember"} =>
       call.inv \in Invitations /\ invitations[call.inv] # NO_ONE
  /\ call.pc = "cancel" => call.version = 1
  /\ call.pc \in {"create", "write", "getMember"} /\ call.inv # NO_ONE => Consumed(call.inv, call.user)
  /\ call.pc = "write" =>
       /\ members[call.user] # NO_ONE
       /\ ~call.named =>
            /\ call.version <= members[call.user].version
            /\ call.version = members[call.user].version => members[call.user].status # "REMOVED"
  /\ bootstrapMarker = NO_ONE => call.pc \in {"idle", "transact"}

IndexLags ==
  \A u \in Users : memberIndex[u] # NO_ONE =>
    /\ members[u] # NO_ONE
    /\ memberIndex[u].version <= members[u].version
    /\ memberIndex[u].version = members[u].version => memberIndex[u] = members[u]

InvitationShape ==
  \A i \in Invitations : invitations[i] # NO_ONE =>
    /\ invitations[i].version = IF invitations[i].status = "PENDING" THEN 1 ELSE 2
    /\ invitations[i].status = "ACCEPTED" => invitations[i].by \in Users

NothingBeforeBootstrap ==
  bootstrapMarker = NO_ONE =>
    /\ \A u \in Users : members[u] = NO_ONE /\ memberIndex[u] = NO_ONE
    /\ \A i \in Invitations : invitations[i] = NO_ONE

MembershipInv ==
  /\ MembershipTypeOK
  /\ \A c \in MembershipCalls : CallSafe(calls[c])
  /\ IndexLags
  /\ InvitationShape
  /\ NothingBeforeBootstrap
  /\ AcceptanceIsAccountedFor
  /\ StampedMembershipIsEarned

-----------------------------------------------------------------------------
(* How the rows move.                                                      *)

MemberMoves(old, new) ==
  \/ new = old
  \/ /\ new # NO_ONE
     /\ old # NO_ONE => new.version = old.version + 1

InvitationMoves(old, new) ==
  \/ new = old
  \/ /\ new # NO_ONE
     /\ old = NO_ONE => new.status = "PENDING" /\ new.version = 1
     /\ old # NO_ONE => old.status = "PENDING" /\ new.status # "PENDING" /\ new.version = 2
     /\ new.status = "ACCEPTED" => new.by \in Users

RowsMove ==
  /\ \A u \in Users : MemberMoves(members[u], members'[u])
  /\ \A i \in Invitations : InvitationMoves(invitations[i], invitations'[i])
  /\ bootstrapMarker # NO_ONE => bootstrapMarker' = bootstrapMarker

\* A membership that is written is stamped with an invitation its user consumed, or keeps
\* the stamp it had.
StampsAreEarned ==
  \A u \in Users :
    \/ members'[u] = members[u]
    \/ /\ members'[u].invitation \in Invitations => Consumed(members'[u].invitation, u)

\* An acceptance goes on, or has left a membership or a mark behind.
AcceptancesGoOn ==
  \A c \in MembershipCalls : Activating(c) =>
    \/ calls'[c].inv = calls[c].inv /\ Activating(c)'
    \/ members'[calls[c].user] # NO_ONE
    \/ calls[c].inv \in abandoned'

LEMMA CallStays ==
  ASSUME MembershipTypeOK, MembershipTypeOK', RowsMove, NEW call, CallSafe(call)
  PROVE  CallSafe(call)'
<1>1. call.inv \in Invitations /\ invitations[call.inv] # NO_ONE => (invitations')[call.inv] # NO_ONE
  BY DEF RowsMove, InvitationMoves
<1>2. ASSUME call.pc \in {"create", "write", "getMember"}, call.inv # NO_ONE
      PROVE  Consumed(call.inv, call.user)'
  <2>1. call.inv \in Invitations /\ Consumed(call.inv, call.user)
    BY <1>2 DEF CallSafe, Call
  <2> QED BY <2>1 DEF Consumed, RowsMove, InvitationMoves
<1>3. ASSUME call.pc = "write"
      PROVE  /\ (members')[call.user] # NO_ONE
             /\ ~call.named =>
                  /\ call.version <= (members')[call.user].version
                  /\ call.version = (members')[call.user].version =>
                       (members')[call.user].status # "REMOVED"
  <2>1. /\ call.user \in Users /\ members[call.user] # NO_ONE
        /\ ~call.named =>
             /\ call.version <= members[call.user].version
             /\ call.version = members[call.user].version => members[call.user].status # "REMOVED"
    BY <1>3 DEF CallSafe
  <2>2. call.version \in Nat /\ members[call.user].version \in Nat
    BY <2>1, MembershipAssumption DEF CallSafe, Call, MembershipTypeOK, MembershipRecord
  <2> QED BY <2>1, <2>2 DEF RowsMove, MemberMoves
<1> QED BY <1>1, <1>2, <1>3 DEF CallSafe, RowsMove

\* A step of one call is safe when the rows only move forward and what the call goes on
\* with is safe.
LEMMA MembershipMoves ==
  ASSUME MembershipInv, MembershipTypeOK', RowsMove, UNCHANGED memberIndex,
         StampsAreEarned, AcceptancesGoOn, abandoned \subseteq abandoned',
         NothingBeforeBootstrap',
         \A c \in MembershipCalls : CallSafe(calls[c])' \/ calls'[c] = calls[c],
         \A i \in Invitations :
           (invitations')[i] # invitations[i] /\ (invitations')[i].status = "ACCEPTED" =>
             \E c \in MembershipCalls : calls'[c].inv = i /\ Activating(c)'
  PROVE  MembershipInv'
<1>1. MembershipTypeOK
  BY DEF MembershipInv
<1>2. \A c \in MembershipCalls : CallSafe(calls[c])'
  <2> SUFFICES ASSUME NEW c \in MembershipCalls, calls'[c] = calls[c] PROVE CallSafe(calls[c])'
    OBVIOUS
  <2>1. CallSafe(calls[c])
    BY DEF MembershipInv
  <2> DEFINE call == calls[c]
  <2>2. PICK k : k = calls[c]
    OBVIOUS
  <2>3. CallSafe(k)
    BY <2>1, <2>2
  <2>4. CallSafe(k)'
    BY <1>1, <2>3, CallStays
  <2> QED BY <2>2, <2>4 DEF CallSafe, Consumed
<1>3. IndexLags'
  <2> SUFFICES ASSUME NEW u \in Users, memberIndex[u] # NO_ONE
               PROVE  /\ (members')[u] # NO_ONE
                      /\ memberIndex[u].version <= (members')[u].version
                      /\ memberIndex[u].version = (members')[u].version =>
                           memberIndex[u] = (members')[u]
    BY DEF IndexLags
  <2>1. /\ members[u] # NO_ONE /\ memberIndex[u].version <= members[u].version
        /\ memberIndex[u].version = members[u].version => memberIndex[u] = members[u]
    BY DEF MembershipInv, IndexLags
  <2>2. members[u].version \in Nat /\ memberIndex[u].version \in Nat
    BY <1>1, <2>1, MembershipAssumption DEF MembershipTypeOK, MembershipRecord
  <2> QED BY <2>1, <2>2 DEF RowsMove, MemberMoves
<1>4. InvitationShape'
  BY DEF MembershipInv, InvitationShape, RowsMove, InvitationMoves
<1>5. AcceptanceIsAccountedFor'
  <2> SUFFICES ASSUME NEW i \in Invitations,
                      (invitations')[i] # NO_ONE, (invitations')[i].status = "ACCEPTED"
               PROVE  \/ (members')[(invitations')[i].by] # NO_ONE
                      \/ i \in abandoned'
                      \/ \E c \in MembershipCalls : calls'[c].inv = i /\ Activating(c)'
    BY DEF AcceptanceIsAccountedFor
  <2>1. CASE (invitations')[i] = invitations[i]
    <3>1. CASE members[invitations[i].by] # NO_ONE
      <4>1. invitations[i].by \in Users
        BY <2>1 DEF MembershipInv, InvitationShape
      <4> QED BY <2>1, <3>1, <4>1 DEF RowsMove, MemberMoves
    <3>2. ASSUME NEW c \in MembershipCalls, calls[c].inv = i, Activating(c)
          PROVE  \/ (members')[(invitations')[i].by] # NO_ONE
                 \/ i \in abandoned'
                 \/ \E d \in MembershipCalls : calls'[d].inv = i /\ Activating(d)'
      <4>1. invitations[i].by = calls[c].user
        BY <3>2 DEF MembershipInv, CallSafe, Consumed, Activating
      <4> QED BY <2>1, <3>2, <4>1 DEF AcceptancesGoOn
    <3> QED BY <2>1, <3>1, <3>2 DEF MembershipInv, AcceptanceIsAccountedFor
  <2>2. CASE (invitations')[i] # invitations[i]
    BY <2>2
  <2> QED BY <2>1, <2>2
<1>6. StampedMembershipIsEarned'
  <2> SUFFICES ASSUME NEW u \in Users, NEW i \in Invitations,
                      (members')[u] # NO_ONE, (members')[u].invitation = i
               PROVE  Consumed(i, u)'
    BY DEF StampedMembershipIsEarned, Consumed
  <2>1. Consumed(i, u)
    BY DEF StampsAreEarned, MembershipInv, StampedMembershipIsEarned, Consumed
  <2> QED BY <2>1 DEF Consumed, RowsMove, InvitationMoves
<1> QED BY <1>2, <1>3, <1>4, <1>5, <1>6 DEF MembershipInv

-----------------------------------------------------------------------------
(* The steps of a call.                                                    *)

LEMMA CallTypes ==
  ASSUME MembershipInv, NEW c \in MembershipCalls
  PROVE  /\ calls \in [MembershipCalls -> Call] /\ calls[c] \in Call /\ CallSafe(calls[c])
         /\ NoCall \in Call /\ NoCall.pc = "idle" /\ NoCall.inv = NO_ONE
         /\ NoCall.version = 0 /\ CallSafe(NoCall)
<1>1. NoCall \in Call /\ NoCall.pc = "idle" /\ NoCall.inv = NO_ONE /\ NoCall.version = 0
  BY MembershipAssumption DEF NoCall, Call, CallStates
<1>2. CallSafe(NoCall)
  BY <1>1 DEF CallSafe
<1> QED BY <1>1, <1>2 DEF MembershipInv, MembershipTypeOK

LEMMA OnlyCallMoves ==
  ASSUME MembershipInv, NEW c \in MembershipCalls, NEW call, CallSafe(call), CallGoesOn(c, call),
         UNCHANGED <<members, memberIndex, bootstrapMarker, invitations>>,
         abandoned \subseteq abandoned', abandoned' \subseteq Invitations,
         Activating(c) =>
           \/ call.inv = calls[c].inv /\ call.pc \in {"getMember", "create", "write"}
           \/ members[calls[c].user] # NO_ONE
           \/ calls[c].inv \in abandoned'
  PROVE  MembershipInv'
<1>0. /\ MembershipTypeOK /\ calls \in [MembershipCalls -> Call]
      /\ call \in Call
  BY CallTypes DEF MembershipInv, CallSafe
<1>1. calls'[c] = call /\ \A d \in MembershipCalls \ {c} : calls'[d] = calls[d]
  BY <1>0 DEF CallGoesOn
<1>2. MembershipTypeOK'
  BY <1>0 DEF MembershipTypeOK, CallGoesOn
<1>3. RowsMove
  BY DEF RowsMove, MemberMoves, InvitationMoves
<1>4. AcceptancesGoOn
  BY <1>1 DEF AcceptancesGoOn, Activating
<1>5. NothingBeforeBootstrap'
  BY DEF MembershipInv, NothingBeforeBootstrap
<1>6. CallSafe(calls[c])'
  BY <1>1 DEF CallSafe, Consumed
<1>7. StampsAreEarned
  BY DEF StampsAreEarned
<1> QED BY <1>1, <1>2, <1>3, <1>4, <1>5, <1>6, <1>7, MembershipMoves

\* The steps that begin a call.
LEMMA CallsBegin ==
  ASSUME MembershipInv, NEW c \in MembershipCalls,
         \/ AddMember(c) \/ ChangeMember(c) \/ CancelInvitation(c) \/ AcceptInvitation(c)
         \/ BootstrapFirstOwner(c)
  PROVE  MembershipInv'
<1>0. /\ calls[c] \in Call /\ NoCall \in Call /\ NoCall.inv = NO_ONE /\ ~Activating(c)
      /\ UNCHANGED <<members, memberIndex, bootstrapMarker, invitations, abandoned>>
      /\ abandoned \subseteq Invitations
  BY CallTypes
     DEF AddMember, ChangeMember, CancelInvitation, AcceptInvitation, BootstrapFirstOwner, At, Activating,
         MembershipInv, MembershipTypeOK
<1>1. (\E call : CallSafe(call) /\ CallGoesOn(c, call)) => MembershipInv'
  BY <1>0, OnlyCallMoves
<1>2. CASE AddMember(c)
  <2>1. PICK u \in Users, role \in TenantRoles :
          /\ bootstrapMarker # NO_ONE
          /\ CallGoesOn(c, [NoCall EXCEPT !.pc = "create", !.user = u, !.role = role])
    BY <1>2 DEF AddMember, IsManager, MembershipInv, NothingBeforeBootstrap
  <2>2. CallSafe([NoCall EXCEPT !.pc = "create", !.user = u, !.role = role])
    <3>1. PICK call : call = [NoCall EXCEPT !.pc = "create", !.user = u, !.role = role]
      OBVIOUS
    <3>2. /\ call \in Call /\ call.pc = "create" /\ call.user = u /\ call.inv = NO_ONE /\ call.role = role
      BY <2>1, <3>1, <1>0, MembershipAssumption DEF Call, CallStates
    <3>3. CallSafe(call)
      BY <2>1, <3>2, MembershipAssumption DEF CallSafe
    <3> QED BY <3>1, <3>3
  <2> QED BY <1>1, <2>1, <2>2
<1>3. CASE ChangeMember(c)
  <2>0. PICK u \in Users, role \in TenantRoles \union {NO_ONE},
             status \in MemberStatuses \union {NO_ONE} :
          /\ bootstrapMarker # NO_ONE
          /\ memberIndex[u] # NO_ONE /\ memberIndex[u].status # "REMOVED"
          /\ \E v \in ExpectedVersions(u) :
               CallGoesOn(c, [NoCall EXCEPT !.pc = "write", !.user = u, !.role = role, !.status = status,
                                          !.version = IF v = 0 THEN memberIndex[u].version ELSE v,
                                          !.named = v \notin {0, memberIndex[u].version}])
    BY <1>3 DEF ChangeMember, MayChange, IsManager, MembershipInv, NothingBeforeBootstrap
  <2>1. PICK v \in ExpectedVersions(u) :
          CallGoesOn(c, [NoCall EXCEPT !.pc = "write", !.user = u, !.role = role, !.status = status,
                                     !.version = IF v = 0 THEN memberIndex[u].version ELSE v,
                                     !.named = v \notin {0, memberIndex[u].version}])
    BY <2>0
  <2> DEFINE version == IF v = 0 THEN memberIndex[u].version ELSE v
             named == v \notin {0, memberIndex[u].version}
  <2>2. /\ memberIndex[u] \in MembershipRecord /\ members[u] \in MembershipRecord
        /\ members[u] # NO_ONE /\ memberIndex[u].version <= members[u].version
        /\ memberIndex[u].version = members[u].version => memberIndex[u] = members[u]
    BY <2>0 DEF MembershipInv, MembershipTypeOK, IndexLags
  <2>3. /\ version \in 1 .. MaxMemberVersion /\ named \in BOOLEAN
        /\ ~named => /\ version <= members[u].version
                     /\ version = members[u].version => members[u].status # "REMOVED"
    <3>1. memberIndex[u].version \in 1 .. MaxMemberVersion /\ v \in 0 .. MaxMemberVersion
      BY <2>2, MembershipAssumption DEF ExpectedVersions, MembershipRecord
    <3>2. version \in 1 .. MaxMemberVersion
      BY <3>1, MembershipAssumption
    <3>3. ~named => version = memberIndex[u].version
      OBVIOUS
    <3> QED BY <2>0, <2>2, <3>2, <3>3
  <2> HIDE DEF version, named
  <2>4. CallSafe([NoCall EXCEPT !.pc = "write", !.user = u, !.role = role, !.status = status,
                                !.version = version, !.named = named])
    <3>1. PICK call : call = [NoCall EXCEPT !.pc = "write", !.user = u, !.role = role, !.status = status,
                                !.version = version, !.named = named]
      OBVIOUS
    <3>0. version \in 0 .. MaxMemberVersion
      BY <2>3, MembershipAssumption
    <3>2. /\ call \in Call /\ call.pc = "write" /\ call.user = u /\ call.inv = NO_ONE
          /\ call.version = version /\ call.named = named
      BY <2>3, <3>0, <3>1, <1>0, MembershipAssumption DEF Call, CallStates
    <3>3. CallSafe(call)
      BY <2>0, <2>2, <2>3, <3>2 DEF CallSafe
    <3> QED BY <3>1, <3>3
  <2> QED BY <1>1, <2>1, <2>4 DEF version, named
<1>4. CASE CancelInvitation(c)
  <2>1. PICK i \in Invitations :
          /\ invitations[i] # NO_ONE /\ invitations[i].status = "PENDING" /\ bootstrapMarker # NO_ONE
          /\ CallGoesOn(c, [NoCall EXCEPT !.pc = "cancel", !.inv = i, !.version = invitations[i].version])
    BY <1>4 DEF CancelInvitation, IsManager, MembershipInv, NothingBeforeBootstrap
  <2>2. invitations[i].version = 1
    BY <2>1 DEF MembershipInv, InvitationShape
  <2>3. CallSafe([NoCall EXCEPT !.pc = "cancel", !.inv = i, !.version = 1])
    <3>1. PICK call : call = [NoCall EXCEPT !.pc = "cancel", !.inv = i, !.version = 1]
      OBVIOUS
    <3>0. 1 \in 0 .. MaxMemberVersion
      BY MembershipAssumption
    <3>2. /\ call \in Call /\ call.pc = "cancel" /\ call.inv = i /\ call.version = 1
      BY <3>0, <2>1, <3>1, <1>0, MembershipAssumption DEF Call, CallStates
    <3>3. CallSafe(call)
      BY <2>1, <3>2, MembershipAssumption DEF CallSafe
    <3> QED BY <3>1, <3>3
  <2> QED BY <1>1, <2>1, <2>2, <2>3
<1>5. CASE AcceptInvitation(c)
  <2>1. PICK u \in Users, i \in Invitations :
          /\ invitations[i] # NO_ONE /\ bootstrapMarker # NO_ONE
          /\ CallGoesOn(c, [NoCall EXCEPT !.pc = "mark", !.user = u, !.inv = i])
    BY <1>5 DEF AcceptInvitation, MembershipInv, NothingBeforeBootstrap
  <2>2. CallSafe([NoCall EXCEPT !.pc = "mark", !.user = u, !.inv = i])
    <3>1. PICK call : call = [NoCall EXCEPT !.pc = "mark", !.user = u, !.inv = i]
      OBVIOUS
    <3>2. /\ call \in Call /\ call.pc = "mark" /\ call.user = u /\ call.inv = i
      BY <2>1, <3>1, <1>0, MembershipAssumption DEF Call, CallStates
    <3>3. CallSafe(call)
      BY <2>1, <3>2, MembershipAssumption DEF CallSafe
    <3> QED BY <3>1, <3>3
  <2> QED BY <1>1, <2>1, <2>2
<1>6. CASE BootstrapFirstOwner(c)
  <2>1. PICK u \in Users : CallGoesOn(c, [NoCall EXCEPT !.pc = "transact", !.user = u])
    BY <1>6 DEF BootstrapFirstOwner
  <2>2. CallSafe([NoCall EXCEPT !.pc = "transact", !.user = u])
    <3>1. PICK call : call = [NoCall EXCEPT !.pc = "transact", !.user = u]
      OBVIOUS
    <3>2. /\ call \in Call /\ call.pc = "transact" /\ call.user = u
      BY <2>1, <3>1, <1>0, MembershipAssumption DEF Call, CallStates
    <3>3. CallSafe(call)
      BY <2>1, <3>2, MembershipAssumption DEF CallSafe
    <3> QED BY <3>1, <3>3
  <2> QED BY <1>1, <2>1, <2>2
<1> QED BY <1>2, <1>3, <1>4, <1>5, <1>6

LEMMA CallsRead ==
  ASSUME MembershipInv, NEW c \in MembershipCalls, ActivateMembership(c) \/ CallDies(c)
  PROVE  MembershipInv'
<1>0. /\ calls[c] \in Call /\ NoCall \in Call /\ CallSafe(calls[c]) /\ CallSafe(NoCall)
      /\ UNCHANGED <<members, memberIndex, bootstrapMarker, invitations>>
      /\ abandoned \subseteq Invitations
  BY CallTypes DEF ActivateMembership, CallDies, MembershipInv, MembershipTypeOK
<1>1. CASE CallDies(c)
  <2>1. Activating(c) => calls[c].inv \in Invitations
    BY <1>0 DEF Activating, Call
  <2> QED BY <1>0, <1>1, <2>1, OnlyCallMoves DEF CallDies, EndCall
<1>2. CASE ActivateMembership(c)
  <2> DEFINE u == calls[c].user
  <2>1. calls[c].pc = "getMember" /\ u \in Users
    BY <1>0, <1>2 DEF ActivateMembership, At, CallSafe
  <2>2. CASE members[u] = NO_ONE
    <3>1. ContinueAt(c, "create")
      BY <1>2, <2>2 DEF ActivateMembership
    <3>2. CallSafe([calls[c] EXCEPT !.pc = "create"])
      BY <1>0, <2>1 DEF CallSafe, Call, CallStates
    <3>3. [calls[c] EXCEPT !.pc = "create"].inv = calls[c].inv
          /\ [calls[c] EXCEPT !.pc = "create"].pc = "create"
      BY <1>0 DEF Call
    <3> QED BY <1>0, <1>2, <3>1, <3>2, <3>3, OnlyCallMoves DEF ActivateMembership, ContinueAt
  <2>3. CASE members[u] # NO_ONE /\ members[u].status = "REMOVED"
    BY <1>0, <1>2, <2>3, OnlyCallMoves DEF ActivateMembership, EndCall
  <2>4. CASE members[u] # NO_ONE /\ members[u].status # "REMOVED"
    <3> DEFINE call == [calls[c] EXCEPT !.pc = "write", !.version = members[u].version]
    <3>1. CallGoesOn(c, call)
      BY <1>2, <2>4 DEF ActivateMembership
    <3>2. members[u].version \in 1 .. MaxMemberVersion
      BY <2>1, <2>4 DEF MembershipInv, MembershipTypeOK, MembershipRecord
    <3>3. /\ call \in Call /\ call.pc = "write" /\ call.version = members[u].version
          /\ call.user = u /\ call.inv = calls[c].inv
      <4>1. PICK v \in 0 .. MaxMemberVersion : v = members[u].version
        BY <3>2, MembershipAssumption
      <4> QED BY <1>0, <4>1 DEF Call, CallStates
    <3> HIDE DEF call
    <3>4. CallSafe(call)
      BY <1>0, <2>1, <2>4, <3>2, <3>3 DEF CallSafe
    <3> QED BY <1>0, <1>2, <2>4, <3>1, <3>3, <3>4, OnlyCallMoves DEF ActivateMembership
  <2> QED BY <2>2, <2>3, <2>4
<1> QED BY <1>1, <1>2

\* The steps that write a membership end their call.
LEMMA MemberWritten ==
  ASSUME MembershipInv, NEW c \in MembershipCalls, NEW u \in Users, NEW row \in MembershipRecord,
         EndCall(c), calls[c].user = u,
         members' = [members EXCEPT ![u] = row],
         MemberMoves(members[u], row),
         row.invitation \in Invitations => Consumed(row.invitation, u),
         UNCHANGED <<memberIndex, invitations, abandoned>>,
         bootstrapMarker' # NO_ONE,
         bootstrapMarker # NO_ONE => UNCHANGED bootstrapMarker, bootstrapMarker' \in Users
  PROVE  MembershipInv'
<1>0. MembershipTypeOK /\ row # NO_ONE /\ CallSafe(NoCall) /\ NoCall \in Call
  BY NoOneIsNoRow, CallTypes DEF MembershipInv
<1>1. calls'[c] = NoCall /\ \A d \in MembershipCalls \ {c} : calls'[d] = calls[d]
  BY <1>0 DEF EndCall, CallGoesOn, MembershipTypeOK
<1>2. MembershipTypeOK'
  BY <1>0 DEF MembershipTypeOK, EndCall, CallGoesOn
<1>3. members'[u] = row /\ \A v \in Users \ {u} : members'[v] = members[v]
  BY <1>0 DEF MembershipTypeOK
<1>4. RowsMove
  BY <1>3 DEF RowsMove, MemberMoves, InvitationMoves
<1>5. AcceptancesGoOn
  BY <1>0, <1>1, <1>3 DEF AcceptancesGoOn, Activating
<1>6. StampsAreEarned
  BY <1>3 DEF StampsAreEarned
<1>7. CallSafe(calls[c])'
  BY <1>0, <1>1, CallTypes DEF CallSafe
<1>8. NothingBeforeBootstrap'
  BY DEF NothingBeforeBootstrap
<1> QED BY <1>1, <1>2, <1>4, <1>5, <1>6, <1>7, <1>8, MembershipMoves

LEMMA CallsWrite ==
  ASSUME MembershipInv, NEW c \in MembershipCalls,
         CreateMember(c) \/ WriteMember(c) \/ BootstrapTransaction(c)
  PROVE  MembershipInv'
<1> DEFINE u == calls[c].user
<1>0. /\ calls[c] \in Call /\ CallSafe(calls[c]) /\ CallSafe(NoCall) /\ u \in Users
      /\ calls[c].pc \in {"create", "write", "transact"} /\ EndCall(c)
      /\ UNCHANGED <<memberIndex, invitations, abandoned>>
      /\ members \in [Users -> MembershipRecord \union {NO_ONE}]
      /\ abandoned \subseteq Invitations
      /\ bootstrapMarker \in Users \union {NO_ONE}
  BY CallTypes
     DEF CreateMember, WriteMember, BootstrapTransaction, At, CallSafe, MembershipInv, MembershipTypeOK
<1>1. CASE UNCHANGED <<members, bootstrapMarker>> /\ members[u] # NO_ONE
  BY <1>0, <1>1, OnlyCallMoves DEF EndCall
<1>2. CASE CreateMember(c) /\ members[u] = NO_ONE
  <2> DEFINE row == NewMember(calls[c].role, calls[c].inv)
  <2>1. /\ members' = [members EXCEPT ![u] = row] /\ UNCHANGED bootstrapMarker
        /\ bootstrapMarker # NO_ONE
    BY <1>0, <1>2 DEF CreateMember, CallSafe, At
  <2>2. row \in MembershipRecord /\ row.invitation = calls[c].inv
    BY <1>0, <1>2, MembershipAssumption
       DEF CreateMember, At, CallSafe, Call, NewMember, MembershipRecord, MemberStatuses
  <2>3. row.invitation \in Invitations => Consumed(row.invitation, u)
    BY <1>0, <1>2, <2>2, MembershipAssumption DEF CreateMember, At, CallSafe
  <2> HIDE DEF row
  <2>4. MemberMoves(members[u], row)
    BY <1>2, <2>2, NoOneIsNoRow DEF MemberMoves
  <2> QED BY <1>0, <2>1, <2>2, <2>3, <2>4, MemberWritten
<1>3. CASE WriteMember(c) /\ VersionMatches(c)
  <2> DEFINE row == Changed(members[u], calls[c])
  <2>1. /\ members' = [members EXCEPT ![u] = row] /\ UNCHANGED bootstrapMarker
        /\ bootstrapMarker # NO_ONE
        /\ members[u] # NO_ONE /\ members[u].version < MaxMemberVersion
        /\ members[u] \in MembershipRecord
    BY <1>0, <1>3 DEF WriteMember, VersionMatches, CallSafe, At
  <2>2. row \in MembershipRecord /\ row.version = members[u].version + 1
    BY <1>0, <2>1, MembershipAssumption DEF Call, Changed, MembershipRecord
  <2>3. row.invitation \in Invitations => Consumed(row.invitation, u)
    <3>1. CASE calls[c].inv = NO_ONE
      <4>1. row.invitation = members[u].invitation
        BY <3>1 DEF Changed
      <4> QED BY <1>0, <2>1, <4>1 DEF MembershipInv, StampedMembershipIsEarned, Consumed
    <3>2. CASE calls[c].inv # NO_ONE
      BY <1>0, <1>3, <3>2 DEF WriteMember, At, CallSafe, Changed
    <3> QED BY <3>1, <3>2
  <2> HIDE DEF row
  <2>4. MemberMoves(members[u], row)
    BY <2>1, <2>2, NoOneIsNoRow DEF MemberMoves
  <2> QED BY <1>0, <2>1, <2>2, <2>3, <2>4, MemberWritten
<1>4. CASE BootstrapTransaction(c) /\ BootstrapCondition(u)
  <2> DEFINE row == NewMember("tenant_owner", NO_ONE)
  <2>1. /\ members' = [members EXCEPT ![u] = row] /\ bootstrapMarker' = u
        /\ bootstrapMarker = NO_ONE /\ members[u] = NO_ONE
    BY <1>0, <1>4 DEF BootstrapTransaction, BootstrapCondition
  <2>2. row \in MembershipRecord /\ row.invitation = NO_ONE
    BY MembershipAssumption DEF NewMember, MembershipRecord, MemberStatuses
  <2> HIDE DEF row
  <2>3. MemberMoves(members[u], row)
    BY <2>1, <2>2, NoOneIsNoRow DEF MemberMoves
  <2> QED BY <1>0, <2>1, <2>2, <2>3, MembershipAssumption, MemberWritten
<1>5. CASE BootstrapTransaction(c) /\ ~BootstrapCondition(u)
  <2>1. UNCHANGED <<members, bootstrapMarker>> /\ ~Activating(c)
    BY <1>5 DEF BootstrapTransaction, Activating, At
  <2> QED BY <1>0, <2>1, OnlyCallMoves DEF EndCall
<1>6. CASE WriteMember(c) /\ ~VersionMatches(c)
  BY <1>0, <1>1, <1>6 DEF WriteMember, At, CallSafe
<1> QED BY <1>1, <1>2, <1>3, <1>4, <1>5, <1>6 DEF CreateMember

\* The steps that write an invitation.
LEMMA InvitationsWritten ==
  ASSUME MembershipInv, NEW c \in MembershipCalls,
         InviteMember(c) \/ WriteCancelled(c) \/ MarkAccepted(c)
  PROVE  MembershipInv'
<1>0. /\ calls[c] \in Call /\ CallSafe(calls[c]) /\ CallSafe(NoCall) /\ NoCall \in Call
      /\ UNCHANGED <<members, memberIndex, bootstrapMarker, abandoned>>
      /\ calls \in [MembershipCalls -> Call]
      /\ (~Activating(c) \/ UNCHANGED calls)
      /\ MembershipTypeOK /\ abandoned \subseteq Invitations
      /\ invitations \in [Invitations -> InvitationRecord \union {NO_ONE}]
  BY CallTypes
     DEF InviteMember, WriteCancelled, MarkAccepted, MembershipInv, MembershipTypeOK, Activating, At
<1>1. ASSUME NEW i \in Invitations, NEW row \in InvitationRecord, NEW call, call \in Call,
             invitations' = [invitations EXCEPT ![i] = row],
             InvitationMoves(invitations[i], row),
             (UNCHANGED calls /\ call = calls[c]) \/ CallGoesOn(c, call), CallSafe(call)',
             bootstrapMarker # NO_ONE,
             row.status = "ACCEPTED" => call.inv = i /\ call.pc = "getMember"
      PROVE  MembershipInv'
  <2>1. MembershipTypeOK'
    BY <1>0, <1>1 DEF MembershipTypeOK, CallGoesOn
  <2>2. (invitations')[i] = row /\ \A k \in Invitations \ {i} : (invitations')[k] = invitations[k]
    BY <1>0, <1>1
  <2>3. RowsMove
    BY <1>0, <1>1, <2>2 DEF RowsMove, MemberMoves, InvitationMoves
  <2>4. calls'[c] = call /\ \A d \in MembershipCalls \ {c} : calls'[d] = calls[d]
    <3>1. CASE UNCHANGED calls /\ call = calls[c]
      BY <3>1
    <3>2. CASE CallGoesOn(c, call)
      BY <1>0, <3>2 DEF CallGoesOn
    <3> QED BY <1>1, <3>1, <3>2
  <2>5. AcceptancesGoOn
    BY <1>0, <2>4 DEF AcceptancesGoOn, Activating
  <2>6. CallSafe(calls[c])'
    BY <1>1, <2>4 DEF CallSafe, Consumed
  <2>7. StampsAreEarned
    BY <1>0 DEF StampsAreEarned
  <2>8. NothingBeforeBootstrap'
    BY <1>0, <1>1 DEF NothingBeforeBootstrap
  <2>9. row.status = "ACCEPTED" => calls'[c].inv = i /\ Activating(c)'
    BY <1>1, <2>4, MembershipAssumption DEF Activating
  <2> QED BY <1>0, <2>1, <2>2, <2>3, <2>4, <2>5, <2>6, <2>7, <2>8, <2>9, MembershipMoves
<1>2. CASE InviteMember(c)
  <2>1. PICK role \in TenantRoles, i \in Invitations :
          /\ bootstrapMarker # NO_ONE /\ invitations[i] = NO_ONE /\ UNCHANGED calls
          /\ invitations' = [invitations EXCEPT ![i] =
               [status |-> "PENDING", role |-> role, by |-> NO_ONE, version |-> 1]]
    BY <1>2 DEF InviteMember, IsManager, MembershipInv, NothingBeforeBootstrap
  <2> DEFINE row == [status |-> "PENDING", role |-> role, by |-> NO_ONE, version |-> 1]
  <2>2. row \in InvitationRecord /\ row.status = "PENDING" /\ row.version = 1
    BY DEF InvitationRecord
  <2> HIDE DEF row
  <2>3. invitations' = [invitations EXCEPT ![i] = row]
    BY <2>1 DEF row
  <2>4. InvitationMoves(invitations[i], row)
    BY <2>1, <2>2, NoOneIsNoRow DEF InvitationMoves
  <2>5. PICK call \in Call : call = calls[c]
    BY <1>0
  <2>6. CallSafe(call)'
    <3>1. RowsMove
      BY <1>0, <2>3, <2>4 DEF RowsMove, MemberMoves, InvitationMoves
    <3>2. MembershipTypeOK'
      BY <1>0, <2>1, <2>2, <2>3 DEF MembershipTypeOK
    <3> QED BY <1>0, <2>5, <3>1, <3>2, CallStays
  <2> QED BY <1>1, <2>1, <2>2, <2>3, <2>4, <2>5, <2>6
<1>3. CASE WriteCancelled(c) /\ invitations[calls[c].inv].version = calls[c].version
  <2>0. PICK i \in Invitations : i = calls[c].inv /\ invitations[i] # NO_ONE /\ bootstrapMarker # NO_ONE
                                 /\ invitations[i].version = 1 /\ calls[c].pc = "cancel"
    BY <1>0, <1>3 DEF WriteCancelled, At, CallSafe
  <2>1. PICK row : row = [status |-> "CANCELLED", role |-> invitations[i].role,
                          by |-> invitations[i].by, version |-> 2]
    OBVIOUS
  <2>2. invitations[i] \in InvitationRecord /\ invitations[i].status = "PENDING"
    BY <1>0, <2>0 DEF MembershipInv, InvitationShape
  <2>3. row \in InvitationRecord /\ row.status = "CANCELLED" /\ row.version = 2
    BY <2>1, <2>2 DEF InvitationRecord
  <2>4. invitations' = [invitations EXCEPT ![i] = row]
    BY <1>3, <2>0, <2>1 DEF WriteCancelled
  <2>5. InvitationMoves(invitations[i], row)
    BY <2>0, <2>2, <2>3, NoOneIsNoRow DEF InvitationMoves
  <2>6. PICK call \in Call : call = NoCall
    BY <1>0
  <2>7. CallSafe(call)' /\ CallGoesOn(c, call)
    BY <1>0, <1>3, <2>6, CallTypes DEF CallSafe, WriteCancelled, EndCall
  <2> QED BY <1>1, <2>0, <2>3, <2>4, <2>5, <2>6, <2>7
<1>4. CASE MarkAccepted(c) /\ Acceptable(calls[c].inv)
  <2>0. PICK i \in Invitations, u \in Users :
          /\ i = calls[c].inv /\ u = calls[c].user /\ invitations[i] # NO_ONE /\ bootstrapMarker # NO_ONE
          /\ invitations[i].status = "PENDING"
    BY <1>0, <1>4 DEF MarkAccepted, At, CallSafe, Acceptable
  <2>1. PICK row : row = [status |-> "ACCEPTED", role |-> invitations[i].role,
                          by |-> u, version |-> 2]
    OBVIOUS
  <2>2. invitations[i] \in InvitationRecord /\ invitations[i].version = 1
    BY <1>0, <2>0 DEF MembershipInv, InvitationShape
  <2>3. /\ row \in InvitationRecord /\ row.status = "ACCEPTED" /\ row.version = 2 /\ row.by = u
        /\ row # NO_ONE
    BY <2>1, <2>2, NoOneIsNoRow DEF InvitationRecord
  <2>4. invitations' = [invitations EXCEPT ![i] = row]
    BY <1>4, <2>0, <2>1, <2>2 DEF MarkAccepted
  <2>5. InvitationMoves(invitations[i], row)
    BY <2>0, <2>2, <2>3 DEF InvitationMoves
  <2>6. PICK call : call = [calls[c] EXCEPT !.pc = "getMember", !.role = invitations[i].role,
                                             !.status = "ACTIVE"]
    OBVIOUS
  <2>7. /\ call \in Call /\ call.pc = "getMember" /\ call.inv = i /\ call.user = u
        /\ call.role \in TenantRoles
    BY <1>0, <2>0, <2>2, <2>6 DEF Call, CallStates, InvitationRecord, MemberStatuses
  <2>8. CallGoesOn(c, call)
    BY <1>4, <2>0, <2>6 DEF MarkAccepted
  <2>9. CallSafe(call)'
    <3>1. (invitations')[i] = row
      BY <1>0, <2>4
    <3> QED BY <1>0, <2>0, <2>3, <2>7, <3>1 DEF CallSafe, Consumed
  <2> QED BY <1>1, <2>0, <2>3, <2>4, <2>5, <2>7, <2>8, <2>9
<1>5. CASE EndCall(c) /\ UNCHANGED invitations /\ ~Activating(c)
  BY <1>0, <1>5, OnlyCallMoves DEF EndCall
<1> QED BY <1>2, <1>3, <1>4, <1>5 DEF WriteCancelled, MarkAccepted, Activating, At

LEMMA IndexMoves ==
  ASSUME MembershipInv, NEW u \in Users, IndexCatchesUp(u)
  PROVE  MembershipInv'
<1>1. /\ MembershipTypeOK /\ NothingBeforeBootstrap
      /\ UNCHANGED <<members, bootstrapMarker, invitations, calls, abandoned>>
      /\ memberIndex' = [memberIndex EXCEPT ![u] = members[u]]
  BY DEF IndexCatchesUp, MembershipInv
<1>2. memberIndex'[u] = members[u] /\ \A v \in Users \ {u} : memberIndex'[v] = memberIndex[v]
  BY <1>1 DEF MembershipTypeOK
<1>3. MembershipTypeOK'
  BY <1>1 DEF MembershipTypeOK
<1>4. \A c \in MembershipCalls : CallSafe(calls[c])'
  BY <1>1 DEF MembershipInv, CallSafe, Consumed
<1>5. IndexLags'
  <2>1. members[u] # NO_ONE => members[u].version \in Nat
    BY <1>1, MembershipAssumption DEF MembershipTypeOK, MembershipRecord
  <2> QED BY <1>1, <1>2, <2>1 DEF MembershipInv, IndexLags
<1>6. NothingBeforeBootstrap'
  BY <1>1, <1>2 DEF NothingBeforeBootstrap
<1>7. (InvitationShape /\ AcceptanceIsAccountedFor /\ StampedMembershipIsEarned)'
  BY <1>1 DEF MembershipInv, InvitationShape, AcceptanceIsAccountedFor, StampedMembershipIsEarned,
              Activating
<1> QED BY <1>3, <1>4, <1>5, <1>6, <1>7 DEF MembershipInv

LEMMA MembershipInvInit ==
  ASSUME MembershipInit
  PROVE  MembershipInv
<1>1. NoCall \in Call /\ NoCall.pc = "idle"
  BY MembershipAssumption DEF NoCall, Call, CallStates
<1>2. MembershipTypeOK
  BY <1>1 DEF MembershipInit, MembershipTypeOK
<1>3. \A c \in MembershipCalls : CallSafe(calls[c])
  BY <1>1 DEF MembershipInit, CallSafe
<1> QED BY <1>2, <1>3
        DEF MembershipInit, MembershipInv, IndexLags, InvitationShape, NothingBeforeBootstrap,
            AcceptanceIsAccountedFor, StampedMembershipIsEarned

LEMMA MembershipInvNext ==
  ASSUME MembershipInv, [MembershipNext]_membershipVars
  PROVE  MembershipInv'
<1>1. CASE UNCHANGED membershipVars
  BY <1>1 DEF membershipVars, MembershipInv, MembershipTypeOK, CallSafe, Consumed, IndexLags, InvitationShape,
              NothingBeforeBootstrap, AcceptanceIsAccountedFor, StampedMembershipIsEarned, Activating
<1>2. CASE MembershipNext
  BY <1>2, CallsBegin, CallsRead, CallsWrite, InvitationsWritten, IndexMoves DEF MembershipNext
<1> QED BY <1>1, <1>2

\* What every call on members and invitations has read still holds, or its write fails: the
\* invariant behind the theorems about memberships.
THEOREM MembershipInvariant == MembershipSpec => []MembershipInv
<1>1. MembershipInit => MembershipInv
  BY MembershipInvInit
<1>2. MembershipInv /\ [MembershipNext]_membershipVars => MembershipInv'
  BY MembershipInvNext
<1> QED BY <1>1, <1>2, PTL DEF MembershipSpec

\* The client of the call c named the version of the row of u, and the call writes it.
Names(c, u) ==
  /\ At(c, "write") /\ ~At(c, "write")' /\ calls[c].named
  /\ calls[c].user = u /\ calls[c].version = members[u].version

\* A row is written only where there is none, where it is not removed, or by its name.
LEMMA RemovedRowsStay ==
  ASSUME MembershipInv, [MembershipNext]_membershipVars, NEW u \in Users,
         members[u] # NO_ONE, members[u].status = "REMOVED", members'[u] # members[u]
  PROVE  \E c \in MembershipCalls : Names(c, u)
<1>1. ASSUME NEW c \in MembershipCalls,
             CreateMember(c) \/ WriteMember(c) \/ BootstrapTransaction(c)
      PROVE  Names(c, u)
  <2>1. /\ CallSafe(calls[c]) /\ members \in [Users -> MembershipRecord \union {NO_ONE}]
        /\ calls[c].user \in Users /\ calls \in [MembershipCalls -> Call] /\ NoCall.pc = "idle"
        /\ EndCall(c)
    BY <1>1, CallTypes
       DEF CallSafe, CreateMember, WriteMember, BootstrapTransaction, At, MembershipInv, MembershipTypeOK
  <2>2. calls[c].user = u
    BY <1>1, <2>1 DEF CreateMember, WriteMember, BootstrapTransaction
  <2>3. WriteMember(c) /\ VersionMatches(c)
    BY <1>1, <2>2 DEF CreateMember, WriteMember, BootstrapTransaction, BootstrapCondition
  <2>4. At(c, "write") /\ calls[c].version = members[u].version
    BY <2>2, <2>3 DEF WriteMember, VersionMatches
  <2>5. calls[c].named
    BY <2>1, <2>2, <2>4 DEF CallSafe, At
  <2>6. ~At(c, "write")'
    BY <2>1 DEF EndCall, CallGoesOn, At
  <2> QED BY <2>2, <2>4, <2>5, <2>6 DEF Names
<1>2. ~ \A c \in MembershipCalls : ~(CreateMember(c) \/ WriteMember(c) \/ BootstrapTransaction(c))
  BY DEF MembershipNext, membershipVars, AddMember, ChangeMember, InviteMember, CancelInvitation,
         WriteCancelled, AcceptInvitation, MarkAccepted, ActivateMembership, BootstrapFirstOwner,
         CallDies, IndexCatchesUp
<1> QED BY <1>1, <1>2

LEMMA MarkerMoves ==
  ASSUME MembershipInv, [MembershipNext]_membershipVars, bootstrapMarker' # bootstrapMarker
  PROVE  bootstrapMarker = NO_ONE /\ \A u \in Users : members[u] = NO_ONE
<1>1. ~ \A c \in MembershipCalls : ~BootstrapTransaction(c)
  BY DEF MembershipNext, membershipVars, AddMember, CreateMember, ChangeMember, WriteMember,
         InviteMember, CancelInvitation, WriteCancelled, AcceptInvitation, MarkAccepted,
         ActivateMembership, BootstrapFirstOwner, CallDies, IndexCatchesUp
<1> QED BY <1>1 DEF BootstrapTransaction, BootstrapCondition, MembershipInv, NothingBeforeBootstrap

-----------------------------------------------------------------------------
(* Memberships: the theorems.                                              *)

\* The rows, the index, the marker, the invitations and the calls keep their types.
THEOREM MembershipTypes == MembershipSpec => []MembershipTypeOK
<1>1. MembershipInv => MembershipTypeOK
  BY DEF MembershipInv
<1> QED BY <1>1, MembershipInvariant, PTL

\* No acceptance loses a member: whoever consumed an invitation (acceptInvitation) has a
\* row, or the call that consumed it is still about to write it or has died.
THEOREM AcceptancesAreAccountedFor == MembershipSpec => []AcceptanceIsAccountedFor
<1>1. MembershipInv => AcceptanceIsAccountedFor
  BY DEF MembershipInv
<1> QED BY <1>1, MembershipInvariant, PTL

\* No membership names an invitation that somebody else consumed, or that was cancelled
\* while it was being accepted (markAccepted).
THEOREM StampedMembershipsAreEarned == MembershipSpec => []StampedMembershipIsEarned
<1>1. MembershipInv => StampedMembershipIsEarned
  BY DEF MembershipInv
<1> QED BY <1>1, MembershipInvariant, PTL

\* However many first-owner calls passed the check, one transaction makes the first owner
\* and it finds no member (bootstrapFirstOwner).
THEOREM TenantIsBootstrappedOnce == MembershipSpec => OneBootstrap
<1>1. MembershipInv /\ [MembershipNext]_membershipVars =>
        [bootstrapMarker' # bootstrapMarker =>
           bootstrapMarker = NO_ONE /\ \A u \in Users : members[u] = NO_ONE]_membershipVars
  BY MarkerMoves
<1> QED BY <1>1, MembershipInvariant, PTL DEF MembershipSpec, OneBootstrap

\* Of all that may overlap with a removal only one call changes the removed member: one
\* whose client named the version of the removed row.  An update under the version of a stale
\* index is refused, and so is an acceptance, whatever it read before (updateMember).
THEOREM RemovedMembersStay == MembershipSpec => RemovedStaysUnlessNamed
<1>1. MembershipInv /\ [MembershipNext]_membershipVars =>
        [\A u \in Users :
           members[u] # NO_ONE /\ members[u].status = "REMOVED" /\ members'[u] # members[u] =>
             \E c \in MembershipCalls :
               /\ At(c, "write") /\ ~At(c, "write")' /\ calls[c].named
               /\ calls[c].user = u /\ calls[c].version = members[u].version]_membershipVars
  BY RemovedRowsStay DEF Names
<1> QED BY <1>1, MembershipInvariant, PTL DEF MembershipSpec, RemovedStaysUnlessNamed

-----------------------------------------------------------------------------
(* Onboarding: the invariant.                                              *)

\* What a call knows of its tenant between two of its accesses: a write that names the
\* version the row still has finds the owner and the status that were read with it.
TenantCallSafe(call) ==
  LET t == call.tenant
  IN /\ call \in TenantCall
     /\ call.step # "idle" =>
          t \in TenantIds /\ InRegistry(t) /\ call.version <= tenants[t].version
     /\ call.step \in {"assign", "activate", "patch", "bootstrap"} => call.owner \in Owners
     /\ call.step \in {"assign", "activate"} /\ call.version = tenants[t].version =>
          call.owner = tenants[t].owner
     /\ call.step = "transition" => call.status \in TenantStatuses
     /\ call.step = "transition" /\ call.version = tenants[t].version =>
          call.status \in TenantAllowedTransitions[tenants[t].status]
     /\ call.step = "bootstrap" => tenants[t].status # "PROVISIONING"

FirstOwnersOfOnboarded ==
  \A t \in TenantIds : firstOwners[t] # NOBODY =>
    InRegistry(t) /\ tenants[t].status # "PROVISIONING"

OnboardingInv ==
  /\ OnboardingTypeOK
  /\ \A c \in TenantCalls : TenantCallSafe(tenantCalls[c])
  /\ FirstOwnersOfOnboarded

\* A row is put once; an update keeps its slug, counts its version and moves its status
\* along the lifecycle.
TenantMoves(old, new) ==
  \/ new = old
  \/ /\ new \in TenantRecord
     /\ old # NOBODY =>
          /\ new.version = old.version + 1 /\ new.slug = old.slug
          /\ new.status = old.status \/ new.status \in TenantAllowedTransitions[old.status]

LEMMA NothingReturnsToProvisioning ==
  ASSUME NEW status \in TenantStatuses
  PROVE  TenantAllowedTransitions[status] \subseteq TenantStatuses \ {"PROVISIONING"}
<1>1. /\ TenantAllowedTransitions["PROVISIONING"] = {"ACTIVE", "DELETED"}
      /\ TenantAllowedTransitions["ACTIVE"] = {"SUSPENDED", "ARCHIVED"}
      /\ TenantAllowedTransitions["SUSPENDED"] = {"ACTIVE", "ARCHIVED"}
      /\ TenantAllowedTransitions["ARCHIVED"] = {"DELETED"}
      /\ TenantAllowedTransitions["DELETED"] = {}
  BY DEF TenantAllowedTransitions
<1> QED BY <1>1 DEF TenantStatuses

\* What a call knows stays true while the rows move.
LEMMA TenantCallStays ==
  ASSUME OnboardingTypeOK, \A t \in TenantIds : TenantMoves(tenants[t], tenants'[t]),
         NEW call, TenantCallSafe(call)
  PROVE  TenantCallSafe(call)'
<1>1. CASE call.step = "idle"
  BY <1>1 DEF TenantCallSafe
<1>2. CASE call.step # "idle"
  <2>1. PICK t \in TenantIds : t = call.tenant
    BY <1>2 DEF TenantCallSafe
  <2>2. /\ tenants[t] # NOBODY /\ tenants[t] \in TenantRecord /\ call.version \in Nat
        /\ tenants[t].version \in Nat /\ call.version <= tenants[t].version
    BY <1>2, <2>1, OnboardingAssumption
       DEF TenantCallSafe, InRegistry, OnboardingTypeOK, TenantRecord, TenantCall
  <2>3. CASE tenants'[t] = tenants[t]
    BY <1>2, <2>1, <2>3 DEF TenantCallSafe, InRegistry
  <2>4. CASE tenants'[t] # tenants[t]
    <3>1. /\ tenants'[t] # NOBODY /\ call.version < tenants'[t].version
          /\ tenants'[t].status = tenants[t].status
               \/ tenants'[t].status \in TenantAllowedTransitions[tenants[t].status]
      BY <2>2, <2>4, NobodyIsNoTenant DEF TenantMoves
    <3>2. tenants[t].status # "PROVISIONING" => tenants'[t].status # "PROVISIONING"
      BY <2>2, <3>1, NothingReturnsToProvisioning DEF TenantRecord
    <3> HIDE DEF TenantMoves
    <3>3. call.version <= tenants'[t].version /\ call.version # tenants'[t].version
      BY <2>2, <3>1, <2>4, NobodyIsNoTenant, OnboardingAssumption DEF TenantMoves, TenantRecord
    <3> QED BY <1>2, <2>1, <3>1, <3>2, <3>3 DEF TenantCallSafe, InRegistry
  <2> QED BY <2>3, <2>4
<1> QED BY <1>1, <1>2

\* A step of one call.
LEMMA TenantCallMoves ==
  ASSUME OnboardingInv, NEW c \in TenantCalls, NEW call, TenantCallSafe(call)', Proceed(c, call),
         \A t \in TenantIds : TenantMoves(tenants[t], tenants'[t]),
         tenants' \in [TenantIds -> TenantRecord \union {NOBODY}],
         slugs' \in [Slugs -> TenantIds \union {NOBODY}],
         \A t \in TenantIds : InRegistry(t)' => slugs'[tenants'[t].slug] = t,
         cognito' \in [Owners -> TenantIds \union {NOBODY}],
         UNCHANGED <<tokens, firstOwners>>
  PROVE  OnboardingInv'
<1>1. OnboardingTypeOK /\ tenantCalls \in [TenantCalls -> TenantCall] /\ call \in TenantCall
  BY DEF OnboardingInv, OnboardingTypeOK, TenantCallSafe
<1>2. tenantCalls'[c] = call /\ \A d \in TenantCalls \ {c} : tenantCalls'[d] = tenantCalls[d]
  BY <1>1 DEF Proceed
<1>3. OnboardingTypeOK'
  BY <1>1 DEF OnboardingTypeOK, Proceed
<1>4. ASSUME NEW d \in TenantCalls PROVE TenantCallSafe(tenantCalls[d])'
  <2>1. CASE d = c
    BY <1>2, <2>1 DEF TenantCallSafe, InRegistry
  <2>2. CASE d # c
    <3>1. PICK k : k = tenantCalls[d]
      OBVIOUS
    <3>2. TenantCallSafe(k)
      BY <3>1 DEF OnboardingInv
    <3>3. TenantCallSafe(k)'
      BY <1>1, <3>2, TenantCallStays
    <3> QED BY <1>2, <2>2, <3>1, <3>3 DEF TenantCallSafe, InRegistry
  <2> QED BY <2>1, <2>2
<1>5. FirstOwnersOfOnboarded'
  <2> SUFFICES ASSUME NEW t \in TenantIds, firstOwners[t] # NOBODY
               PROVE  tenants'[t] # NOBODY /\ tenants'[t].status # "PROVISIONING"
    BY DEF FirstOwnersOfOnboarded, InRegistry
  <2>1. /\ tenants[t] # NOBODY /\ tenants[t].status # "PROVISIONING" /\ tenants[t].status \in TenantStatuses
    BY <1>1 DEF OnboardingInv, FirstOwnersOfOnboarded, InRegistry, OnboardingTypeOK, TenantRecord
  <2> QED BY <2>1, NobodyIsNoTenant, NothingReturnsToProvisioning DEF TenantMoves
<1> QED BY <1>3, <1>4, <1>5 DEF OnboardingInv

\* The steps that leave the registry as it is.
LEMMA RegistryStays ==
  ASSUME OnboardingInv, NEW c \in TenantCalls, NEW call, TenantCallSafe(call), Proceed(c, call),
         UNCHANGED <<tenants, slugs, tokens, firstOwners>>,
         cognito' \in [Owners -> TenantIds \union {NOBODY}]
  PROVE  OnboardingInv'
<1>1. TenantCallSafe(call)'
  BY DEF TenantCallSafe, InRegistry
<1>2. \A t \in TenantIds : TenantMoves(tenants[t], tenants'[t])
  BY DEF TenantMoves
<1> QED BY <1>1, <1>2, TenantCallMoves DEF OnboardingInv, OnboardingTypeOK, InRegistry

LEMMA TenantCallTypes ==
  ASSUME OnboardingInv, NEW c \in TenantCalls
  PROVE  /\ tenantCalls \in [TenantCalls -> TenantCall]
         /\ tenantCalls[c] \in TenantCall /\ TenantCallSafe(tenantCalls[c])
         /\ NoTenantCall \in TenantCall /\ NoTenantCall.version = 0 /\ TenantCallSafe(NoTenantCall)
<1>1. NoTenantCall \in TenantCall /\ NoTenantCall.step = "idle" /\ NoTenantCall.version = 0
  BY OnboardingAssumption DEF NoTenantCall, TenantCall
<1>2. TenantCallSafe(NoTenantCall)
  BY <1>1 DEF TenantCallSafe
<1> QED BY <1>1, <1>2 DEF OnboardingInv, OnboardingTypeOK

\* A call begins on a row it read: what it knows of it is true.
LEMMA TenantCallsBegin ==
  ASSUME OnboardingInv, NEW c \in TenantCalls,
         CompleteOnboarding(c) \/ TransitionTenant(c) \/ PatchTenant(c) \/ BootstrapOwner(c)
  PROVE  OnboardingInv'
<1>0. /\ NoTenantCall \in TenantCall /\ NoTenantCall.version = 0
      /\ UNCHANGED <<tenants, slugs, cognito, tokens, firstOwners>>
      /\ OnboardingTypeOK
  BY TenantCallTypes
     DEF CompleteOnboarding, TransitionTenant, PatchTenant, BootstrapOwner, OnboardingInv
<1>1. (\E call : TenantCallSafe(call) /\ Proceed(c, call)) => OnboardingInv'
  BY <1>0, RegistryStays DEF OnboardingTypeOK
<1>2. ASSUME NEW t \in TenantIds, InRegistry(t)
      PROVE  /\ tenants[t] \in TenantRecord /\ tenants[t].version \in 1 .. MaxTenantVersion
             /\ tenants[t].version \in 0 .. MaxTenantVersion /\ tenants[t].version \in Nat
             /\ tenants[t].owner \in Owners /\ tenants[t].status \in TenantStatuses
  BY <1>0, <1>2, OnboardingAssumption DEF OnboardingTypeOK, InRegistry, TenantRecord
<1>3. CASE CompleteOnboarding(c)
  <2>1. PICK t \in TenantIds :
          InRegistry(t) /\ Proceed(c, [Reading(t, "assign") EXCEPT !.owner = tenants[t].owner])
    BY <1>3 DEF CompleteOnboarding
  <2>2. PICK call : call = [Reading(t, "assign") EXCEPT !.owner = tenants[t].owner]
    OBVIOUS
  <2>3. /\ call \in TenantCall /\ call.step = "assign" /\ call.tenant = t
        /\ call.version = tenants[t].version /\ call.owner = tenants[t].owner
    BY <1>0, <1>2, <2>1, <2>2 DEF TenantCall, Reading
  <2>4. TenantCallSafe(call)
    BY <1>2, <2>1, <2>3 DEF TenantCallSafe
  <2> QED BY <1>1, <2>1, <2>2, <2>4
<1>4. CASE TransitionTenant(c)
  <2>1. PICK t \in TenantIds, next \in {"SUSPENDED", "ACTIVE", "ARCHIVED", "DELETED"} :
          /\ InRegistry(t) /\ next \in TenantAllowedTransitions[tenants[t].status]
          /\ Proceed(c, [Reading(t, "transition") EXCEPT !.status = next])
    BY <1>4 DEF TransitionTenant
  <2>2. PICK call : call = [Reading(t, "transition") EXCEPT !.status = next]
    OBVIOUS
  <2>3. /\ call \in TenantCall /\ call.step = "transition" /\ call.tenant = t
        /\ call.version = tenants[t].version /\ call.status = next /\ next \in TenantStatuses
    BY <1>0, <1>2, <2>1, <2>2 DEF TenantCall, Reading, TenantStatuses
  <2>4. TenantCallSafe(call)
    BY <1>2, <2>1, <2>3 DEF TenantCallSafe
  <2> QED BY <1>1, <2>1, <2>2, <2>4
<1>5. CASE PatchTenant(c)
  <2>1. PICK t \in TenantIds, u \in Owners :
          InRegistry(t) /\ Proceed(c, [Reading(t, "patch") EXCEPT !.owner = u])
    BY <1>5 DEF PatchTenant
  <2>2. PICK call : call = [Reading(t, "patch") EXCEPT !.owner = u]
    OBVIOUS
  <2>3. /\ call \in TenantCall /\ call.step = "patch" /\ call.tenant = t
        /\ call.version = tenants[t].version /\ call.owner = u
    BY <1>0, <1>2, <2>1, <2>2 DEF TenantCall, Reading
  <2>4. TenantCallSafe(call)
    BY <1>2, <2>1, <2>3 DEF TenantCallSafe
  <2> QED BY <1>1, <2>1, <2>2, <2>4
<1>6. CASE BootstrapOwner(c)
  <2>1. PICK u \in Owners :
          /\ tokens[u] # NOBODY /\ EligibleForOwnerBootstrap(tokens[u])
          /\ Proceed(c, [NoTenantCall EXCEPT !.step = "bootstrap", !.tenant = tokens[u], !.owner = u])
    BY <1>6 DEF BootstrapOwner
  <2>2. PICK t \in TenantIds : t = tokens[u] /\ InRegistry(t) /\ tenants[t].status = "ACTIVE"
    BY <1>0, <2>1 DEF OnboardingTypeOK, EligibleForOwnerBootstrap
  <2>3. PICK call : call = [NoTenantCall EXCEPT !.step = "bootstrap", !.tenant = t, !.owner = u]
    OBVIOUS
  <2>4. /\ call \in TenantCall /\ call.step = "bootstrap" /\ call.tenant = t
        /\ call.version = 0 /\ call.owner = u
    BY <1>0, <2>3 DEF TenantCall
  <2>5. TenantCallSafe(call)
    BY <1>2, <2>2, <2>4 DEF TenantCallSafe
  <2> QED BY <1>1, <2>1, <2>2, <2>3, <2>5
<1> QED BY <1>3, <1>4, <1>5, <1>6

\* The steps around a write: Cognito is assigned, the memberships bootstrapped, a call dies.
LEMMA TenantCallsGoOn ==
  ASSUME OnboardingInv, NEW c \in TenantCalls,
         AssignOwner(c) \/ TenantCallDies(c) \/ BootstrapMembership(c)
  PROVE  OnboardingInv'
<1> DEFINE k == tenantCalls[c]
<1>0. k \in TenantCall /\ TenantCallSafe(k) /\ TenantCallSafe(NoTenantCall) /\ OnboardingTypeOK
  BY TenantCallTypes DEF OnboardingInv
<1>1. CASE AssignOwner(c)
  <2>1. k.step = "assign" /\ k.tenant \in TenantIds /\ k.owner \in Owners
    BY <1>0, <1>1 DEF AssignOwner, TenantCallSafe
  <2>2. cognito' \in [Owners -> TenantIds \union {NOBODY}]
    BY <1>0, <1>1, <2>1 DEF AssignOwner, AssignTenantToUser, OnboardingTypeOK
  <2>3. PICK call : call = [k EXCEPT !.step = "activate", !.version = k.version]
    OBVIOUS
  <2>4. /\ call \in TenantCall /\ call.step = "activate" /\ call.tenant = k.tenant
        /\ call.version = k.version /\ call.owner = k.owner
    BY <1>0, <2>3 DEF TenantCall
  <2>5. TenantCallSafe(call)
    BY <1>0, <2>1, <2>4 DEF TenantCallSafe
  <2>6. Proceed(c, call) \/ Proceed(c, NoTenantCall)
    BY <1>1, <2>3 DEF AssignOwner, ThenStep, Answer
  <2> QED BY <1>0, <1>1, <2>2, <2>5, <2>6, RegistryStays DEF AssignOwner
<1>2. CASE TenantCallDies(c)
  BY <1>0, <1>2, RegistryStays DEF TenantCallDies, Answer, OnboardingTypeOK
<1>3. CASE BootstrapMembership(c)
  <2>1. /\ k.tenant \in TenantIds /\ k.owner \in Owners /\ InRegistry(k.tenant)
        /\ tenants[k.tenant].status # "PROVISIONING"
        /\ Proceed(c, NoTenantCall) /\ UNCHANGED <<tenants, slugs, cognito, tokens>>
    BY <1>0, <1>3 DEF BootstrapMembership, TenantCallSafe, Answer
  <2>2. /\ firstOwners' \in [TenantIds -> Owners \union {NOBODY}]
        /\ \A t \in TenantIds \ {k.tenant} : firstOwners'[t] = firstOwners[t]
    BY <1>0, <1>3, <2>1 DEF BootstrapMembership, OnboardingTypeOK
  <2>3. FirstOwnersOfOnboarded'
    BY <2>1, <2>2 DEF OnboardingInv, FirstOwnersOfOnboarded, InRegistry
  <2>4. OnboardingTypeOK'
    BY <1>0, <2>1, <2>2, TenantCallTypes DEF OnboardingTypeOK, Proceed, InRegistry
  <2>5. ASSUME NEW d \in TenantCalls PROVE TenantCallSafe(tenantCalls[d])'
    <3>1. tenantCalls'[d] \in {NoTenantCall, tenantCalls[d]}
      BY <2>1, TenantCallTypes DEF Proceed
    <3> QED BY <1>0, <2>1, <3>1, TenantCallTypes DEF TenantCallSafe, InRegistry
  <2> QED BY <2>3, <2>4, <2>5 DEF OnboardingInv
<1> QED BY <1>1, <1>2, <1>3

\* A versioned update of a row.
LEMMA TenantWritten ==
  ASSUME OnboardingInv, NEW c \in TenantCalls, NEW t \in TenantIds, InRegistry(t),
         NEW row \in TenantRecord, row.version = tenants[t].version, row.slug = tenants[t].slug,
         row.status = tenants[t].status \/ row.status \in TenantAllowedTransitions[tenants[t].status],
         tenantCalls[c].tenant = t, WriteTenant(c, row)
  PROVE  /\ tenants' \in [TenantIds -> TenantRecord \union {NOBODY}]
         /\ \A d \in TenantIds : TenantMoves(tenants[d], tenants'[d])
         /\ \A d \in TenantIds : InRegistry(d)' => InRegistry(d) /\ tenants'[d].slug = tenants[d].slug
         /\ InRegistry(t)' /\ tenants'[t].version = tenants[t].version + 1
<1>1. /\ tenants \in [TenantIds -> TenantRecord \union {NOBODY}] /\ row.version < MaxTenantVersion
      /\ tenants' = [tenants EXCEPT ![t] = [row EXCEPT !.version = @ + 1]]
      /\ tenants[t] \in TenantRecord
  BY DEF OnboardingInv, OnboardingTypeOK, WriteTenant, InRegistry
<1>2. PICK new : new = [row EXCEPT !.version = @ + 1]
  OBVIOUS
<1>3. /\ new \in TenantRecord /\ new.version = tenants[t].version + 1 /\ new.slug = tenants[t].slug
      /\ new.status = row.status /\ new # NOBODY
  BY <1>1, <1>2, OnboardingAssumption, NobodyIsNoTenant DEF TenantRecord
<1>4. tenants'[t] = new /\ \A d \in TenantIds \ {t} : tenants'[d] = tenants[d]
  BY <1>1, <1>2
<1>5. TenantMoves(tenants[t], new)
  BY <1>3 DEF TenantMoves
<1> QED BY <1>1, <1>2, <1>3, <1>4, <1>5 DEF TenantMoves, InRegistry

LEMMA TenantCallsWrite ==
  ASSUME OnboardingInv, NEW c \in TenantCalls,
         ActivateTenant(c) \/ StampAligned(c) \/ TransitionStatus(c) \/ UpdateTenant(c)
  PROVE  /\ OnboardingInv'
         /\ \A d \in TenantIds : TenantMoves(tenants[d], tenants'[d])
<1> DEFINE k == tenantCalls[c]
<1>0. /\ k \in TenantCall /\ TenantCallSafe(k) /\ NoTenantCall.step = "idle" /\ NoTenantCall \in TenantCall
      /\ OnboardingTypeOK /\ UNCHANGED <<slugs, cognito, tokens, firstOwners>>
      /\ k.step \in {"activate", "stamp", "transition", "patch"}
  BY TenantCallTypes
     DEF OnboardingInv, ActivateTenant, StampAligned, TransitionStatus, UpdateTenant, NoTenantCall
<1>1. PICK t \in TenantIds : t = k.tenant /\ InRegistry(t)
  BY <1>0 DEF TenantCallSafe
<1>2. tenants[t] \in TenantRecord
  BY <1>0, <1>1 DEF OnboardingTypeOK, InRegistry
<1>3. CASE UNCHANGED tenants /\ Answer(c)
  BY <1>0, <1>3, TenantCallTypes, RegistryStays DEF Answer, OnboardingTypeOK, TenantMoves
<1>4. ASSUME NEW row \in TenantRecord, row.version = tenants[t].version, row.slug = tenants[t].slug,
             row.status = tenants[t].status \/ row.status \in TenantAllowedTransitions[tenants[t].status],
             WriteTenant(c, row), NEW call, TenantCallSafe(call)', Proceed(c, call)
      PROVE  /\ OnboardingInv'
             /\ \A d \in TenantIds : TenantMoves(tenants[d], tenants'[d])
  BY <1>0, <1>1, <1>4, TenantWritten, TenantCallMoves DEF OnboardingTypeOK
<1>5. TenantCallSafe(NoTenantCall)'
  BY <1>0 DEF TenantCallSafe
<1>6. CASE ActivateTenant(c) /\ TenantVersionHeld(c) /\ "ACTIVE" \in TenantAllowedTransitions[tenants[t].status]
  <2>1. PICK row : row = [tenants[t] EXCEPT !.status = "ACTIVE"]
    OBVIOUS
  <2>2. /\ row \in TenantRecord /\ row.version = tenants[t].version /\ row.slug = tenants[t].slug
        /\ row.status = "ACTIVE"
    BY <1>2, <2>1 DEF TenantRecord, TenantStatuses
  <2>3. WriteTenant(c, row) /\ ThenStep(c, "stamp", tenants[t].version + 1)
    BY <1>1, <1>6, <2>1 DEF ActivateTenant
  <2>4. PICK call : call = [k EXCEPT !.step = "stamp", !.version = tenants[t].version + 1]
    OBVIOUS
  <2>5. /\ InRegistry(t)' /\ tenants'[t].version = tenants[t].version + 1
        /\ tenants[t].version \in 1 .. MaxTenantVersion /\ tenants[t].version < MaxTenantVersion
    BY <1>1, <1>2, <1>6, <2>2, <2>3, TenantWritten DEF WriteTenant, TenantRecord
  <2>6. tenants[t].version + 1 \in 0 .. MaxTenantVersion /\ tenants[t].version + 1 \in Nat
    BY <2>5, OnboardingAssumption
  <2>7. /\ call \in TenantCall /\ call.step = "stamp" /\ call.tenant = t
        /\ call.version = tenants[t].version + 1
    BY <1>0, <1>1, <2>4, <2>6 DEF TenantCall
  <2>8. TenantCallSafe(call)'
    BY <1>1, <2>5, <2>6, <2>7 DEF TenantCallSafe
  <2> QED BY <1>4, <1>6, <2>2, <2>3, <2>4, <2>8 DEF ThenStep
<1>7. CASE StampAligned(c) /\ TenantVersionHeld(c)
  <2>1. PICK row : row = [tenants[t] EXCEPT !.aligned = TRUE]
    OBVIOUS
  <2>2. /\ row \in TenantRecord /\ row.version = tenants[t].version /\ row.slug = tenants[t].slug
        /\ row.status = tenants[t].status
    BY <1>2, <2>1 DEF TenantRecord
  <2> QED BY <1>1, <1>4, <1>5, <1>7, <2>1, <2>2 DEF StampAligned, Answer
<1>8. CASE TransitionStatus(c) /\ TenantVersionHeld(c)
  <2>1. PICK row : row = [tenants[t] EXCEPT !.status = k.status]
    OBVIOUS
  <2>2. k.status \in TenantStatuses /\ k.status \in TenantAllowedTransitions[tenants[t].status]
    BY <1>0, <1>1, <1>8 DEF TransitionStatus, TenantVersionHeld, TenantCallSafe
  <2>3. /\ row \in TenantRecord /\ row.version = tenants[t].version /\ row.slug = tenants[t].slug
        /\ row.status = k.status
    BY <1>2, <2>1, <2>2 DEF TenantRecord
  <2> QED BY <1>1, <1>4, <1>5, <1>8, <2>1, <2>2, <2>3 DEF TransitionStatus, Answer
<1>9. CASE UpdateTenant(c) /\ TenantVersionHeld(c)
  <2>1. PICK row : row = [tenants[t] EXCEPT !.owner = k.owner]
    OBVIOUS
  <2>2. k.owner \in Owners
    BY <1>0, <1>9 DEF UpdateTenant, TenantCallSafe
  <2>3. /\ row \in TenantRecord /\ row.version = tenants[t].version /\ row.slug = tenants[t].slug
        /\ row.status = tenants[t].status
    BY <1>2, <2>1, <2>2 DEF TenantRecord
  <2> QED BY <1>1, <1>4, <1>5, <1>9, <2>1, <2>3 DEF UpdateTenant, Answer
<1> QED BY <1>1, <1>3, <1>6, <1>7, <1>8, <1>9
        DEF ActivateTenant, StampAligned, TransitionStatus, UpdateTenant

LEMMA TenantIsPut ==
  ASSUME OnboardingInv, NEW c \in TenantCalls, OnboardNewTenant(c)
  PROVE  OnboardingInv'
<1>1. PICK t \in TenantIds, s \in Slugs, u \in Owners :
        /\ tenants[t] = NOBODY /\ slugs[s] = NOBODY
        /\ tenants' = [tenants EXCEPT ![t] =
             [status |-> "PROVISIONING", owner |-> u, slug |-> s, aligned |-> FALSE, version |-> 1]]
        /\ slugs' = [slugs EXCEPT ![s] = t]
        /\ Proceed(c, [NoTenantCall EXCEPT !.step = "assign", !.tenant = t, !.version = 1, !.owner = u])
        /\ UNCHANGED <<cognito, tokens, firstOwners>>
  BY DEF OnboardNewTenant, MayCreateTenant, InRegistry
<1>2. PICK row : row = [status |-> "PROVISIONING", owner |-> u, slug |-> s, aligned |-> FALSE,
                        version |-> 1]
  OBVIOUS
<1>3. /\ row \in TenantRecord /\ row.version = 1 /\ row.slug = s /\ row.owner = u /\ row # NOBODY
  <2>1. 1 \in 1 .. MaxTenantVersion
    BY OnboardingAssumption
  <2>2. row \in TenantRecord
    BY <1>2, <2>1 DEF TenantRecord, TenantStatuses
  <2> QED BY <1>2, <2>2, NobodyIsNoTenant
<1>4. OnboardingTypeOK
  BY DEF OnboardingInv
<1>5. /\ tenants' \in [TenantIds -> TenantRecord \union {NOBODY}]
      /\ tenants'[t] = row /\ \A d \in TenantIds \ {t} : tenants'[d] = tenants[d]
  BY <1>1, <1>2, <1>3, <1>4 DEF OnboardingTypeOK
<1>6. /\ slugs' \in [Slugs -> TenantIds \union {NOBODY}]
      /\ slugs'[s] = t /\ \A r \in Slugs \ {s} : slugs'[r] = slugs[r]
  BY <1>1, <1>4 DEF OnboardingTypeOK
<1>7. \A d \in TenantIds : TenantMoves(tenants[d], tenants'[d])
  BY <1>1, <1>3, <1>5 DEF TenantMoves
<1>8. \A d \in TenantIds : InRegistry(d)' => slugs'[tenants'[d].slug] = d
  <2>1. ASSUME NEW d \in TenantIds \ {t}, InRegistry(d)' PROVE slugs'[tenants'[d].slug] = d
    <3>1. tenants'[d] = tenants[d] /\ tenants[d].slug \in Slugs /\ slugs[tenants[d].slug] = d
      BY <1>4, <1>5, <2>1 DEF OnboardingTypeOK, InRegistry, TenantRecord
    <3> QED BY <1>1, <1>6, <3>1, OnboardingAssumption
  <2> QED BY <1>3, <1>5, <1>6, <2>1
<1>9. PICK call : call = [NoTenantCall EXCEPT !.step = "assign", !.tenant = t, !.version = 1, !.owner = u]
  OBVIOUS
<1>10. /\ call \in TenantCall /\ call.step = "assign" /\ call.tenant = t /\ call.version = 1
       /\ call.owner = u
  <2>1. 1 \in 0 .. MaxTenantVersion
    BY OnboardingAssumption
  <2> QED BY <1>9, <2>1, TenantCallTypes DEF TenantCall
<1>11. TenantCallSafe(call)'
  BY <1>3, <1>5, <1>10 DEF TenantCallSafe, InRegistry
<1> QED BY <1>1, <1>4, <1>5, <1>6, <1>7, <1>8, <1>9, <1>11, TenantCallMoves DEF OnboardingTypeOK

LEMMA TokensMove ==
  ASSUME OnboardingInv, NEW u \in Owners, SignIn(u)
  PROVE  OnboardingInv'
<1>1. OnboardingTypeOK'
  BY DEF SignIn, OnboardingInv, OnboardingTypeOK, InRegistry
<1> QED BY <1>1 DEF SignIn, OnboardingInv, TenantCallSafe, FirstOwnersOfOnboarded, InRegistry

LEMMA OnboardingInvInit ==
  ASSUME OnboardingInit
  PROVE  OnboardingInv
<1>1. NoTenantCall \in TenantCall /\ NoTenantCall.step = "idle"
  BY OnboardingAssumption DEF NoTenantCall, TenantCall
<1> QED BY <1>1
        DEF OnboardingInit, OnboardingInv, OnboardingTypeOK, TenantCallSafe, FirstOwnersOfOnboarded, InRegistry

LEMMA OnboardingInvNext ==
  ASSUME OnboardingInv, [OnboardingNext]_onboardingVars
  PROVE  OnboardingInv'
<1>1. CASE UNCHANGED onboardingVars
  BY <1>1 DEF onboardingVars, OnboardingInv, OnboardingTypeOK, TenantCallSafe, FirstOwnersOfOnboarded,
              InRegistry
<1>2. CASE OnboardingNext
  BY <1>2, TenantIsPut, TenantCallsBegin, TenantCallsGoOn, TenantCallsWrite, TokensMove
     DEF OnboardingNext
<1> QED BY <1>1, <1>2

\* What every call on tenants has read still holds, or its write fails: the invariant
\* behind the theorems about the registry.
THEOREM OnboardingInvariant == OnboardingSpec => []OnboardingInv
<1>1. OnboardingInit => OnboardingInv
  BY OnboardingInvInit
<1>2. OnboardingInv /\ [OnboardingNext]_onboardingVars => OnboardingInv'
  BY OnboardingInvNext
<1> QED BY <1>1, <1>2, PTL DEF OnboardingSpec

\* The status a write leaves is the status it found or one the lifecycle allows after it.
LEMMA StatusMoves ==
  ASSUME OnboardingInv, [OnboardingNext]_onboardingVars, NEW t \in TenantIds, InRegistry(t)
  PROVE  \/ tenants'[t].status = tenants[t].status
         \/ tenants'[t].status \in TenantAllowedTransitions[tenants[t].status]
<1>1. OnboardingTypeOK /\ tenants[t] \in TenantRecord
  BY DEF OnboardingInv, OnboardingTypeOK, InRegistry
<1>2. ASSUME NEW c \in TenantCalls, OnboardNewTenant(c)
      PROVE  tenants'[t] = tenants[t]
  BY <1>1, <1>2 DEF OnboardNewTenant, MayCreateTenant, InRegistry, OnboardingTypeOK
<1>3. ASSUME NEW c \in TenantCalls,
             ActivateTenant(c) \/ StampAligned(c) \/ TransitionStatus(c) \/ UpdateTenant(c)
      PROVE  \/ tenants'[t].status = tenants[t].status
             \/ tenants'[t].status \in TenantAllowedTransitions[tenants[t].status]
  BY <1>3, TenantCallsWrite DEF TenantMoves, InRegistry
<1>4. CASE \E c \in TenantCalls :
             \/ OnboardNewTenant(c)
             \/ ActivateTenant(c) \/ StampAligned(c) \/ TransitionStatus(c) \/ UpdateTenant(c)
  BY <1>2, <1>3, <1>4
<1>5. CASE ~ \E c \in TenantCalls :
             \/ OnboardNewTenant(c)
             \/ ActivateTenant(c) \/ StampAligned(c) \/ TransitionStatus(c) \/ UpdateTenant(c)
  BY <1>5
     DEF OnboardingNext, onboardingVars, CompleteOnboarding, AssignOwner, TransitionTenant,
         PatchTenant, BootstrapOwner, BootstrapMembership, TenantCallDies, SignIn
<1> QED BY <1>4, <1>5

\* A call gets to its stamp through a write that found the version it read.
LEMMA OwnerIsTheAssigned ==
  ASSUME OnboardingInv, [OnboardingNext]_onboardingVars, NEW c \in TenantCalls,
         tenantCalls[c].step = "activate", tenantCalls'[c].step = "stamp"
  PROVE  tenants[tenantCalls[c].tenant].owner = tenantCalls[c].owner
<1>1. tenantCalls \in [TenantCalls -> TenantCall] /\ TenantCallSafe(tenantCalls[c])
      /\ NoTenantCall.step = "idle"
  BY TenantCallTypes DEF NoTenantCall
<1>2. CASE ActivateTenant(c)
  BY <1>1, <1>2 DEF ActivateTenant, Answer, Proceed, TenantVersionHeld, TenantCallSafe
<1>3. CASE ~ActivateTenant(c)
  <2>1. ~ \E u \in Owners : SignIn(u)
    BY DEF SignIn
  <2>2. tenantCalls' # tenantCalls
    OBVIOUS
  <2>3. PICK d \in TenantCalls :
          \/ OnboardNewTenant(d) \/ CompleteOnboarding(d) \/ AssignOwner(d) \/ ActivateTenant(d)
          \/ StampAligned(d) \/ TransitionTenant(d) \/ TransitionStatus(d) \/ PatchTenant(d)
          \/ UpdateTenant(d) \/ BootstrapOwner(d) \/ BootstrapMembership(d) \/ TenantCallDies(d)
    BY <2>1, <2>2 DEF OnboardingNext, onboardingVars
  <2>4. CASE d # c
    <3>1. tenantCalls'[c] = tenantCalls[c]
      BY <1>1, <2>3, <2>4
         DEF OnboardNewTenant, CompleteOnboarding, AssignOwner, ActivateTenant, StampAligned,
             TransitionTenant, TransitionStatus, PatchTenant, UpdateTenant, BootstrapOwner,
             BootstrapMembership, TenantCallDies, Answer, ThenStep, Proceed
    <3> QED BY <3>1
  <2>5. CASE d = c
    <3>1. TenantCallDies(c)
      BY <1>3, <2>3, <2>5
         DEF OnboardNewTenant, CompleteOnboarding, AssignOwner, StampAligned, TransitionTenant,
             TransitionStatus, PatchTenant, UpdateTenant, BootstrapOwner, BootstrapMembership, AtRest
    <3> QED BY <1>1, <3>1 DEF TenantCallDies, Answer, Proceed
  <2> QED BY <2>4, <2>5
<1> QED BY <1>2, <1>3

-----------------------------------------------------------------------------
(* Onboarding: the theorems.                                               *)

\* The rows keep the registry's shape and each has its slug reserved: no two tenants share
\* a slug, whichever onboardings race for it (the transaction of createTenant).
THEOREM SlugsAreReserved == OnboardingSpec => []OnboardingTypeOK
<1>1. OnboardingInv => OnboardingTypeOK
  BY DEF OnboardingInv
<1> QED BY <1>1, OnboardingInvariant, PTL

\* The status that transitionStatus validated is the one its write replaces, whatever other
\* calls did to the tenant between the two.
THEOREM LifecycleIsRespected == OnboardingSpec => LifecycleRespected
<1>1. OnboardingInv /\ [OnboardingNext]_onboardingVars =>
        [\A t \in TenantIds :
           InRegistry(t) =>
             \/ tenants'[t].status = tenants[t].status
             \/ tenants'[t].status \in TenantAllowedTransitions[tenants[t].status]]_onboardingVars
  BY StatusMoves
<1> QED BY <1>1, OnboardingInvariant, PTL DEF OnboardingSpec, LifecycleRespected

\* alignOwnerAndActivate activates a tenant only for the owner whose attribute it assigned:
\* a PATCH in between makes its write fail.
THEOREM OnboardedOwnersAreAligned == OnboardingSpec => OnboardedOwnerIsAligned
<1>1. OnboardingInv /\ [OnboardingNext]_onboardingVars =>
        [\A c \in TenantCalls :
           tenantCalls[c].step = "activate" /\ tenantCalls'[c].step = "stamp" =>
             tenants[tenantCalls[c].tenant].owner = tenantCalls[c].owner]_onboardingVars
  BY OwnerIsTheAssigned
<1> QED BY <1>1, OnboardingInvariant, PTL DEF OnboardingSpec, OnboardedOwnerIsAligned

\* The look at the tenant before the bootstrap transaction is enough for this much: no
\* tenant in PROVISIONING has a first owner.
THEOREM BootstrappedTenantsWereActive == OnboardingSpec => []BootstrappedWasActive
<1>1. OnboardingInv => BootstrappedWasActive
  BY DEF OnboardingInv, FirstOwnersOfOnboarded, BootstrappedWasActive
<1> QED BY <1>1, OnboardingInvariant, PTL

=============================================================================
