-------------------------- MODULE TenantOnboarding --------------------------
(***************************************************************************)
(* The tenant registry: onboarding with the owner's Cognito attribute, the *)
(* administrative routes over the tenant lifecycle, and the bootstrap of   *)
(* the first owner as far as it looks at the tenant.  Reads are consistent *)
(* and updates are conditional on a version, so that the reads before a    *)
(* write are one step; a client that names an older version than the row   *)
(* has is refused and left out, as is what the routes refuse by role, MFA  *)
(* and body.                                                               *)
(***************************************************************************)
EXTENDS Naturals

CONSTANTS
  TenantIds, Slugs, Owners,
  TenantCalls,      \* the API calls that may be in progress at once
  NOBODY,
  MaxTenantVersion  \* bound: versions of a tenant

ASSUME OnboardingAssumption ==
  /\ NOBODY \notin TenantIds \union Owners
  /\ MaxTenantVersion \in Nat \ {0}

VARIABLES
  tenants,
  slugs,            \* the tenant a slug is reserved for
  cognito,          \* custom:tenantId of each user
  tokens,           \* the tenant_id in the access token each user holds
  firstOwners,      \* who bootstrapped each tenant
  tenantCalls

onboardingVars == <<tenants, slugs, cognito, tokens, firstOwners, tenantCalls>>

TenantStatuses == {"PROVISIONING", "ACTIVE", "SUSPENDED", "ARCHIVED", "DELETED"}

TenantRecord == [status : TenantStatuses, owner : Owners, slug : Slugs,
                 aligned : BOOLEAN, version : 1 .. MaxTenantVersion]

ASSUME NobodyIsNoTenant == NOBODY \notin TenantRecord

TenantAllowedTransitions ==
  [PROVISIONING |-> {"ACTIVE", "DELETED"},
   ACTIVE |-> {"SUSPENDED", "ARCHIVED"},
   SUSPENDED |-> {"ACTIVE", "ARCHIVED"},
   ARCHIVED |-> {"DELETED"},
   DELETED |-> {}]

\* A call: its next step, its tenant and the version its write names, the user it assigns
\* or names owner, and the status it asks for.
NoTenantCall ==
  [step |-> "idle", tenant |-> NOBODY, version |-> 0, owner |-> NOBODY, status |-> NOBODY]

TenantCall ==
  [step : {"idle", "assign", "activate", "stamp", "transition", "patch", "bootstrap"},
   tenant : TenantIds \union {NOBODY}, version : 0 .. MaxTenantVersion,
   owner : Owners \union {NOBODY}, status : TenantStatuses \union {NOBODY}]

OnboardingInit ==
  /\ tenants = [t \in TenantIds |-> NOBODY]
  /\ slugs = [s \in Slugs |-> NOBODY]
  /\ cognito = [u \in Owners |-> NOBODY]
  /\ tokens = [u \in Owners |-> NOBODY]
  /\ firstOwners = [t \in TenantIds |-> NOBODY]
  /\ tenantCalls = [c \in TenantCalls |-> NoTenantCall]

InRegistry(t) == tenants[t] # NOBODY

Proceed(c, call) == tenantCalls' = [tenantCalls EXCEPT ![c] = call]
ThenStep(c, step, version) ==
  Proceed(c, [tenantCalls[c] EXCEPT !.step = step, !.version = version])
Answer(c) == Proceed(c, NoTenantCall)
AtRest(c) == tenantCalls[c].step = "idle"

\* The call works on the tenant as it just read it.
Reading(t, step) == [NoTenantCall EXCEPT !.step = step, !.tenant = t, !.version = tenants[t].version]

(* POST /admin/tenants and /admin/tenants/{tenantId}/complete-onboarding *)

\* The conditions of the transaction that puts the tenant, under an id of its own, and the
\* reservation of its slug.
MayCreateTenant(t, s) == ~InRegistry(t) /\ slugs[s] = NOBODY

OnboardNewTenant(c) ==
  /\ AtRest(c)
  /\ \E t \in TenantIds, s \in Slugs, u \in Owners :
       /\ MayCreateTenant(t, s)
       /\ tenants' = [tenants EXCEPT ![t] =
            [status |-> "PROVISIONING", owner |-> u, slug |-> s, aligned |-> FALSE, version |-> 1]]
       /\ slugs' = [slugs EXCEPT ![s] = t]
       /\ Proceed(c, [NoTenantCall EXCEPT !.step = "assign", !.tenant = t, !.version = 1,
                                          !.owner = u])
  /\ UNCHANGED <<cognito, tokens, firstOwners>>

\* ACTIVE is answered as it is, and the other statuses are refused.
CompleteOnboarding(c) ==
  /\ AtRest(c)
  /\ \E t \in TenantIds :
       /\ IF InRegistry(t) THEN tenants[t].status = "PROVISIONING" ELSE FALSE
       /\ Proceed(c, [Reading(t, "assign") EXCEPT !.owner = tenants[t].owner])
  /\ UNCHANGED <<tenants, slugs, cognito, tokens, firstOwners>>

AssignTenantToUser(u, t) == cognito' = [cognito EXCEPT ![u] = t]

\* alignOwnerAndActivate: Cognito may refuse, and its answer may be lost.
AssignOwner(c) ==
  /\ tenantCalls[c].step = "assign"
  /\ \/ /\ AssignTenantToUser(tenantCalls[c].owner, tenantCalls[c].tenant)
        /\ ThenStep(c, "activate", tenantCalls[c].version) \/ Answer(c)
     \/ Answer(c) /\ UNCHANGED cognito
  /\ UNCHANGED <<tenants, slugs, tokens, firstOwners>>

\* Mutant: the write is not conditional on the version.
TenantVersionHeld_Ignored(c) == InRegistry(tenantCalls[c].tenant)

TenantVersionHeld(c) == tenants[tenantCalls[c].tenant].version = tenantCalls[c].version

WriteTenant(c, row) ==
  /\ row.version < MaxTenantVersion
  /\ tenants' = [tenants EXCEPT ![tenantCalls[c].tenant] = [row EXCEPT !.version = @ + 1]]

ActivateTenant(c) ==
  /\ tenantCalls[c].step = "activate"
  /\ LET row == tenants[tenantCalls[c].tenant]
     IN IF TenantVersionHeld(c) /\ "ACTIVE" \in TenantAllowedTransitions[row.status]
        THEN WriteTenant(c, [row EXCEPT !.status = "ACTIVE"]) /\ ThenStep(c, "stamp", row.version + 1)
        ELSE UNCHANGED tenants /\ Answer(c)
  /\ UNCHANGED <<slugs, cognito, tokens, firstOwners>>

\* onboardingCognitoAlignedAt; a conflict is answered although the tenant is ACTIVE.
StampAligned(c) ==
  /\ tenantCalls[c].step = "stamp"
  /\ IF TenantVersionHeld(c)
     THEN WriteTenant(c, [tenants[tenantCalls[c].tenant] EXCEPT !.aligned = TRUE])
     ELSE UNCHANGED tenants
  /\ Answer(c)
  /\ UNCHANGED <<slugs, cognito, tokens, firstOwners>>

(* POST suspend, reactivate, archive, and DELETE /admin/tenants/{tenantId} *)

\* transitionTenant, up to and with the read of transitionStatus.
TransitionTenant(c) ==
  /\ AtRest(c)
  /\ \E t \in TenantIds, next \in {"SUSPENDED", "ACTIVE", "ARCHIVED", "DELETED"} :
       /\ IF InRegistry(t) THEN next \in TenantAllowedTransitions[tenants[t].status] ELSE FALSE
       /\ Proceed(c, [Reading(t, "transition") EXCEPT !.status = next])
  /\ UNCHANGED <<tenants, slugs, cognito, tokens, firstOwners>>

TransitionStatus(c) ==
  /\ tenantCalls[c].step = "transition"
  /\ IF TenantVersionHeld(c)
     THEN WriteTenant(c, [tenants[tenantCalls[c].tenant] EXCEPT !.status = tenantCalls[c].status])
     ELSE UNCHANGED tenants
  /\ Answer(c)
  /\ UNCHANGED <<slugs, cognito, tokens, firstOwners>>

(* PATCH /admin/tenants/{tenantId}: the owner is what matters here, whatever the status. *)

PatchTenant(c) ==
  /\ AtRest(c)
  /\ \E t \in TenantIds, u \in Owners :
       InRegistry(t) /\ Proceed(c, [Reading(t, "patch") EXCEPT !.owner = u])
  /\ UNCHANGED <<tenants, slugs, cognito, tokens, firstOwners>>

UpdateTenant(c) ==
  /\ tenantCalls[c].step = "patch"
  /\ IF TenantVersionHeld(c)
     THEN WriteTenant(c, [tenants[tenantCalls[c].tenant] EXCEPT !.owner = tenantCalls[c].owner])
     ELSE UNCHANGED tenants
  /\ Answer(c)
  /\ UNCHANGED <<slugs, cognito, tokens, firstOwners>>

(* POST /tenants/bootstrap-owner *)

\* Mutant: any tenant of the registry will do.
EligibleForOwnerBootstrap_Any(t) == InRegistry(t)

EligibleForOwnerBootstrap(t) == IF InRegistry(t) THEN tenants[t].status = "ACTIVE" ELSE FALSE

\* The tenant is the one the caller's token names.
BootstrapOwner(c) ==
  /\ AtRest(c)
  /\ \E u \in Owners :
       /\ tokens[u] # NOBODY /\ EligibleForOwnerBootstrap(tokens[u])
       /\ Proceed(c, [NoTenantCall EXCEPT !.step = "bootstrap", !.tenant = tokens[u], !.owner = u])
  /\ UNCHANGED <<tenants, slugs, cognito, tokens, firstOwners>>

\* The transaction is conditional on the memberships alone.
BootstrapMembership(c) ==
  /\ tenantCalls[c].step = "bootstrap"
  /\ LET t == tenantCalls[c].tenant
     IN firstOwners' = IF firstOwners[t] = NOBODY
                       THEN [firstOwners EXCEPT ![t] = tenantCalls[c].owner] ELSE firstOwners
  /\ Answer(c)
  /\ UNCHANGED <<tenants, slugs, cognito, tokens>>

\* A user signs in again and receives a token that carries its attribute.
SignIn(u) ==
  /\ tokens[u] # cognito[u]
  /\ tokens' = [tokens EXCEPT ![u] = cognito[u]]
  /\ UNCHANGED <<tenants, slugs, cognito, firstOwners, tenantCalls>>

TenantCallDies(c) ==
  /\ ~AtRest(c)
  /\ Answer(c)
  /\ UNCHANGED <<tenants, slugs, cognito, tokens, firstOwners>>

OnboardingNext ==
  \/ \E c \in TenantCalls :
       \/ OnboardNewTenant(c) \/ CompleteOnboarding(c)
       \/ AssignOwner(c) \/ ActivateTenant(c) \/ StampAligned(c)
       \/ TransitionTenant(c) \/ TransitionStatus(c)
       \/ PatchTenant(c) \/ UpdateTenant(c)
       \/ BootstrapOwner(c) \/ BootstrapMembership(c)
       \/ TenantCallDies(c)
  \/ \E u \in Owners : SignIn(u)

OnboardingSpec == OnboardingInit /\ [][OnboardingNext]_onboardingVars

(* Properties. *)

\* The rows have the registry's shape, and each has its slug reserved.
OnboardingTypeOK ==
  /\ tenants \in [TenantIds -> TenantRecord \union {NOBODY}]
  /\ slugs \in [Slugs -> TenantIds \union {NOBODY}]
  /\ cognito \in [Owners -> TenantIds \union {NOBODY}]
  /\ tokens \in [Owners -> TenantIds \union {NOBODY}]
  /\ firstOwners \in [TenantIds -> Owners \union {NOBODY}]
  /\ tenantCalls \in [TenantCalls -> TenantCall]
  /\ \A t \in TenantIds : InRegistry(t) => slugs[tenants[t].slug] = t

\* Whatever calls race for a tenant, its status moves along ALLOWED_TRANSITIONS: what
\* transitionStatus validates is what it overwrites (tenant-lifecycle.ts).
LifecycleRespected ==
  [][\A t \in TenantIds :
       InRegistry(t) =>
         \/ tenants'[t].status = tenants[t].status
         \/ tenants'[t].status \in TenantAllowedTransitions[tenants[t].status]]_onboardingVars

\* The tenant that onboarding makes ACTIVE is still owned by the user whose attribute it
\* assigned: an owner named meanwhile keeps the tenant PROVISIONING.
OnboardedOwnerIsAligned ==
  [][\A c \in TenantCalls :
       tenantCalls[c].step = "activate" /\ tenantCalls'[c].step = "stamp" =>
         tenants[tenantCalls[c].tenant].owner = tenantCalls[c].owner]_onboardingVars

\* A tenant gets its first owner only once it has left PROVISIONING, though the tenant is
\* looked at before the transaction and not in it; it may be suspended by then.
BootstrappedWasActive ==
  \A t \in TenantIds : firstOwners[t] # NOBODY => tenants[t].status # "PROVISIONING"
=============================================================================
