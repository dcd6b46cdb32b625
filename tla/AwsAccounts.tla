---------------------------- MODULE AwsAccounts -----------------------------
(***************************************************************************)
(* The AWS account connections of the tenants: AwsAccountApiService over   *)
(* the DynamoDB repository.  Every read is consistent, and every update is *)
(* conditional on the version the client or the call names, so that        *)
(* the reads a call makes before a write are one step and the write is     *)
(* another; a client that names an older version than the row has is       *)
(* refused and left out.  Listings, masking and what the routes refuse     *)
(* before the service is called (roles, MFA, body) are left out.           *)
(***************************************************************************)
EXTENDS Naturals

CONSTANTS
  Tenants, AccountIds,
  AccountCalls,         \* the API calls that may be in progress at once
  ACCOUNT_NONE,
  MaxConnectionVersion  \* bound: versions of a connection

VARIABLES
  connections,    \* the connection of a tenant to an account, if it registered one
  accountLocks,   \* the tenant that an account id is locked for
  accountCalls

accountVars == <<connections, accountLocks, accountCalls>>

Keys == Tenants \X AccountIds

ConnectionStatuses == {"PENDING", "VALIDATING", "VERIFIED", "SUSPENDED", "DELETED"}
VerificationStatuses == {"NOT_STARTED", "IN_PROGRESS", "SUCCEEDED", "FAILED"}

Connection == [status : ConnectionStatuses, verificationStatus : VerificationStatuses,
               lastValidated : BOOLEAN, version : 1 .. MaxConnectionVersion]

\* ACCOUNT_NONE is no tenant and no row.
ASSUME AwsAccountsAssumption ==
  /\ ACCOUNT_NONE \notin Tenants /\ ACCOUNT_NONE \notin Connection
  /\ MaxConnectionVersion \in Nat \ {0}

ConnectionAllowedTransitions ==
  [PENDING |-> {"VALIDATING", "DELETED"},
   VALIDATING |-> {"VERIFIED", "PENDING", "SUSPENDED", "DELETED"},
   VERIFIED |-> {"VALIDATING", "SUSPENDED", "DELETED"},
   SUSPENDED |-> {"VALIDATING", "VERIFIED", "DELETED"},
   DELETED |-> {}]

\* validateAwsAccountStatusConsistency
Consistent(row) ==
  /\ row.status \in {"DELETED", "PENDING"} => row.verificationStatus # "IN_PROGRESS"
  /\ row.status = "VALIDATING" => row.verificationStatus = "IN_PROGRESS"
  /\ row.status = "VERIFIED" => row.verificationStatus = "SUCCEEDED"
  /\ row.lastValidated => row.verificationStatus # "NOT_STARTED"

\* A call in progress: the step it is at, the row it works on, the version its next
\* write names, and for a verification the status it found.
IdleAccountCall ==
  [at |-> "idle", key |-> ACCOUNT_NONE, version |-> 0, previous |-> ACCOUNT_NONE]

AccountCall ==
  [at : {"idle", "claim", "check", "confirm", "revert", "patch", "discover", "remove"},
   key : Keys \union {ACCOUNT_NONE}, version : 0 .. MaxConnectionVersion,
   previous : ConnectionStatuses \union {ACCOUNT_NONE}]

AwsAccountsInit ==
  /\ connections = [k \in Keys |-> ACCOUNT_NONE]
  /\ accountLocks = [a \in AccountIds |-> ACCOUNT_NONE]
  /\ accountCalls = [c \in AccountCalls |-> IdleAccountCall]

Registered(k) == connections[k] # ACCOUNT_NONE

GoTo(c, at) == accountCalls' = [accountCalls EXCEPT ![c].at = at]
Finish(c) == accountCalls' = [accountCalls EXCEPT ![c] = IdleAccountCall]

\* The call has read the row, and its write will name the version it saw.
BeginCall(c, at, k) ==
  accountCalls' = [accountCalls EXCEPT ![c] =
    [at |-> at, key |-> k, version |-> connections[k].version,
     previous |-> connections[k].status]]

(* POST /aws-accounts *)

\* Mutant: the transaction does not look at the lock of the id.
RegistrationAllowed_AnyOwner(k) == ~Registered(k)

\* The conditions of the transaction that puts the connection and the lock of its id.
RegistrationAllowed(k) == ~Registered(k) /\ accountLocks[k[2]] = ACCOUNT_NONE

Register(k) ==
  /\ RegistrationAllowed(k)
  /\ connections' = [connections EXCEPT ![k] =
       [status |-> "PENDING", verificationStatus |-> "NOT_STARTED",
        lastValidated |-> FALSE, version |-> 1]]
  /\ accountLocks' = [accountLocks EXCEPT ![k[2]] = k[1]]
  /\ UNCHANGED accountCalls

(* The repository's versioned write, and the transition it makes. *)

\* Mutant: the write is not conditional on the version.
VersionHeld_Ignored(c) == Registered(accountCalls[c].key)

VersionHeld(c) == connections[accountCalls[c].key].version = accountCalls[c].version

\* The row with the fields of the transition; lastValidated is kept when not given.
Transitioned(row, status, verificationStatus) ==
  [status |-> status, verificationStatus |-> verificationStatus,
   lastValidated |-> row.lastValidated \/ verificationStatus \in {"SUCCEEDED", "FAILED"},
   version |-> row.version + 1]

Write(c, row) ==
  /\ row.version <= MaxConnectionVersion
  /\ connections' = [connections EXCEPT ![accountCalls[c].key] = row]

\* Mutant: the verification status is not looked at.
MayTransition_AnyVerification(row, status, verificationStatus) ==
  status \in ConnectionAllowedTransitions[row.status]

\* What transitionStatus validates on its own read.
MayTransition(row, status, verificationStatus) ==
  /\ status \in ConnectionAllowedTransitions[row.status]
  /\ Consistent(Transitioned(row, status, verificationStatus))

(* POST /aws-accounts/{accountId}/verify *)

VerifyConnection(c, k) ==
  /\ accountCalls[c].at = "idle" /\ Registered(k)
  /\ MayTransition(connections[k], "VALIDATING", "IN_PROGRESS")
  /\ BeginCall(c, "claim", k)
  /\ UNCHANGED <<connections, accountLocks>>

\* The transition to VALIDATING; a conflict ends the call.
ClaimValidation(c) ==
  /\ accountCalls[c].at = "claim"
  /\ IF VersionHeld(c)
     THEN LET row == connections[accountCalls[c].key]
          IN /\ Write(c, Transitioned(row, "VALIDATING", "IN_PROGRESS"))
             /\ accountCalls' = [accountCalls EXCEPT ![c] =
                  [at |-> "check", key |-> accountCalls[c].key,
                   version |-> row.version + 1, previous |-> accountCalls[c].previous]]
     ELSE Finish(c) /\ UNCHANGED connections
  /\ UNCHANGED accountLocks

\* AssumeRole and the permission check, either of which may fail.
CheckRole(c) ==
  /\ accountCalls[c].at = "check"
  /\ GoTo(c, "confirm") \/ GoTo(c, "revert")
  /\ UNCHANGED <<connections, accountLocks>>

\* The transition to VERIFIED; whatever error it answers is caught and the validation is
\* failed, also when the write was applied and only its answer lost.
ConfirmValidation(c) ==
  /\ accountCalls[c].at = "confirm"
  /\ \/ /\ VersionHeld(c)
        /\ Write(c, Transitioned(connections[accountCalls[c].key], "VERIFIED", "SUCCEEDED"))
        /\ Finish(c) \/ GoTo(c, "revert")
     \/ GoTo(c, "revert") /\ UNCHANGED connections
  /\ UNCHANGED accountLocks

RevertTo(previous) == IF previous = "PENDING" THEN "PENDING" ELSE "SUSPENDED"

\* failVerification: a conflict or an error ends the call.
FailVerification(c) ==
  /\ accountCalls[c].at = "revert"
  /\ IF VersionHeld(c)
     THEN Write(c, Transitioned(connections[accountCalls[c].key],
                                RevertTo(accountCalls[c].previous), "FAILED"))
     ELSE UNCHANGED connections
  /\ Finish(c)
  /\ UNCHANGED accountLocks

(* PATCH, DELETE and POST discovery: the row's status is looked at by DELETE alone. *)

UpdateConfiguration(c, k) ==
  /\ accountCalls[c].at = "idle" /\ Registered(k)
  /\ BeginCall(c, "patch", k)
  /\ UNCHANGED <<connections, accountLocks>>

\* Discovery assumes the role and may fail; what it writes is metadata.
Discover(c, k) ==
  /\ accountCalls[c].at = "idle" /\ Registered(k)
  /\ BeginCall(c, "discover", k)
  /\ UNCHANGED <<connections, accountLocks>>

UpdateMetadata(c) ==
  /\ accountCalls[c].at \in {"patch", "discover"}
  /\ \/ /\ VersionHeld(c)
        /\ Write(c, [connections[accountCalls[c].key] EXCEPT !.version = @ + 1])
     \/ /\ accountCalls[c].at = "discover" \/ ~VersionHeld(c)
        /\ UNCHANGED connections
  /\ Finish(c)
  /\ UNCHANGED accountLocks

\* The verification status is kept, so that an account in VALIDATING cannot be removed.
Remove(c, k) ==
  /\ accountCalls[c].at = "idle" /\ Registered(k)
  /\ MayTransition(connections[k], "DELETED", connections[k].verificationStatus)
  /\ BeginCall(c, "remove", k)
  /\ UNCHANGED <<connections, accountLocks>>

WriteRemoved(c) ==
  /\ accountCalls[c].at = "remove"
  /\ LET row == connections[accountCalls[c].key]
     IN IF VersionHeld(c)
        THEN Write(c, Transitioned(row, "DELETED", row.verificationStatus))
        ELSE UNCHANGED connections
  /\ Finish(c)
  /\ UNCHANGED accountLocks

AccountCallDies(c) ==
  /\ accountCalls[c].at # "idle"
  /\ Finish(c)
  /\ UNCHANGED <<connections, accountLocks>>

AwsAccountsNext ==
  \/ \E k \in Keys : Register(k)
  \/ \E c \in AccountCalls, k \in Keys :
       VerifyConnection(c, k) \/ UpdateConfiguration(c, k) \/ Discover(c, k) \/ Remove(c, k)
  \/ \E c \in AccountCalls :
       \/ ClaimValidation(c) \/ CheckRole(c) \/ ConfirmValidation(c) \/ FailVerification(c)
       \/ UpdateMetadata(c) \/ WriteRemoved(c) \/ AccountCallDies(c)

AwsAccountsSpec == AwsAccountsInit /\ [][AwsAccountsNext]_accountVars

(* Properties. *)

\* Every row is one that the repository's consistency rules accept.
AccountsTypeOK ==
  /\ connections \in [Keys -> Connection \union {ACCOUNT_NONE}]
  /\ accountLocks \in [AccountIds -> Tenants \union {ACCOUNT_NONE}]
  /\ accountCalls \in [AccountCalls -> AccountCall]
  /\ \A k \in Keys : Registered(k) => Consistent(connections[k])

\* An account id is connected to one tenant, for ever: the lock outlives the removal.
OneTenantPerAccount ==
  \A k \in Keys : Registered(k) => accountLocks[k[2]] = k[1]

\* A row becomes VERIFIED by a call that found the role good under the claim that still
\* stands: no change made since the claim, by whatever call, is overtaken (verify and the
\* version its last write names).
Validated(c, k) ==
  /\ accountCalls[c].at = "confirm" /\ accountCalls[c].key = k
  /\ connections[k].status = "VALIDATING"
  /\ accountCalls[c].version = connections[k].version

VerifiedWasValidated ==
  [][\A k \in Keys :
       Registered(k) /\ connections[k].status # "VERIFIED" /\ connections'[k].status = "VERIFIED" =>
         \E c \in AccountCalls : Validated(c, k)]_accountVars

\* Two verifications never check one account at once: the second finds it VALIDATING, or
\* conflicts when it had read it before.
Checking(c, k) == accountCalls[c].key = k /\ accountCalls[c].at \in {"check", "confirm"}

ValidationExclusion ==
  \A k \in Keys : \A c, d \in AccountCalls : Checking(c, k) /\ Checking(d, k) => c = d

\* A removed connection is never brought back, though verifications, discoveries and
\* updates that read it before it was removed still want to write it.
RemovedConnectionIsFinal ==
  [][\A k \in Keys :
       Registered(k) /\ connections[k].status = "DELETED" =>
         connections'[k].status = "DELETED"]_accountVars

(* The lifecycle that the calls implement. *)

\* The verification of k whose claim stands: nobody has written the row since.
ClaimStands(c, k) ==
  /\ accountCalls[c].at \in {"check", "confirm", "revert"}
  /\ accountCalls[c].key = k /\ accountCalls[c].version = connections[k].version

StandingClaims(k) ==
  {[by |-> c, found |-> accountCalls[c].previous] : c \in {d \in AccountCalls : ClaimStands(d, k)}}

AccountLifecycle == INSTANCE AwsAccountLifecycle WITH
  Verifications <- AccountCalls, NONE <- ACCOUNT_NONE,
  status <- [k \in Keys |-> IF Registered(k) THEN connections[k].status ELSE ACCOUNT_NONE],
  owner <- accountLocks,
  claim <- [k \in Keys |-> StandingClaims(k)]

\* With the versions and the conflicts taken away, the calls do what AwsAccountLifecycle says:
\* an id keeps its first tenant, the verification that claimed a connection decides about it
\* alone and on the status it found, every other write takes its claim away, and a removed
\* connection stays removed.  It is AccountLifecycle!Spec, with the steps of other services
\* told apart first, which TLC would otherwise compare with every action of the lifecycle.
ImplementsAccountLifecycle ==
  /\ AccountLifecycle!Init
  /\ [][UNCHANGED accountVars \/ AccountLifecycle!Next]_(AccountLifecycle!lifecycleVars)
=============================================================================
