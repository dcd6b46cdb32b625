-------------------------- MODULE AwsAccountsProofs --------------------------
(***************************************************************************)
(* What holds of account connections for every number of tenants, accounts *)
(* and concurrent calls.                                                   *)
(***************************************************************************)
EXTENDS AwsAccounts, TLAPS

-----------------------------------------------------------------------------
(* The inductive invariant.                                                *)

\* A call holds a row from the claim until it is overtaken or done: while it checks,
\* whatever happened to the row, and while it reverts, as long as the write can succeed.
Holds(call, k, row) ==
  /\ call.key = k
  /\ \/ call.at \in {"check", "confirm"}
     \/ call.at = "revert" /\ call.version = row.version

\* What a call saw is still true if nobody has written the row since.
Fresh(call, row) ==
  call.version = row.version =>
    /\ call.at = "claim" =>
         MayTransition(row, "VALIDATING", "IN_PROGRESS") /\ call.previous = row.status
    /\ call.at = "remove" => MayTransition(row, "DELETED", row.verificationStatus)

\* A call in progress names a version that the row has or had.
CallOK(call, rows) ==
  call.at # "idle" =>
    /\ call.key \in Keys /\ rows[call.key] \in Connection
    /\ call.version <= rows[call.key].version
    /\ Fresh(call, rows[call.key])

CallsInv == \A c \in AccountCalls : CallOK(accountCalls[c], connections)

\* A row somebody holds is VALIDATING, and one call alone holds it.
HeldInv ==
  \A c \in AccountCalls, k \in Keys :
    Holds(accountCalls[c], k, connections[k]) => connections[k].status = "VALIDATING"

AloneInv ==
  \A c, d \in AccountCalls, k \in Keys :
    Holds(accountCalls[c], k, connections[k]) /\ Holds(accountCalls[d], k, connections[k]) => c = d

IInv == AccountsTypeOK /\ OneTenantPerAccount /\ CallsInv /\ HeldInv /\ AloneInv

-----------------------------------------------------------------------------
(* Rows and calls.                                                         *)

LEMMA RegisteredRow ==
  ASSUME AccountsTypeOK, NEW k \in Keys
  PROVE  Registered(k) <=> connections[k] \in Connection
BY AwsAccountsAssumption DEF AccountsTypeOK, Registered

\* The statuses that a row can leave, and what it becomes.
LEMMA TransitionedRow ==
  ASSUME NEW row \in Connection, NEW s \in ConnectionStatuses, NEW v \in VerificationStatuses,
         row.version + 1 <= MaxConnectionVersion
  PROVE  /\ Transitioned(row, s, v) \in Connection
         /\ Transitioned(row, s, v).status = s
         /\ Transitioned(row, s, v).verificationStatus = v
         /\ Transitioned(row, s, v).version = row.version + 1
         /\ Transitioned(row, s, v).lastValidated = (row.lastValidated \/ v \in {"SUCCEEDED", "FAILED"})
BY AwsAccountsAssumption DEF Transitioned, Connection

LEMMA TransitionedVersion ==
  ASSUME NEW row, NEW s, NEW v
  PROVE  /\ Transitioned(row, s, v).version = row.version + 1
         /\ Transitioned(row, s, v).status = s
         /\ Transitioned(row, s, v).verificationStatus = v
         /\ Transitioned(row, s, v).lastValidated = (row.lastValidated \/ v \in {"SUCCEEDED", "FAILED"})
BY DEF Transitioned

\* A row that may be claimed or removed is not VALIDATING, and none that is DELETED may.
LEMMA MayLeave ==
  ASSUME NEW row \in Connection, Consistent(row)
  PROVE  /\ MayTransition(row, "VALIDATING", "IN_PROGRESS") => row.status \notin {"VALIDATING", "DELETED"}
         /\ MayTransition(row, "DELETED", row.verificationStatus)
            => row.status \notin {"VALIDATING", "DELETED"}
<1>1. row.status \in ConnectionStatuses
  BY DEF Connection
<1>2. /\ ConnectionAllowedTransitions["VALIDATING"] = {"VERIFIED", "PENDING", "SUSPENDED", "DELETED"}
      /\ ConnectionAllowedTransitions["DELETED"] = {}
  BY DEF ConnectionAllowedTransitions
<1>3. /\ Transitioned(row, "DELETED", row.verificationStatus).status = "DELETED"
      /\ Transitioned(row, "DELETED", row.verificationStatus).verificationStatus = row.verificationStatus
  BY DEF Transitioned
<1>4. row.status = "VALIDATING" => row.verificationStatus = "IN_PROGRESS"
  BY DEF Consistent
<1>5. row.status # "DELETED" \/ ~\E s : s \in ConnectionAllowedTransitions[row.status]
  BY <1>2
<1>6. MayTransition(row, "VALIDATING", "IN_PROGRESS") => row.status \notin {"VALIDATING", "DELETED"}
  BY <1>1, <1>2, <1>5 DEF MayTransition
<1>7. MayTransition(row, "DELETED", row.verificationStatus)
      => row.status # "DELETED" /\ row.verificationStatus # "IN_PROGRESS"
  BY <1>3, <1>5 DEF MayTransition, Consistent
<1> QED
  BY <1>4, <1>6, <1>7

-----------------------------------------------------------------------------
(* A step that writes no row.                                              *)

LEMMA CallStep ==
  ASSUME IInv, NEW c \in AccountCalls, NEW call \in AccountCall,
         accountCalls' = [accountCalls EXCEPT ![c] = call],
         UNCHANGED <<connections, accountLocks>>,
         CallOK(call, connections),
         \A k \in Keys : Holds(call, k, connections[k]) => Holds(accountCalls[c], k, connections[k])
  PROVE  IInv'
<1>1. /\ accountCalls \in [AccountCalls -> AccountCall]
      /\ accountCalls' \in [AccountCalls -> AccountCall]
      /\ \A d \in AccountCalls : accountCalls'[d] = IF d = c THEN call ELSE accountCalls[d]
  BY DEF IInv, AccountsTypeOK
<1>2. connections' = connections /\ accountLocks' = accountLocks
  OBVIOUS
<1>3. AccountsTypeOK' /\ OneTenantPerAccount'
  BY <1>1, <1>2 DEF IInv, AccountsTypeOK, OneTenantPerAccount, Registered
<1>4. CallsInv'
  BY <1>1, <1>2 DEF IInv, CallsInv
<1>5. \A d \in AccountCalls, k \in Keys :
        Holds(accountCalls'[d], k, connections[k]) => Holds(accountCalls[d], k, connections[k])
  BY <1>1
<1>6. HeldInv'
  BY <1>2, <1>5 DEF IInv, HeldInv
<1>7. AloneInv'
  BY <1>2, <1>5 DEF IInv, AloneInv
<1> QED
  BY <1>3, <1>4, <1>6, <1>7 DEF IInv

-----------------------------------------------------------------------------
(* A step that writes the row of its call.                                 *)

LEMMA RowStep ==
  ASSUME IInv, NEW c \in AccountCalls, NEW call \in AccountCall, NEW k \in Keys,
         NEW row \in Connection, Consistent(row),
         connections[k] \in Connection, row.version = connections[k].version + 1,
         connections' = [connections EXCEPT ![k] = row],
         accountCalls' = [accountCalls EXCEPT ![c] = call],
         accountLocks' = accountLocks,
         CallOK(call, connections'),
         \A m \in Keys : Holds(call, m, connections'[m]) => m = k /\ row.status = "VALIDATING",
         \A d \in AccountCalls \ {c} :
           Holds(accountCalls[d], k, connections[k]) =>
             row.status = "VALIDATING" /\ ~Holds(call, k, row)
  PROVE  IInv'
<1>1. /\ accountCalls \in [AccountCalls -> AccountCall]
      /\ accountCalls' \in [AccountCalls -> AccountCall]
      /\ \A d \in AccountCalls : accountCalls'[d] = IF d = c THEN call ELSE accountCalls[d]
  BY DEF IInv, AccountsTypeOK
<1>2. /\ connections \in [Keys -> Connection \union {ACCOUNT_NONE}]
      /\ connections' \in [Keys -> Connection \union {ACCOUNT_NONE}]
      /\ \A m \in Keys : connections'[m] = IF m = k THEN row ELSE connections[m]
  BY DEF IInv, AccountsTypeOK
<1>3. connections[k].version \in Nat /\ row.version \in Nat
  BY DEF Connection
<1>4. AccountsTypeOK'
  BY <1>1, <1>2 DEF IInv, AccountsTypeOK, Registered
<1>5. Registered(k)
  BY AwsAccountsAssumption DEF Registered
<1>6. OneTenantPerAccount'
  BY <1>2, <1>5 DEF IInv, OneTenantPerAccount, Registered
<1>7. ASSUME NEW d \in AccountCalls, d # c
      PROVE  CallOK(accountCalls'[d], connections')
  <2> DEFINE other == accountCalls[d]
  <2>1. accountCalls'[d] = other
    BY <1>1, <1>7
  <2>2. CallOK(other, connections) /\ other \in AccountCall
    BY <1>1 DEF IInv, CallsInv
  <2>3. other.version \in Nat
    BY <2>2 DEF AccountCall
  <2> HIDE DEF other
  <2>4. CASE other.at = "idle"
    BY <2>1, <2>4 DEF CallOK
  <2>5. CASE other.at # "idle" /\ other.key # k
    <3>1. connections'[other.key] = connections[other.key]
      BY <1>2, <2>2, <2>5 DEF CallOK
    <3> QED
      BY <2>1, <2>2, <3>1 DEF CallOK
  <2>6. CASE other.at # "idle" /\ other.key = k
    <3>1. other.version <= connections[k].version
      BY <2>2, <2>6 DEF CallOK
    <3>2. other.version <= row.version /\ other.version # row.version
      BY <1>3, <2>3, <3>1
    <3>3. connections'[other.key] = row
      BY <1>2, <2>6
    <3>4. Fresh(other, row)
      BY <3>2 DEF Fresh
    <3> QED
      BY <2>1, <2>6, <3>2, <3>3, <3>4 DEF CallOK
  <2> QED
    BY <2>4, <2>5, <2>6
<1>8. CallsInv'
  BY <1>1, <1>7 DEF CallsInv
<1>9. ASSUME NEW d \in AccountCalls, d # c, NEW m \in Keys,
             Holds(accountCalls'[d], m, connections'[m])
      PROVE  /\ Holds(accountCalls[d], m, connections[m])
             /\ connections'[m].status = "VALIDATING"
             /\ ~Holds(call, m, connections'[m])
  <2> DEFINE other == accountCalls[d]
  <2>1. accountCalls'[d] = other
    BY <1>1, <1>9
  <2>2. CallOK(other, connections) /\ other \in AccountCall
    BY <1>1 DEF IInv, CallsInv
  <2>3. other.version \in Nat
    BY <2>2 DEF AccountCall
  <2>4. Holds(other, m, connections'[m])
    BY <1>9, <2>1
  <2>5. HeldInv
    BY DEF IInv
  <2> HIDE DEF other
  <2>6. CASE m # k
    <3>1. connections'[m] = connections[m]
      BY <1>2, <2>6
    <3>2. Holds(accountCalls[d], m, connections[m])
      BY <2>4, <3>1 DEF other
    <3>3. connections[m].status = "VALIDATING"
      BY <2>5, <3>2 DEF HeldInv
    <3>4. ~Holds(call, m, connections'[m])
      BY <2>6
    <3> QED
      BY <3>1, <3>2, <3>3, <3>4
  <2>7. CASE m = k
    <3>1. connections'[m] = row
      BY <1>2, <2>7
    <3>2. other.at # "idle" /\ other.key = k
      BY <2>4, <2>7 DEF Holds
    <3>3. other.version <= connections[k].version
      BY <2>2, <3>2 DEF CallOK
    <3>4. other.version # row.version
      BY <1>3, <2>3, <3>3
    <3>5. Holds(other, k, connections[k])
      BY <2>4, <2>7, <3>1, <3>4 DEF Holds
    <3>6. Holds(accountCalls[d], k, connections[k])
      BY <3>5 DEF other
    <3>7. row.status = "VALIDATING" /\ ~Holds(call, k, row)
      BY <1>9, <3>6
    <3> QED
      BY <2>7, <3>1, <3>6, <3>7
  <2> QED
    BY <2>6, <2>7
<1>10. HeldInv'
  <2>1. ASSUME NEW d \in AccountCalls, NEW m \in Keys, Holds(accountCalls'[d], m, connections'[m])
        PROVE  connections'[m].status = "VALIDATING"
    <3>1. CASE d = c
      <4>1. Holds(call, m, connections'[m])
        BY <1>1, <2>1, <3>1
      <4>2. m = k /\ row.status = "VALIDATING"
        BY <4>1
      <4> QED
        BY <1>2, <4>2
    <3>2. CASE d # c
      BY <1>9, <2>1, <3>2
    <3> QED
      BY <3>1, <3>2
  <2> QED
    BY <2>1 DEF HeldInv
<1>11. AloneInv'
  <2>1. ASSUME NEW d \in AccountCalls, NEW e \in AccountCalls, NEW m \in Keys,
               Holds(accountCalls'[d], m, connections'[m]), Holds(accountCalls'[e], m, connections'[m]),
               d # e
        PROVE  FALSE
    <3>1. CASE d = c
      BY <1>1, <1>9, <2>1, <3>1
    <3>2. CASE e = c
      BY <1>1, <1>9, <2>1, <3>2
    <3>3. CASE d # c /\ e # c
      <4>1. Holds(accountCalls[d], m, connections[m]) /\ Holds(accountCalls[e], m, connections[m])
        BY <1>9, <2>1, <3>3
      <4> QED
        BY <2>1, <4>1 DEF IInv, AloneInv
    <3> QED
      BY <3>1, <3>2, <3>3
  <2> QED
    BY <2>1 DEF AloneInv
<1> QED
  BY <1>4, <1>6, <1>8, <1>10, <1>11 DEF IInv

-----------------------------------------------------------------------------
(* The calls that steps leave behind.                                      *)

LEMMA CallFields ==
  ASSUME IInv, NEW c \in AccountCalls
  PROVE  /\ accountCalls[c] \in AccountCall
         /\ accountCalls[c].version \in 0 .. MaxConnectionVersion
         /\ accountCalls[c].version \in Nat
         /\ accountCalls[c].key \in Keys \union {ACCOUNT_NONE}
         /\ accountCalls[c].previous \in ConnectionStatuses \union {ACCOUNT_NONE}
         /\ CallOK(accountCalls[c], connections)
<1>1. accountCalls[c] \in AccountCall /\ CallOK(accountCalls[c], connections)
  BY DEF IInv, AccountsTypeOK, CallsInv
<1>2. MaxConnectionVersion \in Nat
  BY AwsAccountsAssumption
<1> QED
  BY <1>1, <1>2 DEF AccountCall

\* A call that is over.
LEMMA OverCall ==
  ASSUME NEW rows
  PROVE  /\ IdleAccountCall \in AccountCall
         /\ IdleAccountCall.at = "idle"
         /\ CallOK(IdleAccountCall, rows)
         /\ \A k, row : ~Holds(IdleAccountCall, k, row)
BY AwsAccountsAssumption DEF IdleAccountCall, AccountCall, CallOK, Holds

\* A call that goes on with what it knows.
LEMMA NextCall ==
  ASSUME IInv, NEW c \in AccountCalls,
         NEW at \in {"check", "confirm", "revert"}, GoTo(c, at)
  PROVE  \E call \in AccountCall :
           /\ accountCalls' = [accountCalls EXCEPT ![c] = call]
           /\ call.at = at /\ call.key = accountCalls[c].key
           /\ call.version = accountCalls[c].version
<1> DEFINE call == [at |-> at, key |-> accountCalls[c].key, version |-> accountCalls[c].version,
                    previous |-> accountCalls[c].previous]
<1>1. call \in AccountCall
  BY CallFields DEF AccountCall
<1>2. accountCalls[c] \in AccountCall
  BY CallFields
<1>3. call = [accountCalls[c] EXCEPT !.at = at]
  BY <1>2 DEF AccountCall
<1>4. accountCalls' = [accountCalls EXCEPT ![c] = call]
  BY <1>3 DEF GoTo
<1> QED
  BY <1>1, <1>4

\* A step that ends a call and writes nothing.
LEMMA EndStep ==
  ASSUME IInv, NEW c \in AccountCalls, Finish(c), UNCHANGED <<connections, accountLocks>>
  PROVE  IInv'
BY CallStep, OverCall DEF Finish

\* A step that begins a call, which has seen the row as it is.
LEMMA BeginStep ==
  ASSUME IInv, NEW c \in AccountCalls, NEW k \in Keys, Registered(k),
         NEW at \in {"claim", "patch", "discover", "remove"}, BeginCall(c, at, k),
         UNCHANGED <<connections, accountLocks>>,
         at = "claim" => MayTransition(connections[k], "VALIDATING", "IN_PROGRESS"),
         at = "remove" => MayTransition(connections[k], "DELETED", connections[k].verificationStatus)
  PROVE  IInv'
<1> DEFINE call == [at |-> at, key |-> k, version |-> connections[k].version,
                    previous |-> connections[k].status]
<1>1. connections[k] \in Connection
  BY RegisteredRow DEF IInv
<1>2. /\ connections[k].version \in 1 .. MaxConnectionVersion
      /\ connections[k].status \in ConnectionStatuses
  BY <1>1 DEF Connection
<1>3. connections[k].version \in 0 .. MaxConnectionVersion
      /\ connections[k].version <= connections[k].version
  BY <1>2, AwsAccountsAssumption
<1>4. call \in AccountCall
  BY <1>2, <1>3 DEF AccountCall
<1>5. accountCalls' = [accountCalls EXCEPT ![c] = call]
  BY DEF BeginCall
<1>6. /\ call.at = at /\ call.key = k /\ call.version = connections[k].version
      /\ call.previous = connections[k].status
  OBVIOUS
<1> HIDE DEF call
<1>7. CallOK(call, connections)
  BY <1>1, <1>3, <1>6 DEF CallOK, Fresh
<1>8. \A m \in Keys : ~Holds(call, m, connections[m])
  BY <1>6 DEF Holds
<1> QED
  BY <1>4, <1>5, <1>7, <1>8, CallStep

-----------------------------------------------------------------------------
(* What the writes of a call do.                                           *)

\* A row written by its call: the row it knew, one version on.
LEMMA WriterRow ==
  ASSUME IInv, NEW c \in AccountCalls, accountCalls[c].at # "idle", VersionHeld(c)
  PROVE  /\ accountCalls[c].key \in Keys
         /\ connections[accountCalls[c].key] \in Connection
         /\ Consistent(connections[accountCalls[c].key])
         /\ connections[accountCalls[c].key].version \in Nat
         /\ accountCalls[c].version = connections[accountCalls[c].key].version
         /\ Fresh(accountCalls[c], connections[accountCalls[c].key])
<1>1. CallOK(accountCalls[c], connections)
  BY CallFields
<1>2. accountCalls[c].key \in Keys /\ connections[accountCalls[c].key] \in Connection
  BY <1>1 DEF CallOK
<1>3. Registered(accountCalls[c].key)
  BY <1>2, AwsAccountsAssumption DEF Registered
<1>4. Consistent(connections[accountCalls[c].key])
  BY <1>2, <1>3 DEF IInv, AccountsTypeOK
<1>5. Fresh(accountCalls[c], connections[accountCalls[c].key])
  BY <1>1 DEF CallOK
<1>6. MaxConnectionVersion \in Nat
  BY AwsAccountsAssumption
<1>7. connections[accountCalls[c].key].version \in Nat
  BY <1>2, <1>6 DEF Connection
<1> QED
  BY <1>2, <1>4, <1>5, <1>7 DEF VersionHeld

\* A write that ends its call: nobody else may hold the row, unless it stays VALIDATING.
LEMMA WriteAndEnd ==
  ASSUME IInv, NEW c \in AccountCalls, accountCalls[c].at # "idle", VersionHeld(c),
         NEW row, row \in Connection, Consistent(row),
         row.version = connections[accountCalls[c].key].version + 1,
         connections' = [connections EXCEPT ![accountCalls[c].key] = row],
         Finish(c), accountLocks' = accountLocks,
         row.status # "VALIDATING" =>
           \A d \in AccountCalls \ {c} :
             ~Holds(accountCalls[d], accountCalls[c].key, connections[accountCalls[c].key])
  PROVE  IInv'
<1>1. /\ accountCalls[c].key \in Keys /\ connections[accountCalls[c].key] \in Connection
  BY WriterRow
<1>2. accountCalls' = [accountCalls EXCEPT ![c] = IdleAccountCall]
  BY DEF Finish
<1>3. /\ IdleAccountCall \in AccountCall /\ CallOK(IdleAccountCall, connections')
      /\ \A k, r : ~Holds(IdleAccountCall, k, r)
  BY OverCall
<1> QED
  BY <1>1, <1>2, <1>3, RowStep

\* Whoever may write the end of a validation holds the row alone.
LEMMA OneHolder ==
  ASSUME IInv, NEW c \in AccountCalls, accountCalls[c].at \in {"confirm", "revert"}, VersionHeld(c)
  PROVE  /\ connections[accountCalls[c].key].status = "VALIDATING"
         /\ \A d \in AccountCalls \ {c} :
              ~Holds(accountCalls[d], accountCalls[c].key, connections[accountCalls[c].key])
<1>1. accountCalls[c].key \in Keys
  BY WriterRow
<1>2. Holds(accountCalls[c], accountCalls[c].key, connections[accountCalls[c].key])
  BY DEF Holds, VersionHeld
<1> QED
  BY <1>1, <1>2 DEF IInv, HeldInv, AloneInv

\* A row that is not VALIDATING is held by nobody.
LEMMA NoHolder ==
  ASSUME IInv, NEW k \in Keys, connections[k].status # "VALIDATING"
  PROVE  \A d \in AccountCalls : ~Holds(accountCalls[d], k, connections[k])
BY DEF IInv, HeldInv

-----------------------------------------------------------------------------
(* The actions.                                                            *)

LEMMA RegisterStep ==
  ASSUME IInv, NEW k \in Keys, Register(k)
  PROVE  IInv'
<1> DEFINE row == [status |-> "PENDING", verificationStatus |-> "NOT_STARTED",
                   lastValidated |-> FALSE, version |-> 1]
<1>1. row \in Connection
  BY AwsAccountsAssumption DEF Connection, ConnectionStatuses, VerificationStatuses
<1>2. row.status = "PENDING" /\ Consistent(row)
  BY DEF Consistent
<1>3. connections' = [connections EXCEPT ![k] = row]
  BY DEF Register
<1> HIDE DEF row
<1>4. k[1] \in Tenants /\ k[2] \in AccountIds
  BY DEF Keys
<1>5. /\ ~Registered(k) /\ accountLocks[k[2]] = ACCOUNT_NONE /\ accountCalls' = accountCalls
      /\ accountLocks' = [accountLocks EXCEPT ![k[2]] = k[1]]
  BY DEF Register, RegistrationAllowed
<1>6. /\ connections \in [Keys -> Connection \union {ACCOUNT_NONE}]
      /\ connections' \in [Keys -> Connection \union {ACCOUNT_NONE}]
      /\ \A m \in Keys : connections'[m] = IF m = k THEN row ELSE connections[m]
  BY <1>1, <1>3 DEF IInv, AccountsTypeOK
<1>7. /\ accountLocks' \in [AccountIds -> Tenants \union {ACCOUNT_NONE}]
      /\ \A a \in AccountIds : accountLocks'[a] = IF a = k[2] THEN k[1] ELSE accountLocks[a]
  BY <1>4, <1>5 DEF IInv, AccountsTypeOK
<1>8. AccountsTypeOK'
  BY <1>2, <1>5, <1>6, <1>7 DEF IInv, AccountsTypeOK, Registered
<1>9. \A m \in Keys : m # k /\ Registered(m) => m[2] # k[2]
  <2>1. ASSUME NEW m \in Keys, m # k, Registered(m), m[2] = k[2]
        PROVE  FALSE
    <3>1. accountLocks[m[2]] = m[1] /\ m[1] \in Tenants
      BY <2>1 DEF IInv, OneTenantPerAccount, Keys
    <3> QED
      BY <1>5, <2>1, <3>1, AwsAccountsAssumption
  <2> QED
    BY <2>1
<1>10. OneTenantPerAccount'
  <2>1. ASSUME NEW m \in Keys, connections'[m] # ACCOUNT_NONE
        PROVE  accountLocks'[m[2]] = m[1]
    <3>1. m[2] \in AccountIds
      BY DEF Keys
    <3>2. CASE m = k
      BY <1>7, <3>1, <3>2
    <3>3. CASE m # k
      <4>1. Registered(m) /\ connections[m] # ACCOUNT_NONE
        BY <1>6, <2>1, <3>3 DEF Registered
      <4>2. m[2] # k[2] /\ accountLocks[m[2]] = m[1]
        BY <1>9, <3>3, <4>1 DEF IInv, OneTenantPerAccount
      <4> QED
        BY <1>7, <3>1, <4>2
    <3> QED
      BY <3>2, <3>3
  <2> QED
    BY <2>1 DEF OneTenantPerAccount, Registered
<1>11. ASSUME NEW d \in AccountCalls, accountCalls[d].at # "idle"
       PROVE  accountCalls[d].key # k
  <2>1. connections[accountCalls[d].key] \in Connection
    BY <1>11, CallFields DEF CallOK
  <2> QED
    BY <1>5, <2>1, AwsAccountsAssumption DEF Registered
<1>12. CallsInv'
  <2>1. ASSUME NEW d \in AccountCalls
        PROVE  CallOK(accountCalls[d], connections')
    <3>1. CallOK(accountCalls[d], connections)
      BY CallFields
    <3>2. CASE accountCalls[d].at = "idle"
      BY <3>2 DEF CallOK
    <3>3. CASE accountCalls[d].at # "idle"
      <4>1. accountCalls[d].key \in Keys /\ accountCalls[d].key # k
        BY <1>11, <3>1, <3>3 DEF CallOK
      <4>2. connections'[accountCalls[d].key] = connections[accountCalls[d].key]
        BY <1>6, <4>1
      <4> QED
        BY <3>1, <4>2 DEF CallOK
    <3> QED
      BY <3>2, <3>3
  <2> QED
    BY <1>5, <2>1 DEF CallsInv
<1>13. ASSUME NEW d \in AccountCalls, NEW m \in Keys, Holds(accountCalls[d], m, connections'[m])
       PROVE  connections'[m] = connections[m]
  <2>1. accountCalls[d].at # "idle" /\ accountCalls[d].key = m
    BY <1>13 DEF Holds
  <2> QED
    BY <1>6, <1>11, <2>1
<1>14. HeldInv'
  <2>1. ASSUME NEW d \in AccountCalls, NEW m \in Keys, Holds(accountCalls[d], m, connections'[m])
        PROVE  connections'[m].status = "VALIDATING"
    <3>1. connections'[m] = connections[m]
      BY <1>13, <2>1
    <3> QED
      BY <2>1, <3>1 DEF IInv, HeldInv
  <2> QED
    BY <1>5, <2>1 DEF HeldInv
<1>15. AloneInv'
  <2>1. ASSUME NEW d \in AccountCalls, NEW e \in AccountCalls, NEW m \in Keys,
               Holds(accountCalls[d], m, connections'[m]), Holds(accountCalls[e], m, connections'[m])
        PROVE  d = e
    <3>1. connections'[m] = connections[m]
      BY <1>13, <2>1
    <3> QED
      BY <2>1, <3>1 DEF IInv, AloneInv
  <2> QED
    BY <1>5, <2>1 DEF AloneInv
<1> QED
  BY <1>8, <1>10, <1>12, <1>14, <1>15 DEF IInv

LEMMA ClaimValidationStep ==
  ASSUME IInv, NEW c \in AccountCalls, ClaimValidation(c)
  PROVE  IInv'
<1>1. accountCalls[c].at = "claim" /\ accountLocks' = accountLocks
  BY DEF ClaimValidation
<1>2. CASE ~VersionHeld(c)
  <2>1. Finish(c) /\ UNCHANGED <<connections, accountLocks>>
    BY <1>1, <1>2 DEF ClaimValidation
  <2> QED
    BY <2>1, EndStep
<1>3. CASE VersionHeld(c)
  <2> DEFINE k == accountCalls[c].key
  <2> DEFINE old == connections[k]
  <2> DEFINE row == Transitioned(old, "VALIDATING", "IN_PROGRESS")
  <2> DEFINE call == [at |-> "check", key |-> k, version |-> old.version + 1,
                      previous |-> accountCalls[c].previous]
  <2>1. /\ k \in Keys /\ old \in Connection /\ Consistent(old) /\ old.version \in Nat
        /\ accountCalls[c].version = old.version /\ Fresh(accountCalls[c], old)
    BY <1>1, <1>3, WriterRow
  <2>2. /\ row.version <= MaxConnectionVersion
        /\ connections' = [connections EXCEPT ![k] = row]
        /\ accountCalls' = [accountCalls EXCEPT ![c] = call]
    BY <1>3 DEF ClaimValidation, Write
  <2>3. MayTransition(old, "VALIDATING", "IN_PROGRESS")
    BY <1>1, <2>1 DEF Fresh
  <2>4. Consistent(row) /\ old.status # "VALIDATING"
    BY <2>1, <2>3, MayLeave DEF MayTransition
  <2>5. /\ row.version = old.version + 1 /\ row.status = "VALIDATING"
    BY TransitionedVersion
  <2>6. "VALIDATING" \in ConnectionStatuses /\ "IN_PROGRESS" \in VerificationStatuses
    BY DEF ConnectionStatuses, VerificationStatuses
  <2>7. row \in Connection
    BY <2>1, <2>2, <2>5, <2>6, TransitionedRow
  <2>8. accountCalls[c] \in AccountCall /\ accountCalls[c].previous \in ConnectionStatuses \union {ACCOUNT_NONE}
    BY CallFields
  <2>9. old.version + 1 \in 0 .. MaxConnectionVersion
    BY <2>1, <2>2, <2>5, AwsAccountsAssumption
  <2>10. call \in AccountCall
    BY <2>1, <2>8, <2>9 DEF AccountCall
  <2>11. accountCalls' = [accountCalls EXCEPT ![c] = call]
    BY <2>2
  <2>12. call.at = "check" /\ call.key = k /\ call.version = old.version + 1
    OBVIOUS
  <2>13. connections'[k] = row
    BY <2>1, <2>2 DEF IInv, AccountsTypeOK
  <2>14. \A d \in AccountCalls : ~Holds(accountCalls[d], k, connections[k])
    BY <2>1, <2>4, NoHolder
  <2>15. old.version + 1 <= old.version + 1
    BY <2>1
  <2> HIDE DEF call, row, old, k
  <2>16. CallOK(call, connections')
    BY <2>1, <2>5, <2>7, <2>12, <2>13, <2>15 DEF CallOK, Fresh
  <2>17. \A m \in Keys : Holds(call, m, connections'[m]) => m = k /\ row.status = "VALIDATING"
    BY <2>5, <2>12 DEF Holds
  <2>18. connections[k] \in Connection /\ row.version = connections[k].version + 1
    BY <2>1, <2>5 DEF old
  <2>19. connections' = [connections EXCEPT ![k] = row]
    BY <2>2
  <2>20. \A d \in AccountCalls \ {c} :
           Holds(accountCalls[d], k, connections[k]) =>
             row.status = "VALIDATING" /\ ~Holds(call, k, row)
    BY <2>14
  <2>21. k \in Keys /\ Consistent(row)
    BY <2>1, <2>4
  <2> QED
    BY <1>1, <2>7, <2>10, <2>11, <2>16, <2>17, <2>18, <2>19, <2>20, <2>21, RowStep
<1> QED
  BY <1>2, <1>3

\* A call that goes on without a write: to the next step of its validation, or to its
\* failure after the role or the confirmation failed.
LEMMA GoOnStep ==
  ASSUME IInv, NEW c \in AccountCalls, accountCalls[c].at \in {"check", "confirm"},
         NEW at \in {"confirm", "revert"}, GoTo(c, at), UNCHANGED <<connections, accountLocks>>
  PROVE  IInv'
<1>1. PICK call \in AccountCall :
        /\ accountCalls' = [accountCalls EXCEPT ![c] = call]
        /\ call.at = at /\ call.key = accountCalls[c].key
        /\ call.version = accountCalls[c].version
  BY NextCall
<1>2. CallOK(accountCalls[c], connections)
  BY CallFields
<1>3. CallOK(call, connections)
  BY <1>1, <1>2 DEF CallOK, Fresh
<1>4. \A k \in Keys : Holds(call, k, connections[k]) => Holds(accountCalls[c], k, connections[k])
  BY <1>1 DEF Holds
<1> QED
  BY <1>1, <1>3, <1>4, CallStep

LEMMA ConfirmValidationStep ==
  ASSUME IInv, NEW c \in AccountCalls, ConfirmValidation(c)
  PROVE  IInv'
<1>1. accountCalls[c].at = "confirm" /\ accountLocks' = accountLocks
  BY DEF ConfirmValidation
<1>2. CASE GoTo(c, "revert") /\ UNCHANGED connections
  BY <1>1, <1>2, GoOnStep
<1>3. CASE /\ VersionHeld(c)
           /\ Write(c, Transitioned(connections[accountCalls[c].key], "VERIFIED", "SUCCEEDED"))
           /\ Finish(c) \/ GoTo(c, "revert")
  <2> DEFINE k == accountCalls[c].key
  <2> DEFINE old == connections[k]
  <2> DEFINE row == Transitioned(old, "VERIFIED", "SUCCEEDED")
  <2>1. /\ k \in Keys /\ old \in Connection /\ old.version \in Nat
        /\ accountCalls[c].version = old.version
    BY <1>1, <1>3, WriterRow
  <2>2. row.version <= MaxConnectionVersion /\ connections' = [connections EXCEPT ![k] = row]
    BY <1>3 DEF Write
  <2>3. "VERIFIED" \in ConnectionStatuses /\ "SUCCEEDED" \in VerificationStatuses
    BY DEF ConnectionStatuses, VerificationStatuses
  <2>4. /\ row.version = old.version + 1 /\ row.status = "VERIFIED"
        /\ row.verificationStatus = "SUCCEEDED"
    BY TransitionedVersion
  <2>5. row \in Connection
    BY <2>1, <2>2, <2>3, <2>4, TransitionedRow
  <2>6. Consistent(row)
    BY <2>4 DEF Consistent
  <2>7. \A d \in AccountCalls \ {c} : ~Holds(accountCalls[d], k, connections[k])
    BY <1>1, <1>3, OneHolder
  <2>8. CASE Finish(c)
    BY <1>1, <1>3, <2>2, <2>4, <2>5, <2>6, <2>7, <2>8, WriteAndEnd
  <2>9. CASE GoTo(c, "revert")
    <3>1. PICK call \in AccountCall :
            /\ accountCalls' = [accountCalls EXCEPT ![c] = call]
            /\ call.at = "revert" /\ call.key = k
            /\ call.version = accountCalls[c].version
      BY <2>9, NextCall
    <3>2. connections'[k] = row
      BY <2>1, <2>2 DEF IInv, AccountsTypeOK
    <3>3. call.version = old.version
      BY <2>1, <3>1
    <3>4. call.version <= row.version /\ call.version # row.version
      BY <2>1, <2>4, <3>3
    <3>5. connections[k] \in Connection /\ row.version = connections[k].version + 1
      BY <2>1, <2>4
    <3> HIDE DEF row, old, k
    <3>6. CallOK(call, connections')
      BY <2>1, <2>5, <3>1, <3>2, <3>4 DEF CallOK, Fresh
    <3>7. \A m \in Keys : ~Holds(call, m, connections'[m])
      BY <3>1, <3>2, <3>4 DEF Holds
    <3>8. connections' = [connections EXCEPT ![k] = row] /\ k \in Keys
      BY <2>1, <2>2
    <3>9. accountCalls' = [accountCalls EXCEPT ![c] = call]
      BY <3>1
    <3>10. \A m \in Keys : Holds(call, m, connections'[m]) => m = k /\ row.status = "VALIDATING"
      BY <3>7
    <3>11. \A d \in AccountCalls \ {c} :
             Holds(accountCalls[d], k, connections[k]) =>
               row.status = "VALIDATING" /\ ~Holds(call, k, row)
      BY <2>7 DEF k
    <3> QED
      BY <1>1, <2>5, <2>6, <3>5, <3>6, <3>8, <3>9, <3>10, <3>11, RowStep
  <2> QED
    BY <1>3, <2>8, <2>9
<1> QED
  BY <1>2, <1>3 DEF ConfirmValidation

LEMMA FailVerificationStep ==
  ASSUME IInv, NEW c \in AccountCalls, FailVerification(c)
  PROVE  IInv'
<1>1. accountCalls[c].at = "revert" /\ accountLocks' = accountLocks /\ Finish(c)
  BY DEF FailVerification
<1>2. CASE ~VersionHeld(c)
  BY <1>1, <1>2, EndStep DEF FailVerification
<1>3. CASE VersionHeld(c)
  <2> DEFINE k == accountCalls[c].key
  <2> DEFINE old == connections[k]
  <2> DEFINE to == RevertTo(accountCalls[c].previous)
  <2> DEFINE row == Transitioned(old, to, "FAILED")
  <2>1. /\ k \in Keys /\ old \in Connection
    BY <1>1, <1>3, WriterRow
  <2>2. row.version <= MaxConnectionVersion /\ connections' = [connections EXCEPT ![k] = row]
    BY <1>3 DEF FailVerification, Write
  <2>3. to \in ConnectionStatuses /\ to \in {"PENDING", "SUSPENDED"} /\ "FAILED" \in VerificationStatuses
    BY DEF RevertTo, ConnectionStatuses, VerificationStatuses
  <2>4. /\ row.version = old.version + 1 /\ row.status = to /\ row.verificationStatus = "FAILED"
    BY TransitionedVersion
  <2>5. row \in Connection
    BY <2>1, <2>2, <2>3, <2>4, TransitionedRow
  <2>6. Consistent(row)
    BY <2>3, <2>4 DEF Consistent
  <2>7. \A d \in AccountCalls \ {c} : ~Holds(accountCalls[d], k, connections[k])
    BY <1>1, <1>3, OneHolder
  <2> QED
    BY <1>1, <1>3, <2>2, <2>4, <2>5, <2>6, <2>7, WriteAndEnd
<1> QED
  BY <1>2, <1>3

LEMMA UpdateMetadataStep ==
  ASSUME IInv, NEW c \in AccountCalls, UpdateMetadata(c)
  PROVE  IInv'
<1>1. accountCalls[c].at # "idle" /\ accountLocks' = accountLocks /\ Finish(c)
  BY DEF UpdateMetadata
<1>2. CASE UNCHANGED connections
  BY <1>1, <1>2, EndStep
<1>3. CASE /\ VersionHeld(c)
           /\ Write(c, [connections[accountCalls[c].key] EXCEPT !.version = @ + 1])
  <2> DEFINE k == accountCalls[c].key
  <2> DEFINE old == connections[k]
  <2> DEFINE row == [old EXCEPT !.version = @ + 1]
  <2>1. /\ k \in Keys /\ old \in Connection /\ Consistent(old) /\ old.version \in Nat
    BY <1>1, <1>3, WriterRow
  <2>2. row.version <= MaxConnectionVersion /\ connections' = [connections EXCEPT ![k] = row]
    BY <1>3 DEF Write
  <2>3. /\ row.version = old.version + 1 /\ row.status = old.status
        /\ row.verificationStatus = old.verificationStatus /\ row.lastValidated = old.lastValidated
    BY <2>1 DEF Connection
  <2>4. old.version + 1 \in 1 .. MaxConnectionVersion
    BY <2>1, <2>2, <2>3, AwsAccountsAssumption
  <2>5. row \in Connection
    BY <2>1, <2>4 DEF Connection
  <2>6. Consistent(row)
    BY <2>1, <2>3 DEF Consistent
  <2>7. row.status # "VALIDATING" => \A d \in AccountCalls : ~Holds(accountCalls[d], k, connections[k])
    BY <2>1, <2>3, NoHolder
  <2> QED
    BY <1>1, <1>3, <2>2, <2>3, <2>5, <2>6, <2>7, WriteAndEnd
<1> QED
  BY <1>2, <1>3 DEF UpdateMetadata

LEMMA WriteRemovedStep ==
  ASSUME IInv, NEW c \in AccountCalls, WriteRemoved(c)
  PROVE  IInv'
<1>1. accountCalls[c].at = "remove" /\ accountLocks' = accountLocks /\ Finish(c)
  BY DEF WriteRemoved
<1>2. CASE ~VersionHeld(c)
  BY <1>1, <1>2, EndStep DEF WriteRemoved
<1>3. CASE VersionHeld(c)
  <2> DEFINE k == accountCalls[c].key
  <2> DEFINE old == connections[k]
  <2> DEFINE row == Transitioned(old, "DELETED", old.verificationStatus)
  <2>1. /\ k \in Keys /\ old \in Connection /\ Consistent(old) /\ old.version \in Nat
        /\ accountCalls[c].version = old.version /\ Fresh(accountCalls[c], old)
    BY <1>1, <1>3, WriterRow
  <2>2. row.version <= MaxConnectionVersion /\ connections' = [connections EXCEPT ![k] = row]
    BY <1>3 DEF WriteRemoved, Write
  <2>3. MayTransition(old, "DELETED", old.verificationStatus)
    BY <1>1, <2>1 DEF Fresh
  <2>4. Consistent(row) /\ old.status # "VALIDATING"
    BY <2>1, <2>3, MayLeave DEF MayTransition
  <2>5. "DELETED" \in ConnectionStatuses /\ old.verificationStatus \in VerificationStatuses
    BY <2>1 DEF ConnectionStatuses, Connection
  <2>6. row.version = old.version + 1
    BY TransitionedVersion
  <2>7. row \in Connection
    BY <2>1, <2>2, <2>5, <2>6, TransitionedRow
  <2>8. \A d \in AccountCalls : ~Holds(accountCalls[d], k, connections[k])
    BY <2>1, <2>4, NoHolder
  <2> QED
    BY <1>1, <1>3, <2>2, <2>4, <2>6, <2>7, <2>8, WriteAndEnd
<1> QED
  BY <1>2, <1>3

-----------------------------------------------------------------------------
(* The invariant.                                                          *)

LEMMA InitIInv == AwsAccountsInit => IInv
<1> SUFFICES ASSUME AwsAccountsInit PROVE IInv
  OBVIOUS
<1>1. /\ \A k \in Keys : connections[k] = ACCOUNT_NONE
      /\ \A c \in AccountCalls : accountCalls[c] = IdleAccountCall
  BY DEF AwsAccountsInit
<1>2. \A k \in Keys : ~Registered(k)
  BY <1>1 DEF Registered
<1>3. AccountsTypeOK
  BY <1>2, OverCall DEF AwsAccountsInit, AccountsTypeOK
<1>4. OneTenantPerAccount
  BY <1>2 DEF OneTenantPerAccount
<1>5. CallsInv
  BY <1>1, OverCall DEF CallsInv
<1>6. HeldInv /\ AloneInv
  BY <1>1, OverCall DEF HeldInv, AloneInv
<1> QED
  BY <1>3, <1>4, <1>5, <1>6 DEF IInv

LEMMA StutterIInv == IInv /\ UNCHANGED accountVars => IInv'
<1> SUFFICES ASSUME IInv, UNCHANGED accountVars PROVE IInv'
  OBVIOUS
<1>1. connections' = connections /\ accountLocks' = accountLocks /\ accountCalls' = accountCalls
  BY DEF accountVars
<1> QED
  BY <1>1 DEF IInv, AccountsTypeOK, OneTenantPerAccount, CallsInv, HeldInv, AloneInv, Registered

\* Each action, as it is enabled and with the call and the connection it works on.
LEMMA StepIInv == IInv /\ AwsAccountsNext => IInv'
<1> SUFFICES ASSUME IInv, AwsAccountsNext PROVE IInv'
  OBVIOUS
<1>1. ASSUME NEW k \in Keys, Register(k) PROVE IInv'
  BY <1>1, RegisterStep
<1>2. ASSUME NEW c \in AccountCalls, NEW k \in Keys, VerifyConnection(c, k) PROVE IInv'
  BY <1>2, BeginStep DEF VerifyConnection
<1>3. ASSUME NEW c \in AccountCalls, NEW k \in Keys, UpdateConfiguration(c, k) PROVE IInv'
  BY <1>3, BeginStep DEF UpdateConfiguration
<1>4. ASSUME NEW c \in AccountCalls, NEW k \in Keys, Discover(c, k) PROVE IInv'
  BY <1>4, BeginStep DEF Discover
<1>5. ASSUME NEW c \in AccountCalls, NEW k \in Keys, Remove(c, k) PROVE IInv'
  BY <1>5, BeginStep DEF Remove
<1>6. ASSUME NEW c \in AccountCalls, ClaimValidation(c) PROVE IInv'
  BY <1>6, ClaimValidationStep
<1>7. ASSUME NEW c \in AccountCalls, CheckRole(c) PROVE IInv'
  BY <1>7, GoOnStep DEF CheckRole
<1>8. ASSUME NEW c \in AccountCalls, ConfirmValidation(c) PROVE IInv'
  BY <1>8, ConfirmValidationStep
<1>9. ASSUME NEW c \in AccountCalls, FailVerification(c) PROVE IInv'
  BY <1>9, FailVerificationStep
<1>10. ASSUME NEW c \in AccountCalls, UpdateMetadata(c) PROVE IInv'
  BY <1>10, UpdateMetadataStep
<1>11. ASSUME NEW c \in AccountCalls, WriteRemoved(c) PROVE IInv'
  BY <1>11, WriteRemovedStep
<1>12. ASSUME NEW c \in AccountCalls, AccountCallDies(c) PROVE IInv'
  BY <1>12, EndStep DEF AccountCallDies
<1> QED
  BY <1>1, <1>2, <1>3, <1>4, <1>5, <1>6, <1>7, <1>8, <1>9, <1>10, <1>11, <1>12
     DEF AwsAccountsNext

\* In every behaviour: rows, locks and calls have their types, the call that holds a row
\* is alone, and what a call saw is true until the row is written.
LEMMA InvariantHolds == AwsAccountsSpec => []IInv
<1>1. IInv /\ [AwsAccountsNext]_accountVars => IInv'
  BY StepIInv, StutterIInv
<1> QED
  BY InitIInv, <1>1, PTL DEF AwsAccountsSpec

-----------------------------------------------------------------------------
(* What the service promises.                                              *)

\* Every row that the calls leave is one the repository's consistency rules accept:
\* transitionStatus checks the row it writes, and the row it had read is still there.
THEOREM RowsAreConsistent == AwsAccountsSpec => []AccountsTypeOK
<1>1. IInv => AccountsTypeOK
  BY DEF IInv
<1> QED
  BY InvariantHolds, <1>1, PTL

\* An account id is connected to one tenant: the transaction of a registration
\* puts the lock of the id together with the row, and nothing removes it.
THEOREM AccountIdsAreExclusive == AwsAccountsSpec => []OneTenantPerAccount
<1>1. IInv => OneTenantPerAccount
  BY DEF IInv
<1> QED
  BY InvariantHolds, <1>1, PTL

\* Two verifications never check one account at once, however many calls there are.
THEOREM OneValidationAtATime == AwsAccountsSpec => []ValidationExclusion
<1>1. IInv => ValidationExclusion
  BY DEF IInv, AloneInv, ValidationExclusion, Checking, Holds
<1> QED
  BY InvariantHolds, <1>1, PTL

\* What a step does to one row that is registered.
LEMMA RowChange ==
  ASSUME IInv, AwsAccountsNext, NEW k \in Keys, Registered(k), connections'[k] # connections[k]
  PROVE  \E c \in AccountCalls :
           /\ accountCalls[c].key = k /\ VersionHeld(c) /\ accountCalls[c].at # "idle"
           /\ connections[k].status # "DELETED" \/ connections'[k].status = "DELETED"
           /\ connections'[k].status = "VERIFIED" =>
                connections[k].status = "VERIFIED" \/ accountCalls[c].at = "confirm"
<1>1. connections \in [Keys -> Connection \union {ACCOUNT_NONE}]
  BY DEF IInv, AccountsTypeOK
<1>2. ASSUME NEW c \in AccountCalls, NEW row, Write(c, row), accountCalls[c].key \in Keys
      PROVE  accountCalls[c].key = k /\ connections'[k] = row
  BY <1>1, <1>2 DEF Write
<1>3. ASSUME NEW m \in Keys, Register(m)
      PROVE  FALSE
  <2>1. ~Registered(m) /\ m # k
    BY <1>3 DEF Register, RegistrationAllowed
  <2> QED
    BY <1>1, <1>3, <2>1 DEF Register
<1>4. ASSUME NEW c \in AccountCalls, ClaimValidation(c)
      PROVE  /\ accountCalls[c].key = k /\ VersionHeld(c) /\ accountCalls[c].at # "idle"
             /\ connections[k].status # "DELETED"
             /\ connections'[k].status # "VERIFIED"
  <2>1. VersionHeld(c) /\ accountCalls[c].at = "claim"
    BY <1>4 DEF ClaimValidation
  <2>2. Write(c, Transitioned(connections[accountCalls[c].key], "VALIDATING", "IN_PROGRESS"))
    BY <1>4, <2>1 DEF ClaimValidation
  <2>3. /\ accountCalls[c].key \in Keys /\ connections[accountCalls[c].key] \in Connection
        /\ Consistent(connections[accountCalls[c].key])
        /\ MayTransition(connections[accountCalls[c].key], "VALIDATING", "IN_PROGRESS")
    BY <2>1, WriterRow DEF Fresh
  <2>4. /\ accountCalls[c].key = k
        /\ connections'[k] = Transitioned(connections[k], "VALIDATING", "IN_PROGRESS")
    BY <1>2, <2>2, <2>3
  <2> QED
    BY <2>1, <2>3, <2>4, MayLeave, TransitionedVersion
<1>5. ASSUME NEW c \in AccountCalls, ConfirmValidation(c)
      PROVE  /\ accountCalls[c].key = k /\ VersionHeld(c) /\ accountCalls[c].at = "confirm"
             /\ connections[k].status # "DELETED"
  <2>1. /\ VersionHeld(c) /\ accountCalls[c].at = "confirm"
        /\ Write(c, Transitioned(connections[accountCalls[c].key], "VERIFIED", "SUCCEEDED"))
    BY <1>5 DEF ConfirmValidation
  <2>2. accountCalls[c].key \in Keys /\ connections[accountCalls[c].key].status = "VALIDATING"
    BY <2>1, WriterRow, OneHolder
  <2> QED
    BY <1>2, <2>1, <2>2
<1>6. ASSUME NEW c \in AccountCalls, FailVerification(c)
      PROVE  /\ accountCalls[c].key = k /\ VersionHeld(c) /\ accountCalls[c].at # "idle"
             /\ connections[k].status # "DELETED" /\ connections'[k].status # "VERIFIED"
  <2> DEFINE to == RevertTo(accountCalls[c].previous)
  <2>1. /\ VersionHeld(c) /\ accountCalls[c].at = "revert"
        /\ Write(c, Transitioned(connections[accountCalls[c].key], to, "FAILED"))
    BY <1>6 DEF FailVerification
  <2>2. accountCalls[c].key \in Keys /\ connections[accountCalls[c].key].status = "VALIDATING"
    BY <2>1, WriterRow, OneHolder
  <2>3. to # "VERIFIED"
    BY DEF RevertTo
  <2>4. accountCalls[c].key = k /\ connections'[k] = Transitioned(connections[k], to, "FAILED")
    BY <1>2, <2>1, <2>2
  <2> HIDE DEF to
  <2>5. connections'[k].status = to
    BY <2>4, TransitionedVersion
  <2> QED
    BY <2>1, <2>2, <2>3, <2>4, <2>5
<1>7. ASSUME NEW c \in AccountCalls, UpdateMetadata(c)
      PROVE  /\ accountCalls[c].key = k /\ VersionHeld(c) /\ accountCalls[c].at # "idle"
             /\ connections'[k].status = connections[k].status
  <2>1. /\ VersionHeld(c) /\ accountCalls[c].at # "idle"
        /\ Write(c, [connections[accountCalls[c].key] EXCEPT !.version = @ + 1])
    BY <1>7 DEF UpdateMetadata
  <2>2. accountCalls[c].key \in Keys /\ connections[accountCalls[c].key] \in Connection
    BY <2>1, WriterRow
  <2>3. /\ accountCalls[c].key = k
        /\ connections'[k] = [connections[k] EXCEPT !.version = @ + 1]
    BY <1>2, <2>1, <2>2
  <2>4. connections'[k].status = connections[k].status
    BY <2>2, <2>3 DEF Connection
  <2> QED
    BY <2>1, <2>3, <2>4
<1>8. ASSUME NEW c \in AccountCalls, WriteRemoved(c)
      PROVE  /\ accountCalls[c].key = k /\ VersionHeld(c) /\ accountCalls[c].at # "idle"
             /\ connections'[k].status = "DELETED"
  <2>1. VersionHeld(c) /\ accountCalls[c].at = "remove"
    BY <1>8 DEF WriteRemoved
  <2>2. Write(c, Transitioned(connections[accountCalls[c].key], "DELETED",
                              connections[accountCalls[c].key].verificationStatus))
    BY <1>8, <2>1 DEF WriteRemoved
  <2>3. accountCalls[c].key \in Keys
    BY <2>1, WriterRow
  <2>4. /\ accountCalls[c].key = k
        /\ connections'[k] = Transitioned(connections[k], "DELETED", connections[k].verificationStatus)
    BY <1>2, <2>2, <2>3
  <2> QED
    BY <2>1, <2>4, TransitionedVersion
<1>9. PICK c \in AccountCalls :
        \/ ClaimValidation(c) \/ ConfirmValidation(c) \/ FailVerification(c)
        \/ UpdateMetadata(c) \/ WriteRemoved(c)
  BY <1>3 DEF AwsAccountsNext, VerifyConnection, UpdateConfiguration, Discover, Remove, CheckRole,
     AccountCallDies
<1>10. CASE ClaimValidation(c)
  BY <1>4, <1>10
<1>11. CASE ConfirmValidation(c)
  BY <1>5, <1>11
<1>12. CASE FailVerification(c)
  BY <1>6, <1>12
<1>13. CASE UpdateMetadata(c)
  BY <1>7, <1>13
<1>14. CASE WriteRemoved(c)
  BY <1>8, <1>14
<1> QED
  BY <1>9, <1>10, <1>11, <1>12, <1>13, <1>14

\* A row becomes VERIFIED by the call that holds it and under the version that call
\* claimed: nothing that was written since is overtaken.
THEOREM VerificationIsEarned == AwsAccountsSpec => VerifiedWasValidated
<1> DEFINE Earned ==
      \A k \in Keys :
        Registered(k) /\ connections[k].status # "VERIFIED" /\ connections'[k].status = "VERIFIED" =>
          \E c \in AccountCalls : Validated(c, k)
<1>1. ASSUME IInv, AwsAccountsNext PROVE Earned
  <2> SUFFICES ASSUME NEW k \in Keys, Registered(k), connections[k].status # "VERIFIED",
                      connections'[k].status = "VERIFIED"
               PROVE  \E c \in AccountCalls : Validated(c, k)
    OBVIOUS
  <2>1. connections'[k] # connections[k]
    OBVIOUS
  <2>2. PICK c \in AccountCalls :
          /\ accountCalls[c].key = k /\ VersionHeld(c) /\ accountCalls[c].at = "confirm"
    BY <1>1, <2>1, RowChange
  <2>3. connections[k].status = "VALIDATING"
    BY <1>1, <2>2, OneHolder
  <2> QED
    BY <2>2, <2>3 DEF Validated, VersionHeld
<1>2. IInv /\ [AwsAccountsNext]_accountVars => [Earned]_accountVars
  BY <1>1
<1> QED
  BY InvariantHolds, <1>2, PTL DEF AwsAccountsSpec, VerifiedWasValidated

\* A removed connection stays removed: what began before the removal conflicts with it,
\* and what begins after it finds no transition.
THEOREM RemovalIsFinal == AwsAccountsSpec => RemovedConnectionIsFinal
<1> DEFINE Final ==
      \A k \in Keys :
        Registered(k) /\ connections[k].status = "DELETED" => connections'[k].status = "DELETED"
<1>1. ASSUME IInv, AwsAccountsNext PROVE Final
  <2> SUFFICES ASSUME NEW k \in Keys, Registered(k), connections[k].status = "DELETED",
                      connections'[k] # connections[k]
               PROVE  connections'[k].status = "DELETED"
    OBVIOUS
  <2> QED
    BY <1>1, RowChange
<1>2. IInv /\ [AwsAccountsNext]_accountVars => [Final]_accountVars
  BY <1>1
<1> QED
  BY InvariantHolds, <1>2, PTL DEF AwsAccountsSpec, RemovedConnectionIsFinal

-----------------------------------------------------------------------------
(* The lifecycle: what each step is of it.                                 *)

Status == [k \in Keys |-> IF Registered(k) THEN connections[k].status ELSE ACCOUNT_NONE]
Claims == [k \in Keys |-> StandingClaims(k)]

LifecycleSteps == [AccountLifecycle!Next]_(AccountLifecycle!lifecycleVars)

\* A call whose claim on a row stands, and the claim.
Stands(call, k, row) ==
  /\ call.at \in {"check", "confirm", "revert"}
  /\ call.key = k /\ call.version = row.version

ClaimOf(c, call) == [by |-> c, found |-> call.previous]

\* A call that is over or works on k.
WorksOn(call, k) == call.at = "idle" \/ call.key = k

\* Call c writes the row of k that it knew, and goes on as call.
WritesRow(c, call, k, row) ==
  /\ k \in Keys /\ connections[k] \in Connection /\ row \in Connection
  /\ row.version = connections[k].version + 1
  /\ accountCalls[c].key = k /\ WorksOn(call, k)
  /\ connections' = [connections EXCEPT ![k] = row]
  /\ accountCalls' = [accountCalls EXCEPT ![c] = call]

\* The same, and the call is over, or goes on with the version it had.
LastWrite(c, call, k, row) ==
  /\ accountCalls[c].at # "idle" /\ accountCalls[c].key = k /\ VersionHeld(c)
  /\ row \in Connection /\ row.version = connections[k].version + 1
  /\ call.at = "idle" \/ (call.key = k /\ call.version = accountCalls[c].version)
  /\ connections' = [connections EXCEPT ![k] = row]
  /\ accountCalls' = [accountCalls EXCEPT ![c] = call]

LEMMA StandingHolds ==
  ASSUME IInv, NEW c \in AccountCalls, NEW d \in AccountCalls, NEW k \in Keys,
         ClaimStands(c, k)
  PROVE  /\ connections[k].status = "VALIDATING"
         /\ ClaimStands(d, k) => d = c
         /\ StandingClaims(k) = {ClaimOf(c, accountCalls[c])}
<1>1. \A e \in AccountCalls : ClaimStands(e, k) => Holds(accountCalls[e], k, connections[k])
  BY DEF ClaimStands, Holds
<1>2. connections[k].status = "VALIDATING"
  BY <1>1 DEF IInv, HeldInv
<1>3. \A e \in AccountCalls : ClaimStands(e, k) => e = c
  BY <1>1 DEF IInv, AloneInv
<1> QED
  BY <1>2, <1>3 DEF StandingClaims, ClaimOf

\* A connection that is not being validated is claimed by nobody.
LEMMA NoClaim ==
  ASSUME IInv, NEW k \in Keys, connections[k].status # "VALIDATING"
  PROVE  StandingClaims(k) = {}
BY StandingHolds DEF StandingClaims

LEMMA ValidatingStatus ==
  ASSUME IInv, NEW k \in Keys, connections[k].status = "VALIDATING", StandingClaims(k) # {}
  PROVE  Status[k] = "VALIDATING"
<1>1. PICK c \in AccountCalls : ClaimStands(c, k)
  BY DEF StandingClaims
<1>2. connections[k] \in Connection
  BY <1>1, CallFields DEF ClaimStands, CallOK
<1> QED
  BY <1>2, AwsAccountsAssumption DEF Status, Registered

\* A step that writes no row and by which no call gets a claim: its call keeps its claim,
\* loses it or has none.
LEMMA CallLifecycle ==
  ASSUME IInv, NEW c \in AccountCalls, NEW call \in AccountCall,
         accountCalls' = [accountCalls EXCEPT ![c] = call],
         UNCHANGED <<connections, accountLocks>>,
         \A k \in Keys : Stands(call, k, connections[k]) =>
           ClaimStands(c, k) /\ call.previous = accountCalls[c].previous
  PROVE  LifecycleSteps
<1>1. /\ accountCalls \in [AccountCalls -> AccountCall]
      /\ \A d \in AccountCalls : accountCalls'[d] = IF d = c THEN call ELSE accountCalls[d]
  BY DEF IInv, AccountsTypeOK
<1>2. Status' = Status /\ connections' = connections /\ accountLocks' = accountLocks
  BY DEF Status, Registered
<1>3. \A d \in AccountCalls \ {c}, k \in Keys :
        ClaimStands(d, k)' <=> ClaimStands(d, k)
  BY <1>1, <1>2 DEF ClaimStands
<1>4. \A k \in Keys : ClaimStands(c, k)' <=> Stands(call, k, connections[k])
  BY <1>1, <1>2 DEF ClaimStands, Stands
<1>5. ASSUME NEW k \in Keys, ClaimStands(c, k) <=> Stands(call, k, connections[k])
      PROVE  StandingClaims(k)' = StandingClaims(k)
  <2>1. \A d \in AccountCalls : ClaimStands(d, k)' <=> ClaimStands(d, k)
    BY <1>3, <1>4, <1>5
  <2>2. \A d \in AccountCalls : ClaimStands(d, k) => accountCalls'[d].previous = accountCalls[d].previous
    BY <1>1, <1>5
  <2> QED
    BY <2>1, <2>2 DEF StandingClaims
<1>6. CASE \A k \in Keys : ClaimStands(c, k) <=> Stands(call, k, connections[k])
  <2>1. Claims' = Claims
    BY <1>5, <1>6 DEF Claims
  <2> QED
    BY <1>2, <2>1 DEF LifecycleSteps, AccountLifecycle!lifecycleVars, Status, Claims
<1>7. CASE ~\A k \in Keys : ClaimStands(c, k) <=> Stands(call, k, connections[k])
  <2>1. PICK k \in Keys : ClaimStands(c, k) /\ ~Stands(call, k, connections[k])
    BY <1>7
  <2>2. \A m \in Keys \ {k} : ~ClaimStands(c, m)
    BY <2>1 DEF ClaimStands
  <2>3. \A m \in Keys \ {k} : StandingClaims(m)' = StandingClaims(m)
    BY <1>5, <2>2
  <2>4. \A d \in AccountCalls : ~ClaimStands(d, k)'
    BY <1>3, <1>4, <2>1, StandingHolds
  <2>5. StandingClaims(k)' = {} /\ StandingClaims(k) # {}
    BY <2>1, <2>4, StandingHolds DEF StandingClaims
  <2>6. Claims' = [Claims EXCEPT ![k] = {}] /\ Claims[k] # {}
    BY <2>3, <2>5 DEF Claims
  <2>7. Status[k] = "VALIDATING"
    BY <2>1, StandingHolds, ValidatingStatus
  <2>8. AccountLifecycle!LoseClaim(k)
    BY <1>2, <2>6, <2>7 DEF AccountLifecycle!LoseClaim, Status, Claims
  <2> QED
    BY <2>8 DEF LifecycleSteps, AccountLifecycle!Next, AccountLifecycle!Keys, Keys
<1> QED
  BY <1>6, <1>7

\* A step by which a call writes its row: all claims on the row fall, but that of the call
\* when it goes on with the version it wrote.
LEMMA RowLifecycle ==
  ASSUME IInv, NEW c \in AccountCalls, NEW call, NEW k, NEW row, WritesRow(c, call, k, row)
  PROVE  /\ Status[k] = connections[k].status
         /\ Status' = [Status EXCEPT ![k] = row.status]
         /\ Claims' = [Claims EXCEPT ![k] =
              IF Stands(call, k, row) THEN {ClaimOf(c, call)} ELSE {}]
<1> USE DEF WritesRow
<1>1. /\ accountCalls \in [AccountCalls -> AccountCall]
      /\ \A d \in AccountCalls : accountCalls'[d] = IF d = c THEN call ELSE accountCalls[d]
  BY DEF IInv, AccountsTypeOK
<1>2. /\ connections \in [Keys -> Connection \union {ACCOUNT_NONE}]
      /\ \A m \in Keys : connections'[m] = IF m = k THEN row ELSE connections[m]
  BY DEF IInv, AccountsTypeOK
<1>3. row # ACCOUNT_NONE /\ connections[k] # ACCOUNT_NONE
  BY AwsAccountsAssumption
<1>4. Status[k] = connections[k].status
  BY <1>3 DEF Status, Registered
<1>5. Status' = [Status EXCEPT ![k] = row.status]
  BY <1>2, <1>3 DEF Status, Registered
<1>6. \A d \in AccountCalls, m \in Keys \ {k} :
        /\ ClaimStands(d, m)' <=> ClaimStands(d, m)
        /\ ClaimStands(d, m) => d # c
  BY <1>1, <1>2 DEF ClaimStands, WorksOn
<1>7. \A m \in Keys \ {k} : StandingClaims(m)' = StandingClaims(m)
  BY <1>1, <1>6 DEF StandingClaims
<1>8. ASSUME NEW d \in AccountCalls, d # c
      PROVE  ~ClaimStands(d, k)'
  <2>1. SUFFICES ASSUME accountCalls[d].at # "idle", accountCalls[d].key = k
                 PROVE  accountCalls[d].version # row.version
    BY <1>1, <1>2, <1>8 DEF ClaimStands
  <2>2. accountCalls[d].version <= connections[k].version /\ accountCalls[d].version \in Nat
    BY <2>1, CallFields DEF CallOK
  <2>3. connections[k].version \in Nat
    BY AwsAccountsAssumption DEF Connection
  <2> QED
    BY <2>2, <2>3
<1>9. ClaimStands(c, k)' <=> Stands(call, k, row)
  BY <1>1, <1>2 DEF ClaimStands, Stands
<1>10. StandingClaims(k)' = IF Stands(call, k, row) THEN {ClaimOf(c, call)} ELSE {}
  <2>1. \A d \in AccountCalls : ClaimStands(d, k)' <=> d = c /\ Stands(call, k, row)
    BY <1>8, <1>9
  <2>2. accountCalls'[c].previous = call.previous
    BY <1>1
  <2> QED
    BY <2>1, <2>2 DEF StandingClaims, ClaimOf
<1>11. Claims' = [Claims EXCEPT ![k] =
         IF Stands(call, k, row) THEN {ClaimOf(c, call)} ELSE {}]
  BY <1>7, <1>10 DEF Claims
<1> QED
  BY <1>4, <1>5, <1>11

LEMMA RegisterLifecycle ==
  ASSUME IInv, NEW k \in Keys, Register(k)
  PROVE  LifecycleSteps
<1>1. /\ ~Registered(k) /\ accountLocks[k[2]] = ACCOUNT_NONE /\ accountCalls' = accountCalls
      /\ accountLocks' = [accountLocks EXCEPT ![k[2]] = k[1]]
  BY DEF Register, RegistrationAllowed
<1>2. PICK row : /\ connections' = [connections EXCEPT ![k] = row]
                 /\ row.status = "PENDING" /\ row \in Connection
  <2> DEFINE new == [status |-> "PENDING", verificationStatus |-> "NOT_STARTED",
                     lastValidated |-> FALSE, version |-> 1]
  <2>1. connections' = [connections EXCEPT ![k] = new] /\ new.status = "PENDING"
    BY DEF Register
  <2>2. new \in Connection
    BY AwsAccountsAssumption DEF Connection, ConnectionStatuses, VerificationStatuses
  <2> QED
    BY <2>1, <2>2
<1>3. \A m \in Keys : connections'[m] = IF m = k THEN row ELSE connections[m]
  BY <1>2 DEF IInv, AccountsTypeOK
<1>4. Status[k] = ACCOUNT_NONE /\ Status' = [Status EXCEPT ![k] = "PENDING"]
  <2>1. row # ACCOUNT_NONE /\ row.status = "PENDING"
    BY <1>2, AwsAccountsAssumption
  <2>2. \A m \in Keys : Registered(m)' <=> m = k \/ Registered(m)
    BY <1>3, <2>1 DEF Registered
  <2> QED
    BY <1>1, <1>3, <2>1, <2>2 DEF Status
<1>5. ASSUME NEW d \in AccountCalls, NEW m \in Keys
      PROVE  ClaimStands(d, m)' <=> ClaimStands(d, m)
  <2>1. CASE m # k
    BY <1>1, <1>3, <2>1 DEF ClaimStands
  <2>2. CASE m = k
    <3>1. accountCalls[d].at # "idle" => accountCalls[d].key # k
      BY <1>1, CallFields, AwsAccountsAssumption DEF CallOK, Registered
    <3> QED
      BY <1>1, <2>2, <3>1 DEF ClaimStands
  <2> QED
    BY <2>1, <2>2
<1>6. Claims' = Claims
  BY <1>1, <1>5 DEF Claims, StandingClaims
<1>7. AccountLifecycle!Connect(k)
  BY <1>1, <1>4, <1>6 DEF AccountLifecycle!Connect, Status, Claims
<1> QED
  BY <1>7 DEF LifecycleSteps, AccountLifecycle!Next, AccountLifecycle!Keys, Keys

\* A call that begins has no claim, and one that ends gives up the one it has.
LEMMA BeginLifecycle ==
  ASSUME IInv, NEW c \in AccountCalls, NEW k \in Keys, Registered(k),
         NEW at \in {"claim", "patch", "discover", "remove"}, BeginCall(c, at, k),
         UNCHANGED <<connections, accountLocks>>
  PROVE  LifecycleSteps
<1> DEFINE call == [at |-> at, key |-> k, version |-> connections[k].version,
                    previous |-> connections[k].status]
<1>1. connections[k] \in Connection /\ MaxConnectionVersion \in Nat
  BY RegisteredRow, AwsAccountsAssumption DEF IInv
<1>2. call \in AccountCall
  BY <1>1 DEF AccountCall, Connection
<1>3. accountCalls' = [accountCalls EXCEPT ![c] = call] /\ call.at = at
  BY DEF BeginCall
<1> HIDE DEF call
<1>4. \A m \in Keys : ~Stands(call, m, connections[m])
  BY <1>3 DEF Stands
<1> QED
  BY <1>2, <1>3, <1>4, CallLifecycle

LEMMA EndLifecycle ==
  ASSUME IInv, NEW c \in AccountCalls, Finish(c), UNCHANGED <<connections, accountLocks>>
  PROVE  LifecycleSteps
<1>1. \A k \in Keys : ~Stands(IdleAccountCall, k, connections[k])
  BY OverCall DEF Stands
<1> QED
  BY <1>1, CallLifecycle, OverCall DEF Finish

LEMMA GoOnLifecycle ==
  ASSUME IInv, NEW c \in AccountCalls, accountCalls[c].at \in {"check", "confirm"},
         NEW at \in {"confirm", "revert"}, GoTo(c, at), UNCHANGED <<connections, accountLocks>>
  PROVE  LifecycleSteps
<1> DEFINE call == [accountCalls[c] EXCEPT !.at = at]
<1>1. accountCalls[c] \in AccountCall
  BY CallFields
<1>2. /\ call \in AccountCall /\ call.at = at /\ call.key = accountCalls[c].key
      /\ call.version = accountCalls[c].version /\ call.previous = accountCalls[c].previous
  BY <1>1 DEF AccountCall
<1>3. accountCalls' = [accountCalls EXCEPT ![c] = call]
  BY DEF GoTo
<1> HIDE DEF call
<1>4. \A k \in Keys : Stands(call, k, connections[k]) => ClaimStands(c, k)
  BY <1>2 DEF Stands, ClaimStands
<1> QED
  BY <1>2, <1>3, <1>4, CallLifecycle

\* The claim.
LEMMA ClaimLifecycle ==
  ASSUME IInv, NEW c \in AccountCalls, ClaimValidation(c)
  PROVE  LifecycleSteps
<1>1. accountCalls[c].at = "claim" /\ accountLocks' = accountLocks
  BY DEF ClaimValidation
<1>2. CASE ~VersionHeld(c)
  BY <1>1, <1>2, EndLifecycle DEF ClaimValidation
<1>3. CASE VersionHeld(c)
  <2> DEFINE k == accountCalls[c].key
  <2> DEFINE old == connections[k]
  <2>1. PICK row : row = Transitioned(old, "VALIDATING", "IN_PROGRESS")
    OBVIOUS
  <2>2. PICK call : call = [at |-> "check", key |-> k, version |-> old.version + 1,
                            previous |-> accountCalls[c].previous]
    OBVIOUS
  <2>3. /\ k \in Keys /\ old \in Connection /\ Consistent(old) /\ old.version \in Nat
        /\ MayTransition(old, "VALIDATING", "IN_PROGRESS") /\ accountCalls[c].previous = old.status
    BY <1>1, <1>3, WriterRow DEF Fresh
  <2>4. /\ row.version <= MaxConnectionVersion
        /\ connections' = [connections EXCEPT ![k] = row]
        /\ accountCalls' = [accountCalls EXCEPT ![c] = call]
    BY <1>3, <2>1, <2>2 DEF ClaimValidation, Write
  <2>5. row.version = old.version + 1 /\ row.status = "VALIDATING"
    BY <2>1, TransitionedVersion
  <2>6. row \in Connection
    BY <2>1, <2>3, <2>4, <2>5, TransitionedRow DEF ConnectionStatuses, VerificationStatuses
  <2>7. old.status \in {"PENDING", "VERIFIED", "SUSPENDED"}
    BY <2>3, MayLeave DEF Connection, ConnectionStatuses
  <2>8. Stands(call, k, row) /\ ClaimOf(c, call) = [by |-> c, found |-> old.status]
    BY <2>2, <2>3, <2>5 DEF Stands, ClaimOf
  <2>9. PICK m \in Keys : m = k
    BY <2>3
  <2>10. /\ Status[m] = connections[m].status
         /\ Status' = [Status EXCEPT ![m] = row.status]
         /\ Claims' = [Claims EXCEPT ![m] =
              IF Stands(call, m, row) THEN {ClaimOf(c, call)} ELSE {}]
    <3>1. /\ connections[m] \in Connection /\ row.version = connections[m].version + 1
          /\ accountCalls[c].key = m /\ call.key = m
          /\ connections' = [connections EXCEPT ![m] = row]
      BY <2>2, <2>3, <2>4, <2>5, <2>9
    <3>2. accountCalls' = [accountCalls EXCEPT ![c] = call] /\ WorksOn(call, m)
      BY <2>4, <3>1 DEF WorksOn
    <3>3. WritesRow(c, call, m, row)
      BY <2>6, <3>1, <3>2 DEF WritesRow
    <3> QED
      BY <3>3, RowLifecycle
  <2>11. /\ Status[m] \in {"PENDING", "VERIFIED", "SUSPENDED"}
         /\ Status' = [Status EXCEPT ![m] = "VALIDATING"]
         /\ Claims' = [Claims EXCEPT ![m] = {[by |-> c, found |-> Status[m]]}]
    BY <2>5, <2>7, <2>8, <2>9, <2>10
  <2>12. AccountLifecycle!Claim(m, c)
    BY <1>1, <2>11 DEF AccountLifecycle!Claim, AccountLifecycle!Settled, Status, Claims
  <2> QED
    BY <2>12 DEF LifecycleSteps, AccountLifecycle!Next, AccountLifecycle!Keys, Keys
<1> QED
  BY <1>2, <1>3

\* A row that its call writes and is done with, or reverts in vain: every claim on it falls.
LEMMA LastWriteLifecycle ==
  ASSUME IInv, NEW c \in AccountCalls, NEW call, NEW k, NEW row, LastWrite(c, call, k, row)
  PROVE  /\ Status[k] = connections[k].status
         /\ Status' = [Status EXCEPT ![k] = row.status]
         /\ Claims' = [Claims EXCEPT ![k] = {}]
<1>1. /\ connections[k] \in Connection /\ connections[k].version \in Nat
      /\ accountCalls[c].version = connections[k].version /\ k \in Keys
  BY WriterRow DEF LastWrite
<1>2. WritesRow(c, call, k, row)
  BY <1>1 DEF LastWrite, WritesRow, WorksOn
<1>3. ~Stands(call, k, row)
  BY <1>1 DEF Stands, LastWrite
<1> QED
  BY <1>2, <1>3, RowLifecycle

\* The verification that holds the claim decides.
LEMMA DecideLifecycle ==
  ASSUME IInv, NEW c \in AccountCalls, accountCalls[c].at \in {"confirm", "revert"},
         NEW call, NEW row, LastWrite(c, call, accountCalls[c].key, row),
         row.status \in {"VERIFIED", RevertTo(accountCalls[c].previous)},
         accountLocks' = accountLocks
  PROVE  LifecycleSteps
<1>1. VersionHeld(c) /\ \E k \in Keys : k = accountCalls[c].key
  BY WriterRow DEF LastWrite
<1> PICK k \in Keys : k = accountCalls[c].key
  BY <1>1
<1>2. ClaimStands(c, k)
  BY <1>1 DEF ClaimStands, VersionHeld
<1>3. /\ connections[k].status = "VALIDATING"
      /\ StandingClaims(k) = {ClaimOf(c, accountCalls[c])}
  BY <1>2, StandingHolds
<1>4. /\ Status[k] = connections[k].status
      /\ Status' = [Status EXCEPT ![k] = row.status]
      /\ Claims' = [Claims EXCEPT ![k] = {}]
  BY LastWriteLifecycle
<1>5. ClaimOf(c, accountCalls[c]) \in Claims[k]
  BY <1>3 DEF Claims
<1>6. row.status \in AccountLifecycle!Outcomes(ClaimOf(c, accountCalls[c]).found)
  BY DEF AccountLifecycle!Outcomes, ClaimOf, RevertTo
<1>7. AccountLifecycle!Decide(k)
  BY <1>3, <1>4, <1>5, <1>6 DEF AccountLifecycle!Decide, Status, Claims
<1> QED
  BY <1>7 DEF LifecycleSteps, AccountLifecycle!Next, AccountLifecycle!Keys, Keys

LEMMA ConfirmLifecycle ==
  ASSUME IInv, NEW c \in AccountCalls, ConfirmValidation(c)
  PROVE  LifecycleSteps
<1>1. accountCalls[c].at = "confirm" /\ accountLocks' = accountLocks
  BY DEF ConfirmValidation
<1>2. CASE GoTo(c, "revert") /\ UNCHANGED connections
  BY <1>1, <1>2, GoOnLifecycle
<1>3. CASE /\ VersionHeld(c)
           /\ Write(c, Transitioned(connections[accountCalls[c].key], "VERIFIED", "SUCCEEDED"))
           /\ Finish(c) \/ GoTo(c, "revert")
  <2>1. PICK row : row = Transitioned(connections[accountCalls[c].key], "VERIFIED", "SUCCEEDED")
    OBVIOUS
  <2>2. connections[accountCalls[c].key] \in Connection
    BY <1>1, <1>3, WriterRow
  <2>3. /\ row.version <= MaxConnectionVersion
        /\ connections' = [connections EXCEPT ![accountCalls[c].key] = row]
    BY <1>3, <2>1 DEF Write
  <2>4. row.version = connections[accountCalls[c].key].version + 1 /\ row.status = "VERIFIED"
    BY <2>1, TransitionedVersion
  <2>5. row \in Connection
    BY <2>1, <2>2, <2>3, <2>4, TransitionedRow DEF ConnectionStatuses, VerificationStatuses
  <2>6. PICK call :
          /\ accountCalls' = [accountCalls EXCEPT ![c] = call]
          /\ \/ call.at = "idle"
             \/ call.key = accountCalls[c].key /\ call.version = accountCalls[c].version
    BY <1>3, NextCall, OverCall DEF Finish
  <2>7. LastWrite(c, call, accountCalls[c].key, row)
    BY <1>1, <1>3, <2>3, <2>4, <2>5, <2>6 DEF LastWrite
  <2> QED
    BY <1>1, <2>4, <2>7, DecideLifecycle
<1> QED
  BY <1>2, <1>3 DEF ConfirmValidation

LEMMA FailLifecycle ==
  ASSUME IInv, NEW c \in AccountCalls, FailVerification(c)
  PROVE  LifecycleSteps
<1>1. accountCalls[c].at = "revert" /\ accountLocks' = accountLocks /\ Finish(c)
  BY DEF FailVerification
<1>2. CASE ~VersionHeld(c)
  BY <1>1, <1>2, EndLifecycle DEF FailVerification
<1>3. CASE VersionHeld(c)
  <2>1. PICK to : to = RevertTo(accountCalls[c].previous)
    OBVIOUS
  <2>2. PICK row : row = Transitioned(connections[accountCalls[c].key], to, "FAILED")
    OBVIOUS
  <2>3. connections[accountCalls[c].key] \in Connection
    BY <1>1, <1>3, WriterRow
  <2>4. /\ row.version <= MaxConnectionVersion
        /\ connections' = [connections EXCEPT ![accountCalls[c].key] = row]
    BY <1>3, <2>1, <2>2 DEF FailVerification, Write
  <2>5. row.version = connections[accountCalls[c].key].version + 1 /\ row.status = to
    BY <2>2, TransitionedVersion
  <2>6. row \in Connection
    BY <2>1, <2>2, <2>3, <2>4, <2>5, TransitionedRow
       DEF RevertTo, ConnectionStatuses, VerificationStatuses
  <2>7. accountCalls' = [accountCalls EXCEPT ![c] = IdleAccountCall] /\ IdleAccountCall.at = "idle"
    BY <1>1, OverCall DEF Finish
  <2>8. LastWrite(c, IdleAccountCall, accountCalls[c].key, row)
    BY <1>1, <1>3, <2>4, <2>5, <2>6, <2>7 DEF LastWrite
  <2> QED
    BY <1>1, <2>1, <2>5, <2>8, DecideLifecycle
<1> QED
  BY <1>2, <1>3

\* A write of metadata takes the claim of whoever verifies the connection.
LEMMA UpdateLifecycle ==
  ASSUME IInv, NEW c \in AccountCalls, UpdateMetadata(c)
  PROVE  LifecycleSteps
<1>1. accountCalls[c].at # "idle" /\ accountLocks' = accountLocks /\ Finish(c)
  BY DEF UpdateMetadata
<1>2. CASE UNCHANGED connections
  BY <1>1, <1>2, EndLifecycle
<1>3. CASE /\ VersionHeld(c)
           /\ Write(c, [connections[accountCalls[c].key] EXCEPT !.version = @ + 1])
  <2>1. PICK k \in Keys : k = accountCalls[c].key
    BY <1>1, <1>3, WriterRow
  <2>2. connections[k] \in Connection /\ connections[k].version \in Nat
    BY <1>1, <1>3, <2>1, WriterRow
  <2>3. PICK row : row = [connections[k] EXCEPT !.version = @ + 1]
    OBVIOUS
  <2>4. row.version <= MaxConnectionVersion /\ connections' = [connections EXCEPT ![k] = row]
    BY <1>3, <2>1, <2>3 DEF Write
  <2>5. row.version = connections[k].version + 1 /\ row.status = connections[k].status
    BY <2>2, <2>3 DEF Connection
  <2>6. row \in Connection
    BY <2>2, <2>3, <2>4, AwsAccountsAssumption DEF Connection
  <2>7. accountCalls' = [accountCalls EXCEPT ![c] = IdleAccountCall] /\ IdleAccountCall.at = "idle"
    BY <1>1, OverCall DEF Finish
  <2>8. /\ Status[k] = connections[k].status
        /\ Status' = [Status EXCEPT ![k] = row.status]
        /\ Claims' = [Claims EXCEPT ![k] = {}]
    <3>1. LastWrite(c, IdleAccountCall, k, row)
      BY <1>1, <1>3, <2>1, <2>4, <2>5, <2>6, <2>7 DEF LastWrite
    <3> QED
      BY <3>1, LastWriteLifecycle
  <2>9. Status' = Status
    BY <2>5, <2>8 DEF Status
  <2>10. CASE Claims[k] = {}
    <3>1. Claims' = Claims
      BY <2>8, <2>10 DEF Claims
    <3> QED
      BY <1>1, <2>9, <3>1 DEF LifecycleSteps, AccountLifecycle!lifecycleVars, Status, Claims
  <2>11. CASE Claims[k] # {}
    <3>1. connections[k].status = "VALIDATING"
      BY <2>11, NoClaim DEF Claims
    <3>2. AccountLifecycle!LoseClaim(k)
      BY <1>1, <2>8, <2>9, <2>11, <3>1 DEF AccountLifecycle!LoseClaim, Status, Claims
    <3> QED
      BY <3>2 DEF LifecycleSteps, AccountLifecycle!Next, AccountLifecycle!Keys, Keys
  <2> QED
    BY <2>10, <2>11
<1> QED
  BY <1>2, <1>3 DEF UpdateMetadata

LEMMA RemoveLifecycle ==
  ASSUME IInv, NEW c \in AccountCalls, WriteRemoved(c)
  PROVE  LifecycleSteps
<1>1. accountCalls[c].at = "remove" /\ accountLocks' = accountLocks /\ Finish(c)
  BY DEF WriteRemoved
<1>2. CASE ~VersionHeld(c)
  BY <1>1, <1>2, EndLifecycle DEF WriteRemoved
<1>3. CASE VersionHeld(c)
  <2>1. PICK k \in Keys : k = accountCalls[c].key
    BY <1>1, <1>3, WriterRow
  <2>2. PICK row : row = Transitioned(connections[k], "DELETED", connections[k].verificationStatus)
    OBVIOUS
  <2>3. /\ connections[k] \in Connection /\ Consistent(connections[k])
        /\ MayTransition(connections[k], "DELETED", connections[k].verificationStatus)
    BY <1>1, <1>3, <2>1, WriterRow DEF Fresh
  <2>4. row.version <= MaxConnectionVersion /\ connections' = [connections EXCEPT ![k] = row]
    BY <1>3, <2>1, <2>2 DEF WriteRemoved, Write
  <2>5. row.version = connections[k].version + 1 /\ row.status = "DELETED"
    BY <2>2, TransitionedVersion
  <2>6. row \in Connection
    BY <2>2, <2>3, <2>4, <2>5, TransitionedRow DEF ConnectionStatuses, Connection
  <2>7. connections[k].status \in {"PENDING", "VERIFIED", "SUSPENDED"}
    BY <2>3, MayLeave DEF Connection, ConnectionStatuses
  <2>8. accountCalls' = [accountCalls EXCEPT ![c] = IdleAccountCall] /\ IdleAccountCall.at = "idle"
    BY <1>1, OverCall DEF Finish
  <2>9. /\ Status[k] = connections[k].status
        /\ Status' = [Status EXCEPT ![k] = row.status]
        /\ Claims' = [Claims EXCEPT ![k] = {}]
    <3>1. LastWrite(c, IdleAccountCall, k, row)
      BY <1>1, <1>3, <2>1, <2>4, <2>5, <2>6, <2>8 DEF LastWrite
    <3> QED
      BY <3>1, LastWriteLifecycle
  <2>10. Claims[k] = {}
    BY <2>7, NoClaim DEF Claims
  <2>11. Claims' = Claims
    BY <2>9, <2>10 DEF Claims
  <2>12. AccountLifecycle!Remove(k)
    BY <1>1, <2>5, <2>7, <2>9, <2>11
       DEF AccountLifecycle!Remove, AccountLifecycle!Settled, Status, Claims
  <2> QED
    BY <2>12 DEF LifecycleSteps, AccountLifecycle!Next, AccountLifecycle!Keys, Keys
<1> QED
  BY <1>2, <1>3

LEMMA InitLifecycle == AwsAccountsInit => AccountLifecycle!Init
<1> SUFFICES ASSUME AwsAccountsInit PROVE AccountLifecycle!Init
  OBVIOUS
<1>1. /\ \A k \in Keys : ~Registered(k)
      /\ accountLocks = [a \in AccountIds |-> ACCOUNT_NONE]
      /\ \A c \in AccountCalls : accountCalls[c].at = "idle"
  BY DEF AwsAccountsInit, Registered, IdleAccountCall
<1>2. \A k \in Keys : StandingClaims(k) = {}
  BY <1>1 DEF StandingClaims, ClaimStands
<1> QED
  BY <1>1, <1>2 DEF AccountLifecycle!Init, AccountLifecycle!Keys, Keys

LEMMA StepLifecycle == IInv /\ [AwsAccountsNext]_accountVars => LifecycleSteps
<1> SUFFICES ASSUME IInv, [AwsAccountsNext]_accountVars PROVE LifecycleSteps
  OBVIOUS
<1>1. ASSUME NEW k \in Keys, Register(k) PROVE LifecycleSteps
  BY <1>1, RegisterLifecycle
<1>2. ASSUME NEW c \in AccountCalls, NEW k \in Keys,
             VerifyConnection(c, k) \/ UpdateConfiguration(c, k) \/ Discover(c, k) \/ Remove(c, k)
      PROVE  LifecycleSteps
  BY <1>2, BeginLifecycle DEF VerifyConnection, UpdateConfiguration, Discover, Remove
<1>3. ASSUME NEW c \in AccountCalls, ClaimValidation(c) PROVE LifecycleSteps
  BY <1>3, ClaimLifecycle
<1>4. ASSUME NEW c \in AccountCalls, CheckRole(c) PROVE LifecycleSteps
  BY <1>4, GoOnLifecycle DEF CheckRole
<1>5. ASSUME NEW c \in AccountCalls, ConfirmValidation(c) PROVE LifecycleSteps
  BY <1>5, ConfirmLifecycle
<1>6. ASSUME NEW c \in AccountCalls, FailVerification(c) PROVE LifecycleSteps
  BY <1>6, FailLifecycle
<1>7. ASSUME NEW c \in AccountCalls, UpdateMetadata(c) PROVE LifecycleSteps
  BY <1>7, UpdateLifecycle
<1>8. ASSUME NEW c \in AccountCalls, WriteRemoved(c) PROVE LifecycleSteps
  BY <1>8, RemoveLifecycle
<1>9. ASSUME NEW c \in AccountCalls, AccountCallDies(c) PROVE LifecycleSteps
  BY <1>9, EndLifecycle DEF AccountCallDies
<1>10. CASE UNCHANGED accountVars
  <2>1. connections' = connections /\ accountLocks' = accountLocks /\ accountCalls' = accountCalls
    BY <1>10 DEF accountVars
  <2> QED
    BY <2>1 DEF LifecycleSteps, AccountLifecycle!lifecycleVars, Registered, StandingClaims, ClaimStands
<1> QED
  BY <1>1, <1>2, <1>3, <1>4, <1>5, <1>6, <1>7, <1>8, <1>9, <1>10 DEF AwsAccountsNext

\* The calls, with their reads, versions and conflicts, do what the lifecycle says: the
\* verification that claimed a connection decides about it alone and on the status it found,
\* every other write takes its claim, an id keeps its tenant, a removal is final.
THEOREM AccountsImplementLifecycle ==
  AwsAccountsSpec => AccountLifecycle!Spec /\ ImplementsAccountLifecycle
<1>1. IInv /\ [AwsAccountsNext]_accountVars =>
        [AccountLifecycle!Next]_(AccountLifecycle!lifecycleVars)
  BY StepLifecycle DEF LifecycleSteps
<1>2. IInv /\ [AwsAccountsNext]_accountVars =>
        [UNCHANGED accountVars \/ AccountLifecycle!Next]_(AccountLifecycle!lifecycleVars)
  BY <1>1
<1>3. AwsAccountsSpec => AccountLifecycle!Spec
  BY InvariantHolds, InitLifecycle, <1>1, PTL DEF AwsAccountsSpec, AccountLifecycle!Spec
<1>4. AwsAccountsSpec => ImplementsAccountLifecycle
  BY InvariantHolds, InitLifecycle, <1>2, PTL DEF AwsAccountsSpec, ImplementsAccountLifecycle
<1> QED
  BY <1>3, <1>4

==============================================================================
