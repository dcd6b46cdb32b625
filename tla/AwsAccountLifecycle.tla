------------------------ MODULE AwsAccountLifecycle -------------------------
(***************************************************************************)
(* What the service promises of the connections to AWS accounts, told      *)
(* without reads, versions and conflicts: an account id belongs to the     *)
(* first tenant that connects it; a connection is verified or fails only   *)
(* by the one verification that claimed it, which finds it as it was       *)
(* claimed; whatever else is written meanwhile costs the verification its  *)
(* claim; and a removed connection is removed for good.                    *)
(***************************************************************************)
CONSTANTS Tenants, AccountIds, Verifications, NONE

VARIABLES
  status,  \* status[k]: of the connection of a tenant to an account
  owner,   \* owner[a]: the tenant that the account id belongs to
  claim    \* claim[k]: the verification of k, and the status it found, if one stands

lifecycleVars == <<status, owner, claim>>

Keys == Tenants \X AccountIds

Settled == {"PENDING", "VERIFIED", "SUSPENDED"}

Init ==
  /\ status = [k \in Keys |-> NONE]
  /\ owner = [a \in AccountIds |-> NONE]
  /\ claim = [k \in Keys |-> {}]

Connect(k) ==
  /\ owner[k[2]] = NONE /\ owner' = [owner EXCEPT ![k[2]] = k[1]]
  /\ status[k] = NONE /\ status' = [status EXCEPT ![k] = "PENDING"]
  /\ UNCHANGED claim

Claim(k, v) ==
  /\ status[k] \in Settled /\ status' = [status EXCEPT ![k] = "VALIDATING"]
  /\ claim' = [claim EXCEPT ![k] = {[by |-> v, found |-> status[k]]}]
  /\ UNCHANGED owner

\* A connection that was never verified may be tried again, any other is suspended.
Outcomes(found) == {"VERIFIED", IF found = "PENDING" THEN "PENDING" ELSE "SUSPENDED"}

Decide(k) ==
  /\ status[k] = "VALIDATING"
  /\ \E verification \in claim[k] : \E outcome \in Outcomes(verification.found) :
       status' = [status EXCEPT ![k] = outcome]
  /\ claim' = [claim EXCEPT ![k] = {}]
  /\ UNCHANGED owner

\* The verification dies or is overtaken: nobody decides about the connection any more.
LoseClaim(k) ==
  /\ status[k] = "VALIDATING" /\ claim[k] # {}
  /\ claim' = [claim EXCEPT ![k] = {}]
  /\ UNCHANGED <<status, owner>>

Remove(k) ==
  /\ status[k] \in Settled /\ status' = [status EXCEPT ![k] = "DELETED"]
  /\ UNCHANGED <<owner, claim>>

Next ==
  \E k \in Keys :
    \/ Connect(k) \/ Decide(k) \/ LoseClaim(k) \/ Remove(k)
    \/ \E v \in Verifications : Claim(k, v)

Spec == Init /\ [][Next]_lifecycleVars
=============================================================================
