------------------------ MODULE AwsAccountConnection -------------------------
(***************************************************************************)
(* The AWS account connection as the EC2 jobs see it: VERIFIED or not.     *)
(***************************************************************************)
CONSTANT AccountMayChange  \* whether the connection may leave and re-enter VERIFIED

ASSUME AccountAssumption == AccountMayChange \in BOOLEAN

VARIABLE verified

\* The connection is suspended, disabled or fails verification, or is verified again.
AccountChanges ==
  /\ AccountMayChange
  /\ verified' = ~verified
=============================================================================
