----------------------------- MODULE Ec2StageRun -----------------------------
(***************************************************************************)
(* The durable row of one stage run ({jobId}#discovery, {jobId}#cost,      *)
(* {jobId}#security) and the pure decisions the code takes on it: how a    *)
(* row is classified, when its execution may be claimed, and what a claim  *)
(* and a completion write.                                                 *)
(*                                                                         *)
(* Time is relative: where the code stores the instant leaseExpiresAt, the *)
(* row stores lease, the time left until that instant (0 once it passed).  *)
(* completedAt is left out: every writer sets it together with a terminal  *)
(* status and removes it together with that status, so it is a function of *)
(* status, and no row is ever in the code's "ambiguous" class.             *)
(***************************************************************************)
EXTENDS Naturals

CONSTANT Lease  \* EC2_STAGE_EXECUTION_LEASE_SECONDS, in clock ticks

ASSUME LeaseAssumption == Lease \in Nat \ {0}

RunStatuses == {"MISSING", "RUNNING", "SUCCEEDED", "PARTIAL", "FAILED"}

RunRecord ==
  [status : RunStatuses, retryable : BOOLEAN, lease : 0 .. Lease,
   attempt : Nat, version : Nat]

\* The row does not exist yet (getRun answers null).
NoRun == [status |-> "MISSING", retryable |-> FALSE, lease |-> 0,
          attempt |-> 0, version |-> 0]

CompleteStatuses == {"SUCCEEDED", "PARTIAL"}

IsStageExecutionLeaseActive(lease) == lease > 0

\* Mutant: a RUNNING row is always taken for abandoned.
ClassifyRun_NoLease(run) ==
  CASE run.status = "MISSING" -> "missing"
    [] run.status = "RUNNING" -> "in_progress_stale"
    [] run.status \in CompleteStatuses -> "complete"
    [] run.status = "FAILED" -> IF run.retryable THEN "failed_retryable" ELSE "failed_permanent"

ClassifyRun(run) ==
  CASE run.status = "MISSING" -> "missing"
    [] run.status = "RUNNING" /\ IsStageExecutionLeaseActive(run.lease) -> "in_progress_active"
    [] run.status = "RUNNING" /\ ~IsStageExecutionLeaseActive(run.lease) -> "in_progress_stale"
    [] run.status \in CompleteStatuses -> "complete"
    [] run.status = "FAILED" /\ ~run.retryable -> "failed_permanent"
    [] run.status = "FAILED" /\ run.retryable -> "failed_retryable"

StageProofIsComplete(run) == ClassifyRun(run) = "complete"

\* Mutant: a row that another worker completed may be claimed again.
Claimable_Complete == {"missing", "in_progress_stale", "failed_retryable", "complete"}

Claimable == {"missing", "in_progress_stale", "failed_retryable"}

StageProofRequiresExecutionClaim(run) == ClassifyRun(run) \in Claimable

\* The claim planned from the row as it was read: planStageRunExecutionClaim
\* plans exactly for the rows whose proof requires a claim and throws for the
\* others.  A plan for a missing row creates it (expectedVersion 0 stands for
\* attribute_not_exists); any other plan reclaims it under its version.
ClaimPlan == [expectedVersion : Nat, attempt : Nat, lease : 0 .. Lease]

NoPlan == [expectedVersion |-> 0, attempt |-> 0, lease |-> 0]

\* Mutant: the lease is no longer than the Lambda timeout.
PlanStageRunExecutionClaim_ShortLease(run) ==
  [expectedVersion |-> run.version, attempt |-> run.attempt + 1, lease |-> Lease - 1]

PlanStageRunExecutionClaim(run) ==
  [expectedVersion |-> run.version, attempt |-> run.attempt + 1, lease |-> Lease]

\* What createRun puts and what the reclaim's UpdateCommand sets and removes.
ClaimedRun(run, plan) ==
  [status |-> "RUNNING", retryable |-> FALSE, lease |-> plan.lease,
   attempt |-> plan.attempt, version |-> run.version + 1]

\* completeRun: the terminal status (retryable: failureRetryable, only ever set with
\* FAILED), the lease and its owner removed.
CompletedRun(run, status, retryable) ==
  [status |-> status, retryable |-> retryable, lease |-> 0,
   attempt |-> run.attempt, version |-> run.version + 1]

\* Mutant: the time left runs below zero.
AgedRun_Unclamped(run) == [run EXCEPT !.lease = @ - 1]

\* One clock tick on the row: the lease instant is one tick nearer.
AgedRun(run) == [run EXCEPT !.lease = IF @ > 0 THEN @ - 1 ELSE 0]
=============================================================================
