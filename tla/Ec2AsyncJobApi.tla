--------------------------- MODULE Ec2AsyncJobApi ---------------------------
(***************************************************************************)
(* What the API answers of an EC2 analysis job, and whether the job keeps  *)
(* its scope (account and regions) from being analysed again.  A row is    *)
(* seen as [status, stage, proof]: proof is what the stage-run row proves  *)
(* of the job's stage, and fresh whether the row was written less than a   *)
(* lease ago.  Texts and timestamps are left out.                          *)
(***************************************************************************)
EXTENDS Naturals

JobStatuses == {"QUEUED", "RUNNING", "PARTIAL", "SUCCEEDED", "FAILED"}
JobStages == {"ENQUEUE", "DISCOVERY", "FINALIZING", "COMPLETE"}
StageProofs == {"missing", "in_progress_active", "in_progress_stale", "failed_retryable",
                "complete", "ambiguous"}

JobRow == [status : JobStatuses, stage : JobStages, proof : StageProofs, fresh : BOOLEAN,
           enqueueFailed : BOOLEAN]

\* isScopeBlocking as the answer carries it: a service built without the stage
\* completion service leaves it out.
BlockingAnswers == {"yes", "no", "unsaid"}

IsEc2AsyncJobActive(row) ==
  /\ ~row.enqueueFailed
  /\ \/ row.status \in {"QUEUED", "RUNNING"}
     \/ row.status = "PARTIAL" /\ row.stage # "COMPLETE"

\* DISCOVERY stands for the three stages whose runs carry a lease.
HasAuthoritativeLeaseProof(stage) == stage = "DISCOVERY"

LoadStageProof(row) == IF HasAuthoritativeLeaseProof(row.stage) THEN row.proof ELSE "ambiguous"

ClassifyScopeBlock(row) ==
  \/ LoadStageProof(row) = "in_progress_active"
  \/ /\ LoadStageProof(row) \in {"missing", "ambiguous"}
     /\ HasAuthoritativeLeaseProof(row.stage) => row.fresh

IsBlockingSameScopeStart(row) ==
  /\ IsEc2AsyncJobActive(row)
  /\ row.status = "QUEUED" \/ ClassifyScopeBlock(row)

\* presentJobForApi and sanitizeEc2AsyncJobForApi.
PresentJob(j, row, stageCompletion) ==
  [job |-> j, status |-> row.status, stage |-> row.stage, enqueueFailed |-> row.enqueueFailed,
   blocking |-> CASE ~stageCompletion -> "unsaid"
                  [] stageCompletion /\ IsBlockingSameScopeStart(row) -> "yes"
                  [] stageCompletion /\ ~IsBlockingSameScopeStart(row) -> "no"]

\* The dashboard's isTerminalJobStatus, through mapEc2AsyncJobToDisplayState.
IsTerminalJobStatus(shown) ==
  \/ shown.status \in {"FAILED", "SUCCEEDED"}
  \/ shown.status = "PARTIAL" /\ shown.stage = "COMPLETE"

\* isEc2AsyncJobScopeBlocking: the dashboard's own rule when the answer says nothing.
IsScopeBlocking(shown) ==
  \/ shown.blocking = "yes"
  \/ shown.blocking = "unsaid" /\ ~shown.enqueueFailed /\ ~IsTerminalJobStatus(shown)
=============================================================================
