-------------------------- MODULE ExecutionRunTable --------------------------
(***************************************************************************)
(* The rows of execution runs: created RUNNING, every update conditional   *)
(* on a version.  update reads the row back after its write, and fails     *)
(* when that read does, although the write stands.                         *)
(***************************************************************************)
EXTENDS ExecutionPlanTable

VARIABLE runs  \* runs[r]: the row

RunStatuses ==
  {"NONE", "RUNNING", "SUCCEEDED", "FAILED", "ROLLBACK_PENDING", "ROLLED_BACK",
   "ROLLBACK_FAILED"}

RunRecord == [status : RunStatuses, version : Nat]

NoRow == [status |-> "NONE", version |-> 0]

\* RUN_STATUSES_ROLLBACK_START: where a rollback may begin.
RollbackMayStart(run) == run.status \in {"SUCCEEDED", "FAILED", "ROLLBACK_FAILED"}

RunWritten(r, status) ==
  runs' = [runs EXCEPT ![r] = [status |-> status, version |-> @.version + 1]]
=============================================================================
