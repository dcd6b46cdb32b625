-------------------------- MODULE Ec2AsyncJobTable ---------------------------
(***************************************************************************)
(* The async-jobs table: one row per job, every update conditional on the  *)
(* version the writer read.  getJob is an eventually consistent read: it   *)
(* answers from the leader or from a replica that lags behind it.          *)
(***************************************************************************)
EXTENDS Naturals

CONSTANTS
  Jobs,        \* job identifiers
  StaleTables  \* the tables whose eventually consistent reads may lag

ASSUME StaleTablesAssumption == StaleTables \subseteq {"jobs", "runs", "reports"}

VARIABLES
  jobs,        \* jobs[j]: the row, as the leader holds it
  jobsReplica  \* jobsReplica[j]: the row, as a lagging replica holds it

tableVars == <<jobs, jobsReplica>>

JobStatuses == {"NONE", "QUEUED", "RUNNING", "SUCCEEDED", "FAILED"}
QueueStatuses == {"NONE", "PENDING", "ENQUEUED", "ENQUEUE_FAILED"}

JobStages == {"ENQUEUE", "DISCOVERY", "COST_ANALYSIS", "SECURITY_ANALYSIS",
              "GOVERNANCE_ANALYSIS", "FINALIZING", "COMPLETE"}

\* Position of a stage in the pipeline.
StageIndex(stage) ==
  CASE stage = "ENQUEUE" -> 0
    [] stage = "DISCOVERY" -> 1
    [] stage = "COST_ANALYSIS" -> 2
    [] stage = "SECURITY_ANALYSIS" -> 3
    [] stage = "GOVERNANCE_ANALYSIS" -> 4
    [] stage = "FINALIZING" -> 5
    [] stage = "COMPLETE" -> 6

JobRecord ==
  [status : JobStatuses, stage : JobStages, queueStatus : QueueStatuses,
   retryCount : Nat, version : Nat]

\* No row: getJob answers undefined.
NoJob == [status |-> "NONE", stage |-> "ENQUEUE", queueStatus |-> "NONE",
          retryCount |-> 0, version |-> 0]

\* The row createIdempotentJob writes.
CreatedJob == [status |-> "QUEUED", stage |-> "ENQUEUE", queueStatus |-> "PENDING",
               retryCount |-> 0, version |-> 1]

Exists(job) == job.version > 0

IsTerminal(job) == job.status \in {"SUCCEEDED", "FAILED"}

\* The rows an eventually consistent getJob may answer with.
GetJob(j) == IF "jobs" \in StaleTables THEN {jobs[j], jobsReplica[j]} ELSE {jobs[j]}

\* Mutant: updateJob without its ConditionExpression.
VersionMatches_Ignored(j, seen) == Exists(jobs[j])

\* updateJob's ConditionExpression: the row still has the version that was read.
VersionMatches(j, seen) == jobs[j].version = seen.version

\* updateJob's write: row is jobs[j] with the changed fields.  updateJob returns
\* the row it wrote (ReturnValues ALL_NEW), so a caller goes on with jobs'[j].
UpdateJob(j, row) ==
  /\ jobs' = [jobs EXCEPT ![j] = [row EXCEPT !.version = @ + 1]]
  /\ UNCHANGED jobsReplica

\* The replica catches up with the leader.
ReplicateJob(j) ==
  /\ "jobs" \in StaleTables
  /\ jobsReplica[j] # jobs[j]
  /\ jobsReplica' = [jobsReplica EXCEPT ![j] = jobs[j]]
  /\ UNCHANGED jobs

TableTypeOK ==
  /\ jobs \in [Jobs -> JobRecord]
  /\ jobsReplica \in [Jobs -> JobRecord]
=============================================================================
