------------------------ MODULE ExecutionOrchestrator ------------------------
(***************************************************************************)
(* ExecutionOrchestrator.run in PRODUCTION mode and rollbackRun, one       *)
(* action per table access or adapter call.  An API call runs without      *)
(* interruption from one of them to the next, and may die at any of them.  *)
(* The adapter and the AWS resource it changes are modelled by what the    *)
(* orchestrator sees of them.                                              *)
(***************************************************************************)
EXTENDS ExecutionRunTable

CONSTANTS
  Calls,  \* API calls in flight at one time
  Faults  \* which failures of the environment are explored

FaultKinds ==
  {"adapter",     \* an AWS call fails, with or without its effect, or is not verified
   "repository",  \* a table access fails before it takes effect
   "reread",      \* the read after a run's update fails
   "actionLog",   \* the action log refuses a record
   "crash"}       \* a call dies

ASSUME FaultsAssumption == Faults \subseteq FaultKinds

VARIABLES
  resource,  \* the AWS resource: untouched, changed by the plan, or restored
  pc,        \* pc[a]: the access call a makes next
  runId,     \* runId[a]: the run call a works on
  record,    \* record[a]: the version of the run it goes on with
  result     \* result[a]: the status run() returned

orchestratorLocals == <<pc, runId, record, result>>

OrchestratorLabels ==
  {"validate", "createRun", "capture", "persistFailure", "apply", "recordResult",
   "verify", "recordSuccess", "recordFailure", "undo", "recordUndone", "reloadUndone",
   "recordUndoneLatest", "recordUndoFailed",
   "loadRollback", "rollback", "recordRolledBack", "recordRollbackFailed"}

Results == {"none", "SUCCEEDED", "FAILED", "ROLLED_BACK", "ROLLBACK_FAILED", "VALIDATION_FAILED"}

Goto(a, label) == pc' = [pc EXCEPT ![a] = label]

\* run() returns this status to executePlan, or throws.
Return(a, status) ==
  /\ Goto(a, "finalize")
  /\ result' = [result EXCEPT ![a] = status]
Throw(a) == Goto(a, "failPlan") /\ UNCHANGED result

\* runs.update under a version: it succeeds and the caller goes on with the new
\* version, or it fails, by a conflict or otherwise.
UpdateRun(a, expected, status, Success, Failure) ==
  LET r == runId[a] IN
  \/ /\ runs[r].version = expected
     /\ RunWritten(r, status)
     /\ \/ Success /\ record' = [record EXCEPT ![a] = expected + 1]
        \/ "reread" \in Faults /\ Failure /\ UNCHANGED record
  \/ /\ runs[r].version # expected \/ "repository" \in Faults
     /\ Failure
     /\ UNCHANGED <<runs, record>>

Continue(a, label) == Goto(a, label) /\ UNCHANGED result

-----------------------------------------------------------------------------
(* run                                                                     *)

\* adapter.validate.  A failed validation returns the id of a run that never gets
\* a row, which is no run to whoever looks it up.
Validate(a) ==
  /\ pc[a] = "validate"
  /\ \/ Continue(a, "createRun")
     \/ "adapter" \in Faults /\ (Return(a, "VALIDATION_FAILED") \/ Throw(a))
  /\ UNCHANGED <<runs, resource, runId, record>>

CreateRun(a) ==
  /\ pc[a] = "createRun"
  /\ \/ \E r \in RunIds :
          /\ runs[r] = NoRow
          /\ RunWritten(r, "RUNNING")
          /\ runId' = [runId EXCEPT ![a] = r]
          /\ record' = [record EXCEPT ![a] = 1]
          /\ Continue(a, "capture")
     \/ "repository" \in Faults /\ Throw(a) /\ UNCHANGED <<runs, runId, record>>
  /\ UNCHANGED resource

\* capturePreviousConfiguration and the update that stores it.
Capture(a) ==
  /\ pc[a] = "capture"
  /\ \/ UpdateRun(a, record[a], "RUNNING", Continue(a, "apply"), Continue(a, "persistFailure"))
     \/ "adapter" \in Faults /\ Continue(a, "persistFailure") /\ UNCHANGED <<runs, record>>
  /\ UNCHANGED <<resource, runId>>

PersistFailure(a) ==
  /\ pc[a] = "persistFailure"
  /\ UpdateRun(a, record[a], "FAILED", Return(a, "FAILED"), Throw(a))
  /\ UNCHANGED <<resource, runId>>

\* adapter.execute.  A failed AWS call may have had its effect.
Apply(a) ==
  /\ pc[a] = "apply"
  /\ \/ resource' = "changed" /\ Continue(a, "recordResult")
     \/ /\ "adapter" \in Faults
        /\ resource' \in {resource, "changed"}
        /\ Continue(a, "recordFailure")
     \/ "adapter" \in Faults /\ Throw(a) /\ UNCHANGED resource
  /\ UNCHANGED <<runs, runId, record>>

RecordResult(a) ==
  /\ pc[a] = "recordResult"
  /\ UpdateRun(a, record[a], "RUNNING", Continue(a, "verify"), Throw(a))
  /\ UNCHANGED <<resource, runId>>

\* adapter.verify.
Verify(a) ==
  /\ pc[a] = "verify"
  /\ Continue(a, "recordSuccess") \/ ("adapter" \in Faults /\ Continue(a, "recordFailure"))
  /\ UNCHANGED <<runs, resource, runId, record>>

RecordSuccess(a) ==
  /\ pc[a] = "recordSuccess"
  /\ UpdateRun(a, record[a], "SUCCEEDED", Return(a, "SUCCEEDED"), Throw(a))
  /\ UNCHANGED <<resource, runId>>

\* handleFailureWithRollback.  Every adapter is rollback-eligible.
RecordFailure(a) ==
  /\ pc[a] = "recordFailure"
  /\ UpdateRun(a, record[a], "FAILED", Continue(a, "undo"), Throw(a))
  /\ UNCHANGED <<resource, runId>>

\* adapter.rollback to the captured configuration.  Restoring what was never
\* changed has no effect; a failed rollback may have had its effect.
Restored == IF resource = "changed" THEN "restored" ELSE resource

AdapterRollback(a, success, failure) ==
  \/ resource' = Restored /\ Continue(a, success)
  \/ /\ "adapter" \in Faults
     /\ resource' \in {resource, Restored}
     /\ Continue(a, failure)

Undo(a) ==
  /\ pc[a] = "undo"
  /\ AdapterRollback(a, "recordUndone", "recordUndoFailed")
  /\ UNCHANGED <<runs, runId, record>>

\* Both writes after the rollback name a version the row does not have yet: record
\* already is the row the update returned.  A conflict of the first is answered by
\* a reload, any error of the second is swallowed.
RecordUndone(a) ==
  /\ pc[a] = "recordUndone"
  /\ \/ UpdateRun(a, record[a] + 1, "ROLLED_BACK", Return(a, "ROLLED_BACK"),
                  IF runs[runId[a]].version # record[a] + 1 THEN Continue(a, "reloadUndone")
                                                            ELSE Throw(a))
     \/ "repository" \in Faults /\ Throw(a) /\ UNCHANGED <<runs, record>>
  /\ UNCHANGED <<resource, runId>>

ReloadUndone(a) ==
  /\ pc[a] = "reloadUndone"
  /\ \/ record' = [record EXCEPT ![a] = runs[runId[a]].version] /\ Continue(a, "recordUndoneLatest")
     \/ "repository" \in Faults /\ Throw(a) /\ UNCHANGED record
  /\ UNCHANGED <<runs, resource, runId>>

RecordUndoneLatest(a) ==
  /\ pc[a] = "recordUndoneLatest"
  /\ UpdateRun(a, record[a], "ROLLED_BACK", Return(a, "ROLLED_BACK"), Throw(a))
  /\ UNCHANGED <<resource, runId>>

RecordUndoFailed(a) ==
  /\ pc[a] = "recordUndoFailed"
  /\ UpdateRun(a, record[a] + 1, "ROLLBACK_FAILED",
               Return(a, "ROLLBACK_FAILED"), Return(a, "ROLLBACK_FAILED"))
  /\ UNCHANGED <<resource, runId>>

-----------------------------------------------------------------------------
(* rollbackRun                                                             *)

\* Whoever holds the claim goes on; so would a run that was never claimed.
LoadRollback(a) ==
  /\ pc[a] = "loadRollback"
  /\ LET run == runs[runId[a]] IN
       \/ /\ run.status = "ROLLBACK_PENDING" \/ RollbackMayStart(run)
          /\ record' = [record EXCEPT ![a] = run.version]
          /\ Continue(a, "rollback")
       \/ /\ \/ ~(run.status = "ROLLBACK_PENDING" \/ RollbackMayStart(run))
             \/ "repository" \in Faults
          /\ Continue(a, "revertLoad")
          /\ UNCHANGED record
  /\ UNCHANGED <<runs, resource, runId>>

Rollback(a) ==
  /\ pc[a] = "rollback"
  /\ AdapterRollback(a, "recordRolledBack", "recordRollbackFailed")
  /\ UNCHANGED <<runs, runId, record>>

RecordRolledBack(a) ==
  /\ pc[a] = "recordRolledBack"
  /\ UpdateRun(a, record[a], "ROLLED_BACK", Continue(a, "rollPlan"), Continue(a, "revertLoad"))
  /\ UNCHANGED <<resource, runId>>

\* Mutant: rollbackPlan does not look at the status rollbackRun returned.
RecordRollbackFailed_GoesOn(a) ==
  /\ pc[a] = "recordRollbackFailed"
  /\ UpdateRun(a, record[a], "ROLLBACK_FAILED", Continue(a, "rollPlan"), Continue(a, "revertLoad"))
  /\ UNCHANGED <<resource, runId>>

RecordRollbackFailed(a) ==
  /\ pc[a] = "recordRollbackFailed"
  /\ UpdateRun(a, record[a], "ROLLBACK_FAILED", Continue(a, "end"), Continue(a, "revertLoad"))
  /\ UNCHANGED <<resource, runId>>

OrchestratorStep(a) ==
  \/ Validate(a) \/ CreateRun(a) \/ Capture(a) \/ PersistFailure(a) \/ Apply(a)
  \/ RecordResult(a) \/ Verify(a) \/ RecordSuccess(a) \/ RecordFailure(a) \/ Undo(a)
  \/ RecordUndone(a) \/ ReloadUndone(a) \/ RecordUndoneLatest(a) \/ RecordUndoFailed(a)
  \/ LoadRollback(a) \/ Rollback(a) \/ RecordRolledBack(a) \/ RecordRollbackFailed(a)
=============================================================================
