-------------------------- MODULE ExecutionApiProofs -------------------------
(***************************************************************************)
(* What holds of executions for every number of concurrent calls and runs, *)
(* and for every combination of the modelled faults.                       *)
(***************************************************************************)
EXTENDS ExecutionApi, TLAPS

AllLabels == ApiLabels \union OrchestratorLabels

-----------------------------------------------------------------------------
(* What the writes make of the plan's row.                                 *)

LEMMA UpdatedRow ==
  ASSUME NEW row \in PlanRecord
  PROVE  /\ Updated(row) \in PlanRecord
         /\ Updated(row).version = row.version + 1
         /\ Updated(row).status = row.status
         /\ Updated(row).approvalRequired = row.approvalRequired
         /\ Updated(row).approvalStatus = row.approvalStatus
         /\ Updated(row).policy = row.policy
         /\ Updated(row).run = row.run
BY DEF Updated, PlanRecord

LEMMA RowWithStatus ==
  ASSUME plan \in PlanRecord, NEW s \in PlanStatuses
  PROVE  /\ [plan EXCEPT !.status = s] \in PlanRecord
         /\ [plan EXCEPT !.status = s].status = s
         /\ [plan EXCEPT !.status = s].approvalRequired = plan.approvalRequired
         /\ [plan EXCEPT !.status = s].approvalStatus = plan.approvalStatus
         /\ [plan EXCEPT !.status = s].policy = plan.policy
         /\ [plan EXCEPT !.status = s].run = plan.run
         /\ [plan EXCEPT !.status = s].version = plan.version
BY DEF PlanRecord

LEMMA DecidedRow ==
  ASSUME plan \in PlanRecord, NEW decision \in {"APPROVED", "REJECTED"}
  PROVE  /\ Decided(decision) \in PlanRecord
         /\ Decided(decision).status = decision
         /\ Decided(decision).approvalStatus = decision
         /\ Decided(decision).approvalRequired = plan.approvalRequired
         /\ Decided(decision).policy = plan.policy
         /\ Decided(decision).run = plan.run
         /\ Decided(decision).version = plan.version
BY DEF Decided, PlanRecord, PlanStatuses

\* The statuses a transition leads to.
LEMMA TransitionsOf ==
  ASSUME NEW s \in PlanStatuses, NEW t \in AllowedTransitions(s)
  PROVE  /\ t \in PlanStatuses
         /\ s = "DRAFT" => t \in {"PENDING_APPROVAL", "APPROVED"}
         /\ s = "PENDING_APPROVAL" => t \in {"APPROVED", "REJECTED"}
         /\ s = "APPROVED" => t = "EXECUTING"
         /\ s = "EXECUTING" => t \in {"COMPLETED", "FAILED"}
         /\ s \in {"COMPLETED", "FAILED"} => t = "ROLLED_BACK"
         /\ s \notin {"REJECTED", "ROLLED_BACK"}
BY DEF AllowedTransitions, PlanStatuses

-----------------------------------------------------------------------------
(* A write to the plan either fails and ends the call, or counts the       *)
(* version up for everybody but its caller.                                *)

Refused(a) ==
  /\ UNCHANGED <<plan, expected>>
  /\ pc' = [pc EXCEPT ![a] = "end"]

Written(a, label) ==
  /\ plan.version = expected[a]
  /\ plan' \in PlanRecord
  /\ plan'.version = plan.version + 1
  /\ plan'.approvalRequired = plan.approvalRequired
  /\ expected' = [expected EXCEPT ![a] = plan.version + 1]
  /\ pc' = [pc EXCEPT ![a] = label]

LEMMA TransitionEffect ==
  ASSUME plan \in PlanRecord, NEW a \in Calls, NEW next \in PlanStatuses, NEW label,
         Transition(a, next, label)
  PROVE  \/ Refused(a)
         \/ /\ Written(a, label)
            /\ TransitionAllowed(next)
            /\ plan'.status = next
            /\ plan'.approvalStatus = plan.approvalStatus
            /\ plan'.policy = plan.policy
            /\ plan'.run = plan.run
<1> DEFINE row == [plan EXCEPT !.status = next]
<1>1. /\ row \in PlanRecord /\ row.status = next /\ row.version = plan.version
      /\ row.approvalRequired = plan.approvalRequired
      /\ row.approvalStatus = plan.approvalStatus
      /\ row.policy = plan.policy /\ row.run = plan.run
  BY RowWithStatus
<1>2. UpdatePlan(a, TransitionAllowed(next), row, label, "end")
  BY DEF Transition
<1> HIDE DEF row
<1> QED BY <1>1, <1>2, UpdatedRow DEF UpdatePlan, Refused, Written, Goto

LEMMA DecisionEffect ==
  ASSUME plan \in PlanRecord, NEW a \in Calls, NEW decision \in {"APPROVED", "REJECTED"},
         NEW allowed \in BOOLEAN,
         UpdatePlan(a, allowed, Decided(decision), "stamp", "end")
  PROVE  \/ Refused(a)
         \/ /\ Written(a, "stamp")
            /\ allowed
            /\ plan'.status = decision
            /\ plan'.approvalStatus = decision
            /\ plan'.policy = plan.policy
            /\ plan'.run = plan.run
BY DecidedRow, UpdatedRow DEF UpdatePlan, Refused, Written, Goto

-----------------------------------------------------------------------------
(* Type correctness.  A call works on a row of its run: that is part of it.*)

\* Where run() is at work, or its answer is waited for.
RunLabels ==
  {"validate", "createRun", "capture", "persistFailure", "apply", "recordResult", "verify",
   "recordSuccess", "recordFailure", "undo", "recordUndone", "reloadUndone",
   "recordUndoneLatest", "recordUndoFailed", "finalize", "failPlan"}

\* Where a call's run has a row.
RowLabels ==
  (RunLabels \ {"validate", "createRun", "finalize", "failPlan"}) \union
  {"claim", "loadRollback", "rollback", "recordRolledBack", "recordRollbackFailed",
   "revertLoad", "revert"}

RowsOK ==
  /\ \A r \in RunIds : runs[r] = NoRow \/ runs[r].version > 0
  /\ \A a \in Calls :
       /\ pc[a] = "readRun" => runId[a] \in RunIds
       /\ pc[a] \in RowLabels => runId[a] \in RunIds /\ runs[runId[a]].version > 0

TypeInv == ExecutionTypeOK /\ RowsOK

\* What one access of the orchestrator may do to its call and to the run.
Others(a) ==
  \A b \in Calls : b # a => pc'[b] = pc[b] /\ runId'[b] = runId[b]

RunWrite(a) ==
  \/ UNCHANGED runs
  \/ /\ runId[a] \in RunIds /\ runs[runId[a]].version > 0
     /\ \E s \in RunStatuses : RunWritten(runId[a], s)

RunCreated(a) ==
  \E r \in RunIds :
    /\ runs[r] = NoRow
    /\ RunWritten(r, "RUNNING")
    /\ runId'[a] = r

OrchestratorEffect(a) ==
  /\ Others(a)
  /\ pc' \in [Calls -> AllLabels]
  /\ runId' \in [Calls -> RunIds \union {NoRun}]
  /\ record' \in [Calls -> Nat]
  /\ result' \in [Calls -> Results]
  /\ pc[a] \in RunLabels <=> pc'[a] \in RunLabels
  /\ pc'[a] \notin {"readRun", "edit", "start", "validate"}
  /\ pc'[a] = "createRun" => pc[a] = "validate"
  /\ pc'[a] \in {"capture", "apply"} => pc[a] \in {"createRun", "capture"}
  /\ \/ RunWrite(a) /\ runId' = runId /\ (pc'[a] \in RowLabels => pc[a] \in RowLabels)
     \/ pc[a] = "createRun" /\ RunCreated(a)
  /\ \/ UNCHANGED resource
     \/ resource' = "changed" /\ pc[a] = "apply"
     \/ resource' = "restored" /\ resource = "changed" /\ pc[a] \in {"undo", "rollback"}

LEMMA OrchestratorEffects ==
  ASSUME TypeInv, NEW a \in Calls, OrchestratorStep(a)
  PROVE  OrchestratorEffect(a)
<1> USE DEF TypeInv, ExecutionTypeOK, RowsOK, OrchestratorEffect, Others, RunLabels, RowLabels, AllLabels,
        ApiLabels, OrchestratorLabels, Results, Continue, Goto, Return, Throw
<1>1. CASE Validate(a)
  BY <1>1 DEF Validate, RunWrite
<1>2. CASE CreateRun(a)
  BY <1>2 DEF CreateRun, RunCreated, RunWrite
<1>3. CASE Capture(a)
  BY <1>3 DEF Capture, RunWrite, UpdateRun, RunStatuses
<1>4. CASE PersistFailure(a)
  BY <1>4 DEF PersistFailure, RunWrite, UpdateRun, RunStatuses
<1>5. CASE Apply(a)
  BY <1>5 DEF Apply, RunWrite
<1>6. CASE RecordResult(a)
  BY <1>6 DEF RecordResult, RunWrite, UpdateRun, RunStatuses
<1>7. CASE Verify(a)
  BY <1>7 DEF Verify, RunWrite
<1>8. CASE RecordSuccess(a)
  BY <1>8 DEF RecordSuccess, RunWrite, UpdateRun, RunStatuses
<1>9. CASE RecordFailure(a)
  BY <1>9 DEF RecordFailure, RunWrite, UpdateRun, RunStatuses
<1>10. CASE Undo(a)
  BY <1>10 DEF Undo, AdapterRollback, Restored, RunWrite
<1>11. CASE RecordUndone(a)
  BY <1>11 DEF RecordUndone, RunWrite, UpdateRun, RunStatuses
<1>12. CASE ReloadUndone(a)
  BY <1>12 DEF ReloadUndone, RunWrite, RunRecord
<1>13. CASE RecordUndoneLatest(a)
  BY <1>13 DEF RecordUndoneLatest, RunWrite, UpdateRun, RunStatuses
<1>14. CASE RecordUndoFailed(a)
  BY <1>14 DEF RecordUndoFailed, RunWrite, UpdateRun, RunStatuses
<1>15. CASE LoadRollback(a)
  BY <1>15 DEF LoadRollback, RunWrite, RunRecord
<1>16. CASE Rollback(a)
  BY <1>16 DEF Rollback, AdapterRollback, Restored, RunWrite
<1>17. CASE RecordRolledBack(a)
  BY <1>17 DEF RecordRolledBack, RunWrite, UpdateRun, RunStatuses
<1>18. CASE RecordRollbackFailed(a)
  BY <1>18 DEF RecordRollbackFailed, RunWrite, UpdateRun, RunStatuses
<1> QED
  BY <1>1, <1>2, <1>3, <1>4, <1>5, <1>6, <1>7, <1>8, <1>9, <1>10, <1>11, <1>12, <1>13, <1>14,
     <1>15, <1>16, <1>17, <1>18 DEF OrchestratorStep

\* What a write to the plan may do to it.
Kept ==
  /\ plan'.approvalStatus = plan.approvalStatus
  /\ plan'.policy = plan.policy
  /\ plan'.run = plan.run

Moved(status) == TransitionAllowed(status) /\ plan'.status = status /\ Kept

DecisionWritten ==
  /\ plan'.status \in {"APPROVED", "REJECTED"}
  /\ DecisionAllowed \/ OverrideAllowed(plan'.status)
  /\ plan'.approvalStatus = plan'.status
  /\ plan'.policy = plan.policy
  /\ plan'.run = plan.run

PlanWritten(a) ==
  \/ pc[a] = "submit" /\ Moved("PENDING_APPROVAL") /\ pc'[a] \in {"edit", "end"}
  \/ /\ pc[a] = "edit" /\ pc'[a] = "end"
     /\ plan'.status = plan.status
     /\ plan'.approvalStatus = plan.approvalStatus
     /\ plan'.run = plan.run
  \/ DecisionWritten /\ pc'[a] = "stamp"
  \/ pc[a] = "stamp" /\ plan'.status = plan.status /\ Kept /\ pc'[a] = "end"
  \/ /\ pc[a] = "approveDirect" /\ Moved("APPROVED") /\ pc'[a] \in {"start", "end"}
     /\ pc'[a] = "start" => plan.policy
  \/ pc[a] = "start" /\ Moved("EXECUTING") /\ pc'[a] \in {"validate", "end"}
  \/ pc[a] = "finalize" /\ Moved(FinalStatus(result[a])) /\ pc'[a] = "link"
  \/ /\ pc[a] = "link" /\ pc'[a] = "end"
     /\ plan'.status = plan.status
     /\ plan'.approvalStatus = plan.approvalStatus
     /\ plan'.policy = plan.policy
     /\ plan'.run = runId[a]
  \/ pc[a] = "failPlan" /\ Moved("FAILED") /\ pc'[a] = "end"
  \/ pc[a] = "rollPlan" /\ Moved("ROLLED_BACK") /\ pc'[a] = "end"

PlanEffect(a) ==
  /\ PlanOnly
  /\ pc[a] \notin {"idle", "end"}
  /\ Refused(a) \/ (PlanWritten(a) /\ \E label \in AllLabels : Written(a, label))

LEMMA PlanEffects ==
  ASSUME TypeInv, NEW a \in Calls, PlanStep(a)
  PROVE  PlanEffect(a)
<1> USE DEF PlanEffect, AllLabels, ApiLabels, OrchestratorLabels
<1>0. plan \in PlanRecord /\ pc \in [Calls -> AllLabels] /\ runId[a] \in RunIds \union {NoRun}
      /\ result[a] \in Results
  BY DEF TypeInv, ExecutionTypeOK
<1>1. CASE Submit(a)
  BY <1>0, <1>1, TransitionEffect DEF Submit, PlanWritten, Moved, Kept, Written, PlanStatuses
<1>2. CASE Edit(a)
  <2>1. PICK policy \in BOOLEAN :
             UpdatePlan(a, TRUE, [plan EXCEPT !.policy = policy], "end", "end")
    BY <1>2 DEF Edit
  <2> DEFINE row == [plan EXCEPT !.policy = policy]
  <2>2. row \in PlanRecord /\ row.status = plan.status /\ row.version = plan.version
        /\ row.approvalRequired = plan.approvalRequired
        /\ row.approvalStatus = plan.approvalStatus /\ row.run = plan.run
    BY <1>0 DEF PlanRecord
  <2>3. UpdatePlan(a, TRUE, row, "end", "end")
    BY <2>1
  <2> HIDE DEF row
  <2> QED BY <1>0, <1>2, <2>2, <2>3, UpdatedRow
          DEF Edit, UpdatePlan, PlanWritten, Written, Refused, Goto
<1>3. CASE Approve(a)
  BY <1>0, <1>3, DecisionEffect DEF Approve, PlanWritten, DecisionWritten, Written, DecisionAllowed, PlanRecord
<1>4. CASE Reject(a)
  BY <1>0, <1>4, DecisionEffect DEF Reject, PlanWritten, DecisionWritten, Written, DecisionAllowed, PlanRecord
<1>5. CASE Override(a)
  BY <1>0, <1>5, DecisionEffect DEF Override, PlanWritten, DecisionWritten, Written, OverrideAllowed, PlanRecord
<1>6. CASE Stamp(a)
  BY <1>0, <1>6, UpdatedRow DEF Stamp, UpdatePlan, PlanWritten, Kept, Written, Refused, Goto
<1>7. CASE ApproveDirect(a)
  BY <1>0, <1>7, TransitionEffect DEF ApproveDirect, PlanWritten, Moved, Kept, Written, PlanStatuses
<1>8. CASE Start(a)
  BY <1>0, <1>8, TransitionEffect DEF Start, PlanWritten, Moved, Kept, Written, PlanStatuses
<1>9. CASE Finalize(a)
  <2>1. FinalStatus(result[a]) \in PlanStatuses
    BY DEF FinalStatus, PlanStatuses
  <2> QED BY <1>0, <1>9, <2>1, TransitionEffect DEF Finalize, PlanWritten, Moved, Kept, Written
<1>10. CASE Link(a)
  <2> DEFINE row == [plan EXCEPT !.run = runId[a]]
  <2>1. row \in PlanRecord /\ row.status = plan.status /\ row.version = plan.version
        /\ row.approvalRequired = plan.approvalRequired /\ row.policy = plan.policy
        /\ row.approvalStatus = plan.approvalStatus /\ row.run = runId[a]
    BY <1>0 DEF PlanRecord
  <2>2. UpdatePlan(a, TRUE, row, "end", "end")
    BY <1>10 DEF Link
  <2> HIDE DEF row
  <2> QED BY <1>0, <1>10, <2>1, <2>2, UpdatedRow
          DEF Link, UpdatePlan, PlanWritten, Written, Refused, Goto
<1>11. CASE FailPlan(a)
  BY <1>0, <1>11, TransitionEffect DEF FailPlan, PlanWritten, Moved, Kept, Written, PlanStatuses
<1>12. CASE RollPlan(a)
  BY <1>0, <1>12, TransitionEffect DEF RollPlan, PlanWritten, Moved, Kept, Written, PlanStatuses
<1> QED
  BY <1>1, <1>2, <1>3, <1>4, <1>5, <1>6, <1>7, <1>8, <1>9, <1>10, <1>11, <1>12 DEF PlanStep

\* What the rest of rollbackPlan, the arrival of a call and its end may do.
RollbackEffect(a) ==
  /\ Others(a)
  /\ UNCHANGED <<plan, resource, runId, expected, result>>
  /\ pc' \in [Calls -> AllLabels]
  /\ record' \in [Calls -> Nat]
  /\ prior' \in [Calls -> RunStatuses]
  /\ pc[a] \in {"readRun", "claim", "revertLoad", "revert"}
  /\ pc'[a] \in {"claim", "loadRollback", "revert", "end"}
  /\ RunWrite(a)
  /\ pc'[a] \in RowLabels => runs[runId[a]].version > 0

LEMMA RollbackEffects ==
  ASSUME TypeInv, NEW a \in Calls, RollbackStep(a)
  PROVE  RollbackEffect(a)
<1> USE DEF TypeInv, ExecutionTypeOK, RowsOK, RollbackEffect, Others, RunLabels, RowLabels, AllLabels,
        ApiLabels, OrchestratorLabels, RunWrite, Goto
<1>1. CASE ReadRun(a)
  <2>1. RollbackMayStart(runs[runId[a]]) => runs[runId[a]].version > 0
    BY <1>1 DEF ReadRun, RollbackMayStart, NoRow
  <2>2. runs[runId[a]].status \in RunStatuses /\ runs[runId[a]].version \in Nat
    BY <1>1 DEF ReadRun, RunRecord
  <2> QED BY <1>1, <2>1, <2>2 DEF ReadRun
<1>2. CASE Claim(a)
  BY <1>2 DEF Claim, UpdateRun, Continue, apiLocals, RunStatuses
<1>3. CASE RevertLoad(a)
  BY <1>3 DEF RevertLoad, apiLocals, RunRecord
<1>4. CASE Revert(a)
  BY <1>4 DEF Revert, UpdateRun, Continue, apiLocals
<1> QED BY <1>1, <1>2, <1>3, <1>4 DEF RollbackStep

BeginLabels ==
  {"submit", "edit", "approve", "reject", "overrideApproved", "overrideRejected",
   "approveDirect", "start", "readRun"}

BeginEffect(a) ==
  /\ Others(a)
  /\ UNCHANGED <<plan, runs, resource, record, result, prior>>
  /\ \E label \in BeginLabels, version \in ClientVersions :
       /\ pc' = [pc EXCEPT ![a] = label]
       /\ expected' = [expected EXCEPT ![a] = version]
       /\ label = "edit" => plan.status \in {"DRAFT", "PENDING_APPROVAL"}
       /\ label = "start" => plan.policy
       /\ \/ label # "readRun" /\ runId' = runId
          \/ /\ label = "readRun" /\ plan.run # NoRun
             /\ plan.status \in {"COMPLETED", "FAILED", "EXECUTING"}
             /\ runId' = [runId EXCEPT ![a] = plan.run]

LEMMA BeginEffects ==
  ASSUME TypeInv, NEW a \in Calls, NEW version \in ClientVersions, BeginStep(a, version)
  PROVE  BeginEffect(a)
<1> USE DEF BeginEffect, Others, BeginLabels, Begin, Goto, TypeInv, ExecutionTypeOK
<1>1. CASE BeginUpdate(a, version)
  BY <1>1 DEF BeginUpdate
<1>2. CASE BeginDecision(a, version)
  BY <1>2 DEF BeginDecision
<1>3. CASE BeginOverride(a, version)
  BY <1>3 DEF BeginOverride
<1>4. CASE BeginExecute(a, version)
  BY <1>4 DEF BeginExecute
<1>5. CASE BeginRollback(a, version)
  BY <1>5 DEF BeginRollback
<1> QED BY <1>1, <1>2, <1>3, <1>4, <1>5 DEF BeginStep

\* Every step is one of these, or changes nothing.
LEMMA Effects ==
  ASSUME TypeInv, [Next]_vars
  PROVE  \/ UNCHANGED vars
         \/ \E a \in Calls :
              \/ BeginEffect(a) \/ PlanEffect(a) \/ RollbackEffect(a)
              \/ OrchestratorEffect(a) /\ UNCHANGED <<plan, apiLocals>>
              \/ Leave(a)
BY BeginEffects, PlanEffects, RollbackEffects, OrchestratorEffects DEF Next, End, Die

LEMMA RunWrittenType ==
  ASSUME runs \in [RunIds -> RunRecord], NEW r \in RunIds, NEW s \in RunStatuses,
         RunWritten(r, s)
  PROVE  /\ runs' \in [RunIds -> RunRecord]
         /\ runs'[r].status = s
         /\ runs'[r].version = runs[r].version + 1
         /\ \A q \in RunIds : q # r => runs'[q] = runs[q]
BY DEF RunWritten, RunRecord

LEMMA RunWriteType ==
  ASSUME TypeInv, NEW a \in Calls, RunWrite(a)
  PROVE  /\ runs' \in [RunIds -> RunRecord]
         /\ \A q \in RunIds : runs[q].version > 0 => runs'[q].version > 0
         /\ \A q \in RunIds : runs'[q] = NoRow \/ runs'[q].version > 0
         /\ \A q \in RunIds : runs'[q] = NoRow <=> runs[q] = NoRow
<1> USE DEF TypeInv, ExecutionTypeOK, RowsOK
<1>1. CASE UNCHANGED runs
  BY <1>1
<1>2. CASE /\ runId[a] \in RunIds /\ runs[runId[a]].version > 0
           /\ \E s \in RunStatuses : RunWritten(runId[a], s)
  <2>1. PICK s \in RunStatuses : RunWritten(runId[a], s)
    BY <1>2
  <2>2. \A q \in RunIds : runs[q].version \in Nat
    BY DEF RunRecord
  <2>3. /\ runs' \in [RunIds -> RunRecord]
        /\ runs'[runId[a]].version = runs[runId[a]].version + 1
        /\ \A q \in RunIds : q # runId[a] => runs'[q] = runs[q]
    BY <1>2, <2>1, RunWrittenType
  <2>4. runs[runId[a]].version \in Nat => runs'[runId[a]].version > 0
    BY <2>3
  <2> QED BY <1>2, <2>2, <2>3, <2>4 DEF NoRow
<1> QED BY <1>1, <1>2 DEF RunWrite

\* The two status fields of the plan keep agreeing.
LEMMA PlanAgrees ==
  ASSUME TypeInv, NEW a \in Calls, PlanEffect(a)
  PROVE  /\ plan' \in PlanRecord
         /\ plan'.approvalStatus = "NOT_REQUIRED" <=> ~plan'.approvalRequired
         /\ plan'.status = "REJECTED" <=> plan'.approvalStatus = "REJECTED"
<1> USE DEF TypeInv, ExecutionTypeOK
<1>1. CASE Refused(a)
  BY <1>1 DEF Refused
<1>2. CASE PlanWritten(a) /\ \E label \in AllLabels : Written(a, label)
  <2>1. plan' \in PlanRecord /\ plan'.approvalRequired = plan.approvalRequired
    BY <1>2 DEF Written
  <2>2. ASSUME NEW status \in PlanStatuses \ {"REJECTED"}, Moved(status)
        PROVE  plan'.status # "REJECTED" /\ plan.status # "REJECTED" /\ Kept
    BY <2>2, TransitionsOf DEF Moved, TransitionAllowed, PlanRecord
  <2>3. FinalStatus(result[a]) \in PlanStatuses \ {"REJECTED"}
    BY DEF FinalStatus, PlanStatuses
  <2>4. CASE DecisionWritten
    BY <2>1, <2>4 DEF DecisionWritten, DecisionAllowed, OverrideAllowed
  <2> QED BY <1>2, <2>1, <2>2, <2>3, <2>4 DEF PlanWritten, Kept, PlanStatuses
<1> QED BY <1>1, <1>2 DEF PlanEffect

LEMMA TypeInvInit == Init => TypeInv
<1> SUFFICES ASSUME Init PROVE TypeInv
  OBVIOUS
<1>1. plan \in PlanRecord
      /\ (plan.approvalStatus = "NOT_REQUIRED" <=> ~plan.approvalRequired)
      /\ (plan.status = "REJECTED" <=> plan.approvalStatus = "REJECTED")
  BY DEF Init, CreatedPlan, PlanRecord, PlanStatuses
<1> QED
  BY <1>1 DEF Init, TypeInv, ExecutionTypeOK, RowsOK, RowLabels, RunLabels, NoRow, RunRecord,
     RunStatuses, ApiLabels, Results

LEMMA TypeInvStep == TypeInv /\ [Next]_vars => TypeInv'
<1> SUFFICES ASSUME TypeInv, [Next]_vars PROVE TypeInv'
  OBVIOUS
<1>1. CASE UNCHANGED vars
  BY <1>1 DEF TypeInv, ExecutionTypeOK, RowsOK, vars, orchestratorLocals, apiLocals
<1>2. ASSUME NEW a \in Calls, BeginEffect(a) PROVE TypeInv'
  <2>1. PICK label \in BeginLabels, version \in ClientVersions :
             /\ pc' = [pc EXCEPT ![a] = label]
             /\ expected' = [expected EXCEPT ![a] = version]
             /\ \/ label # "readRun" /\ runId' = runId
                \/ /\ label = "readRun" /\ plan.run # NoRun
                   /\ runId' = [runId EXCEPT ![a] = plan.run]
    BY <1>2 DEF BeginEffect
  <2>2. plan.version \in Nat /\ plan.run \in RunIds \union {NoRun}
    BY DEF TypeInv, ExecutionTypeOK, PlanRecord
  <2>3. version \in Nat
    BY <2>2 DEF ClientVersions
  <2> QED
    BY <1>2, <2>1, <2>2, <2>3 DEF BeginEffect, BeginLabels, TypeInv, ExecutionTypeOK, RowsOK,
       RowLabels, RunLabels, ApiLabels, OrchestratorLabels
<1>3. ASSUME NEW a \in Calls, PlanEffect(a) PROVE TypeInv'
  <2>1. plan.version \in Nat
    BY DEF TypeInv, ExecutionTypeOK, PlanRecord
  <2>2. \/ UNCHANGED expected /\ pc' = [pc EXCEPT ![a] = "end"]
        \/ \E label \in AllLabels :
             /\ expected' = [expected EXCEPT ![a] = plan.version + 1]
             /\ pc' = [pc EXCEPT ![a] = label]
             /\ label \notin RowLabels \union {"readRun"}
    BY <1>3 DEF PlanEffect, Refused, Written, PlanWritten, RowLabels, RunLabels, TypeInv, ExecutionTypeOK
  <2> QED
    BY <1>3, <2>1, <2>2, PlanAgrees DEF PlanEffect, PlanOnly, TypeInv, ExecutionTypeOK, RowsOK,
       RowLabels, RunLabels, AllLabels, ApiLabels, OrchestratorLabels
<1>4. ASSUME NEW a \in Calls, RollbackEffect(a) PROVE TypeInv'
  <2>1. ExecutionTypeOK'
    BY <1>4, RunWriteType DEF RollbackEffect, TypeInv, ExecutionTypeOK, AllLabels
  <2>2. pc'[a] \in RowLabels => runId[a] \in RunIds
    BY <1>4 DEF RollbackEffect, TypeInv, RowsOK, RowLabels
  <2> QED BY <1>4, <2>1, <2>2, RunWriteType DEF RollbackEffect, Others, TypeInv, RowsOK
<1>5. ASSUME NEW a \in Calls, OrchestratorEffect(a), UNCHANGED <<plan, apiLocals>>
      PROVE  TypeInv'
  <2>1. CASE RunWrite(a) /\ runId' = runId /\ (pc'[a] \in RowLabels => pc[a] \in RowLabels)
    <3>1. ExecutionTypeOK'
      BY <1>5, <2>1, RunWriteType DEF OrchestratorEffect, TypeInv, ExecutionTypeOK, AllLabels, apiLocals
    <3> QED BY <1>5, <2>1, <3>1, RunWriteType DEF OrchestratorEffect, Others, TypeInv, RowsOK
  <2>2. CASE pc[a] = "createRun" /\ RunCreated(a)
    <3>1. PICK r \in RunIds : runs[r] = NoRow /\ RunWritten(r, "RUNNING") /\ runId'[a] = r
      BY <2>2 DEF RunCreated
    <3>2. /\ runs' \in [RunIds -> RunRecord] /\ runs'[r].version = 1
          /\ \A q \in RunIds : q # r => runs'[q] = runs[q]
      BY <3>1, RunWrittenType DEF TypeInv, ExecutionTypeOK, RunStatuses, NoRow
    <3>3. ExecutionTypeOK'
      BY <1>5, <3>2 DEF OrchestratorEffect, TypeInv, ExecutionTypeOK, AllLabels, apiLocals
    <3> QED BY <1>5, <3>1, <3>2, <3>3 DEF OrchestratorEffect, Others, TypeInv, RowsOK, NoRow
  <2> QED BY <1>5, <2>1, <2>2 DEF OrchestratorEffect
<1>6. ASSUME NEW a \in Calls, Leave(a) PROVE TypeInv'
  BY <1>6 DEF Leave, TypeInv, ExecutionTypeOK, RowsOK, RowLabels, RunLabels, ApiLabels, Results,
     RunStatuses
<1> QED BY <1>1, <1>2, <1>3, <1>4, <1>5, <1>6, Effects

\* The plan's row, the runs and every call keep their types, and the plan's two
\* status fields agree: no sequence of decisions, overrides, executions and
\* rollbacks makes ExecutionPlanRecord contradict itself.
THEOREM ExecutionTypeCorrect == Spec => []ExecutionTypeOK
<1>1. TypeInv => ExecutionTypeOK
  BY DEF TypeInv
<1> QED BY <1>1, TypeInvInit, TypeInvStep, PTL DEF Spec

-----------------------------------------------------------------------------
(* Authorisation and the run.  The plan's version orders everything: a     *)
(* write made under the current version rests on checks of the current row.*)

Executed == {"EXECUTING", "COMPLETED", "FAILED", "ROLLED_BACK"}

\* Whoever still may write has looked at the row as it is.
ChecksAreCurrent ==
  \A a \in Calls :
    /\ expected[a] <= plan.version
    /\ pc[a] = "edit" /\ expected[a] = plan.version => plan.status \in {"DRAFT", "PENDING_APPROVAL"}
    /\ pc[a] = "start" /\ expected[a] = plan.version => plan.policy

\* One call executes the plan, and the plan says so.
OneWorker ==
  /\ \A a, b \in Calls : pc[a] \in RunLabels /\ pc[b] \in RunLabels => a = b
  /\ \A a \in Calls : pc[a] \in RunLabels => plan.status = "EXECUTING"

ExecutedIsAuthorised ==
  plan.status \in Executed =>
    plan.policy /\ (plan.approvalRequired => plan.approvalStatus = "APPROVED")

NothingBefore ==
  /\ plan.status \notin Executed => resource = "untouched" /\ \A r \in RunIds : runs[r] = NoRow
  /\ \A a \in Calls : pc[a] \in {"validate", "createRun"} =>
       resource = "untouched" /\ \A r \in RunIds : runs[r] = NoRow

UntouchedUntilApplied ==
  \A a \in Calls : pc[a] \in {"validate", "createRun", "capture", "apply"} => resource = "untouched"

ExecutionInv ==
  /\ TypeInv
  /\ ChecksAreCurrent
  /\ OneWorker
  /\ ExecutedIsAuthorised
  /\ NothingBefore
  /\ UntouchedUntilApplied
  /\ OneRun

LEMMA ExecutionInvInit == Init => ExecutionInv
<1> SUFFICES ASSUME Init PROVE ExecutionInv
  OBVIOUS
<1>1. TypeInv
  BY TypeInvInit
<1>2. plan.version = 1 /\ plan.status = "DRAFT"
  BY DEF Init, CreatedPlan
<1> QED
  BY <1>1, <1>2 DEF ExecutionInv, ChecksAreCurrent, OneWorker, ExecutedIsAuthorised, NothingBefore,
     UntouchedUntilApplied, OneRun, Init, Executed, RunLabels

LEMMA BeginKeepsExecution ==
  ASSUME ExecutionInv, TypeInv', NEW a \in Calls, BeginEffect(a)
  PROVE  ExecutionInv'
<1>1. PICK label \in BeginLabels, version \in ClientVersions :
           /\ pc' = [pc EXCEPT ![a] = label]
           /\ expected' = [expected EXCEPT ![a] = version]
           /\ label = "edit" => plan.status \in {"DRAFT", "PENDING_APPROVAL"}
           /\ label = "start" => plan.policy
  BY DEF BeginEffect
<1>2. version <= plan.version
  BY DEF ClientVersions, ExecutionInv, TypeInv, ExecutionTypeOK, PlanRecord
<1>3. \A b \in Calls : pc'[b] \in RunLabels => pc'[b] = pc[b]
  BY <1>1 DEF BeginLabels, RunLabels, ExecutionInv, TypeInv, ExecutionTypeOK
<1>4. ChecksAreCurrent'
  BY <1>1, <1>2 DEF BeginEffect, ChecksAreCurrent, ExecutionInv, TypeInv, ExecutionTypeOK
<1> QED
  BY <1>3, <1>4 DEF BeginEffect, ExecutionInv, OneWorker, ExecutedIsAuthorised, NothingBefore,
     UntouchedUntilApplied, OneRun, RunLabels

LEMMA LeaveKeepsExecution ==
  ASSUME ExecutionInv, TypeInv', NEW a \in Calls, Leave(a)
  PROVE  ExecutionInv'
<1>1. plan.version \in Nat /\ UNCHANGED <<plan, runs, resource>>
  BY DEF ExecutionInv, TypeInv, ExecutionTypeOK, PlanRecord, Leave
<1>2. \A b \in Calls :
        \/ pc'[b] = "idle" /\ expected'[b] = 0
        \/ pc'[b] = pc[b] /\ expected'[b] = expected[b]
  BY DEF Leave, ExecutionInv, TypeInv, ExecutionTypeOK
<1> QED
  BY <1>1, <1>2 DEF ExecutionInv, ChecksAreCurrent, OneWorker, ExecutedIsAuthorised, NothingBefore,
     UntouchedUntilApplied, OneRun, RunLabels

LEMMA RollbackKeepsExecution ==
  ASSUME ExecutionInv, TypeInv', NEW a \in Calls, RollbackEffect(a)
  PROVE  ExecutionInv'
<1>1. \A q \in RunIds : runs'[q] = NoRow <=> runs[q] = NoRow
  BY RunWriteType DEF RollbackEffect, ExecutionInv
<1>2. \A b \in Calls : pc'[b] \in RunLabels \union {"edit", "start"} => pc'[b] = pc[b]
  BY DEF RollbackEffect, Others, RunLabels
<1> QED
  BY <1>1, <1>2 DEF RollbackEffect, ExecutionInv, ChecksAreCurrent, OneWorker, ExecutedIsAuthorised,
     NothingBefore, UntouchedUntilApplied, OneRun, RunLabels

LEMMA OrchestratorKeepsExecution ==
  ASSUME ExecutionInv, TypeInv', NEW a \in Calls, OrchestratorEffect(a),
         UNCHANGED <<plan, apiLocals>>
  PROVE  ExecutionInv'
<1> USE DEF ExecutionInv
<1>1. \A b \in Calls : pc'[b] \in RunLabels <=> pc[b] \in RunLabels
  BY DEF OrchestratorEffect, Others
<1>2. OneWorker'
  BY <1>1 DEF OneWorker
<1>3. ChecksAreCurrent'
  BY DEF OrchestratorEffect, Others, ChecksAreCurrent, apiLocals
<1>4. ExecutedIsAuthorised'
  BY DEF ExecutedIsAuthorised
<1>5. resource' # resource => plan.status \in Executed /\ pc[a] \notin {"validate", "createRun"}
  BY DEF OrchestratorEffect, OneWorker, NothingBefore, RunLabels, Executed
<1>6. UntouchedUntilApplied'
  BY DEF OrchestratorEffect, Others, OneWorker, UntouchedUntilApplied, RunLabels
<1>7. CASE RunWrite(a)
  <2>1. \A q \in RunIds : runs'[q] = NoRow <=> runs[q] = NoRow
    BY <1>7, RunWriteType
  <2>2. NothingBefore'
    BY <1>2, <1>5, <2>1 DEF NothingBefore, OneWorker, OrchestratorEffect, Others, RunLabels
  <2> QED BY <1>2, <1>3, <1>4, <1>6, <2>1, <2>2 DEF OneRun
<1>8. CASE pc[a] = "createRun" /\ RunCreated(a)
  <2>1. plan.status \in Executed /\ \A r \in RunIds : runs[r] = NoRow
    BY <1>8 DEF OneWorker, NothingBefore, RunLabels, Executed
  <2>2. \A b \in Calls : pc'[b] \notin {"validate", "createRun"}
    BY <1>8 DEF OneWorker, OrchestratorEffect, Others, RunLabels
  <2>3. PICK r \in RunIds : \A q \in RunIds : q # r => runs'[q] = runs[q]
    BY <1>8, RunWrittenType DEF RunCreated, TypeInv, ExecutionTypeOK, RunStatuses
  <2>4. OneRun'
    BY <2>1, <2>3 DEF OneRun
  <2> QED BY <1>2, <1>3, <1>4, <1>6, <2>1, <2>2, <2>4 DEF NothingBefore
<1> QED BY <1>7, <1>8 DEF OrchestratorEffect

\* What a write to the plan does to the facts above, for each kind of write.
LEMMA MovedStatus ==
  ASSUME TypeInv, NEW status \in PlanStatuses, Moved(status)
  PROVE  /\ plan.status \in PlanStatuses
         /\ status = "PENDING_APPROVAL" => plan.status \notin Executed
         /\ status = "APPROVED" => plan.status \notin Executed
         /\ status = "EXECUTING" =>
              /\ plan.status = "APPROVED"
              /\ plan.approvalRequired => plan.approvalStatus = "APPROVED"
         /\ status \in {"COMPLETED", "FAILED"} => plan.status = "EXECUTING"
         /\ status = "ROLLED_BACK" => plan.status \in {"COMPLETED", "FAILED"}
<1>1. plan.status \in PlanStatuses /\ status \in AllowedTransitions(plan.status)
  BY DEF TypeInv, ExecutionTypeOK, PlanRecord, Moved, TransitionAllowed
<1>2. status = "EXECUTING" /\ plan.approvalRequired => plan.approvalStatus = "APPROVED"
  BY DEF Moved, TransitionAllowed, StartAllowed
<1> QED BY <1>1, <1>2, TransitionsOf DEF PlanStatuses, Executed

LEMMA PlanKeepsExecution ==
  ASSUME ExecutionInv, TypeInv', NEW a \in Calls, PlanEffect(a)
  PROVE  ExecutionInv'
<1> USE DEF ExecutionInv
<1>0. UNCHANGED <<runs, resource>>
  BY DEF PlanEffect, PlanOnly
<1>1. CASE Refused(a)
  <2>1. \A b \in Calls : pc'[b] = pc[b] \/ pc'[b] = "end"
    BY <1>1 DEF Refused, TypeInv, ExecutionTypeOK
  <2> QED
    BY <1>0, <1>1, <2>1 DEF Refused, ChecksAreCurrent, OneWorker, ExecutedIsAuthorised,
       NothingBefore, UntouchedUntilApplied, OneRun, RunLabels
<1>2. CASE PlanWritten(a) /\ \E label \in AllLabels : Written(a, label)
  <2>1. PICK label \in AllLabels : Written(a, label)
    BY <1>2
  <2>2. /\ pc'[a] = label /\ expected[a] = plan.version /\ expected'[a] = plan'.version
        /\ \A b \in Calls : b # a => pc'[b] = pc[b] /\ expected'[b] = expected[b]
        /\ plan.version \in Nat /\ plan'.version = plan.version + 1
        /\ plan'.approvalRequired = plan.approvalRequired
        /\ \A b \in Calls : expected[b] \in Nat
    BY <2>1 DEF Written, TypeInv, ExecutionTypeOK, PlanRecord
  <2>3. FinalStatus(result[a]) \in {"COMPLETED", "FAILED", "ROLLED_BACK"}
    BY DEF FinalStatus
  <2>4. \A b \in Calls : b # a => expected'[b] < plan'.version
    BY <2>2 DEF ChecksAreCurrent
  <2>5. ChecksAreCurrent'
    <3>1. pc'[a] = "edit" => plan'.status \in {"DRAFT", "PENDING_APPROVAL"}
      BY <1>2 DEF PlanWritten, Moved
    <3>2. pc'[a] = "start" => plan'.policy
      BY <1>2 DEF PlanWritten, Moved, Kept
    <3> QED BY <2>2, <2>4, <3>1, <3>2 DEF ChecksAreCurrent
  <2>6. /\ OneWorker' /\ ExecutedIsAuthorised'
        /\ pc'[a] = "validate" => plan.status = "APPROVED"
        /\ pc'[a] \notin {"createRun", "capture", "apply"}
        /\ plan.status \in Executed => plan'.status \in Executed
        /\ plan'.status \in Executed => plan.status \in Executed \union {"APPROVED"}
    <3>1. CASE pc[a] = "submit" /\ Moved("PENDING_APPROVAL") /\ pc'[a] \in {"edit", "end"}
      BY <2>2, <3>1, MovedStatus
         DEF Moved, OneWorker, ExecutedIsAuthorised, Executed, RunLabels, PlanStatuses
    <3>2. CASE /\ pc[a] = "edit" /\ pc'[a] = "end"
               /\ plan'.status = plan.status
               /\ plan'.approvalStatus = plan.approvalStatus
      <4>1. plan.status \notin Executed
        BY <2>2, <3>2 DEF ChecksAreCurrent, Executed
      <4> QED BY <2>2, <3>2, <4>1 DEF OneWorker, ExecutedIsAuthorised, Executed, RunLabels
    <3>3. CASE DecisionWritten /\ pc'[a] = "stamp"
      <4>1. plan.status \notin Executed /\ plan'.status \notin Executed
        BY <3>3 DEF DecisionWritten, DecisionAllowed, OverrideAllowed, Executed
      <4> QED BY <2>2, <3>3, <4>1 DEF OneWorker, ExecutedIsAuthorised, Executed, RunLabels
    <3>4. CASE /\ plan'.status = plan.status /\ plan'.approvalStatus = plan.approvalStatus
               /\ plan'.policy = plan.policy
               /\ pc[a] \in {"stamp", "link"} /\ pc'[a] = "end"
      BY <2>2, <3>4 DEF OneWorker, ExecutedIsAuthorised, RunLabels
    <3>5. CASE pc[a] = "approveDirect" /\ Moved("APPROVED") /\ pc'[a] \in {"start", "end"}
      BY <2>2, <3>5, MovedStatus
         DEF Moved, OneWorker, ExecutedIsAuthorised, Executed, RunLabels, PlanStatuses
    <3>6. CASE pc[a] = "start" /\ Moved("EXECUTING") /\ pc'[a] \in {"validate", "end"}
      <4>1. plan.policy
        BY <2>2, <3>6 DEF ChecksAreCurrent
      <4>2. /\ plan.status = "APPROVED"
            /\ plan.approvalRequired => plan.approvalStatus = "APPROVED"
        BY <3>6, MovedStatus DEF PlanStatuses
      <4>3. \A b \in Calls : pc[b] \notin RunLabels
        BY <4>2 DEF OneWorker
      <4> QED BY <2>2, <3>6, <4>1, <4>2, <4>3
              DEF Moved, Kept, OneWorker, ExecutedIsAuthorised, Executed
    <3>7. CASE /\ pc[a] \in {"finalize", "failPlan"} /\ pc'[a] \in {"link", "end"}
               /\ \E status \in {"COMPLETED", "FAILED", "ROLLED_BACK"} : Moved(status)
      <4>1. plan.status \in Executed /\ plan'.status \in Executed /\ Kept
        BY <3>7, MovedStatus DEF Moved, PlanStatuses, Executed
      <4>2. \A b \in Calls : pc'[b] \notin RunLabels
        BY <2>2, <3>7 DEF OneWorker, RunLabels
      <4> QED BY <2>2, <3>7, <4>1, <4>2 DEF Kept, OneWorker, ExecutedIsAuthorised
    <3>8. CASE pc[a] = "rollPlan" /\ Moved("ROLLED_BACK") /\ pc'[a] = "end"
      <4>1. plan.status \in {"COMPLETED", "FAILED"} /\ plan'.status \in Executed /\ Kept
        BY <3>8, MovedStatus DEF Moved, PlanStatuses, Executed
      <4> QED BY <2>2, <3>8, <4>1 DEF Kept, OneWorker, ExecutedIsAuthorised, Executed, RunLabels
    <3> QED BY <1>2, <2>3, <3>1, <3>2, <3>3, <3>4, <3>5, <3>6, <3>7, <3>8 DEF PlanWritten, Kept
  <2>7. NothingBefore'
    <3>1. CASE plan'.status \in Executed
      BY <1>0, <2>2, <2>6, <3>1 DEF NothingBefore, Executed
    <3>2. CASE plan'.status \notin Executed
      BY <1>0, <2>2, <2>6, <3>2 DEF NothingBefore
    <3> QED BY <3>1, <3>2
  <2>8. UntouchedUntilApplied'
    BY <1>0, <2>2, <2>6 DEF UntouchedUntilApplied, NothingBefore, Executed
  <2> QED BY <1>0, <2>5, <2>6, <2>7, <2>8 DEF OneRun
<1> QED BY <1>1, <1>2 DEF PlanEffect

LEMMA ExecutionInvStep == ExecutionInv /\ [Next]_vars => ExecutionInv'
<1> SUFFICES ASSUME ExecutionInv, [Next]_vars PROVE ExecutionInv'
  OBVIOUS
<1>1. TypeInv /\ TypeInv'
  BY TypeInvStep DEF ExecutionInv
<1>2. CASE UNCHANGED vars
  BY <1>1, <1>2 DEF ExecutionInv, ChecksAreCurrent, OneWorker, ExecutedIsAuthorised, NothingBefore,
     UntouchedUntilApplied, OneRun, vars, orchestratorLocals, apiLocals
<1> QED
  BY <1>1, <1>2, Effects, BeginKeepsExecution, PlanKeepsExecution, RollbackKeepsExecution,
     OrchestratorKeepsExecution, LeaveKeepsExecution

\* However many calls execute a plan together, and whatever fails or dies, one
\* run is made of it: the version and APPROVED -> EXECUTING admit one call.
THEOREM OneRunPerPlan == Spec => []OneRun
<1>1. ExecutionInv => OneRun
  BY DEF ExecutionInv
<1> QED BY <1>1, ExecutionInvInit, ExecutionInvStep, PTL DEF Spec

\* AWS changes only for a plan that is approved, if it needs approval, and allowed
\* by policy, and no concurrent decision, override or edit takes this back.
THEOREM ChangesAreAuthorised == Spec => []ChangeIsAuthorised
<1>1. ExecutionInv => ChangeIsAuthorised
  BY DEF ExecutionInv, ChangeIsAuthorised, Authorised, NothingBefore, OneWorker,
     ExecutedIsAuthorised, Executed, RunLabels
<1> QED BY <1>1, ExecutionInvInit, ExecutionInvStep, PTL DEF Spec

-----------------------------------------------------------------------------
(* The calls implement GovernedChange.                                     *)

LEMMA ChangeInit == Init => Change!Init
BY DEF Init, CreatedPlan, Change!Init, Authorised

LEMMA ChangeStep ==
  ExecutionInv /\ ExecutionInv' /\ [Next]_vars => [Change!Next]_<<resource, Authorised>>
<1> SUFFICES ASSUME ExecutionInv, ExecutionInv', [Next]_vars
             PROVE  [Change!Next]_<<resource, Authorised>>
  OBVIOUS
<1> USE DEF Change!Next, Change!Authorise, Change!Make, Change!UndoIt
<1>1. (resource # "untouched" => Authorised) /\ (resource' # "untouched" => Authorised')
  BY DEF ExecutionInv, NothingBefore, ExecutedIsAuthorised, Authorised, Executed
<1>2. Authorised \in BOOLEAN /\ Authorised' \in BOOLEAN
  BY DEF Authorised
<1>3. CASE UNCHANGED resource
  BY <1>1, <1>2, <1>3
<1>4. ASSUME NEW a \in Calls, OrchestratorEffect(a), UNCHANGED plan, resource' # resource
      PROVE  Change!Make \/ Change!UndoIt
  <2>1. UNCHANGED Authorised
    BY <1>4 DEF Authorised
  <2>2. CASE resource' = "changed" /\ pc[a] = "apply"
    <3>1. resource = "untouched"
      BY <2>2 DEF ExecutionInv, UntouchedUntilApplied
    <3>2. Authorised
      BY <2>1, <2>2, <1>1
    <3> QED BY <2>1, <2>2, <3>1, <3>2
  <2>3. CASE resource' = "restored" /\ resource = "changed"
    BY <2>1, <2>3
  <2> QED BY <1>4, <2>2, <2>3 DEF OrchestratorEffect
<1> QED
  BY <1>3, <1>4, Effects DEF ExecutionInv, vars, BeginEffect, PlanEffect, PlanOnly, RollbackEffect, Leave

\* The AWS change of a plan is made only once authorised, an authorisation that was
\* used stands, and the change is undone at most once and never made again.
THEOREM CallsImplementGovernedChange == Spec => ImplementsGovernedChange
<1>1. Spec => []ExecutionInv
  BY ExecutionInvInit, ExecutionInvStep, PTL DEF Spec
<1> QED
  BY <1>1, ChangeInit, ChangeStep, PTL DEF Spec, ImplementsGovernedChange, Change!Spec

-----------------------------------------------------------------------------
(* Rollbacks, where the read after a run's update does not fail: a call    *)
(* that fails after it claimed the run then still holds its claim, and     *)
(* reverts no other.                                                       *)

FinalStatuses == {"COMPLETED", "FAILED", "ROLLED_BACK"}

\* Where a call holds the claim ROLLBACK_PENDING, and all of rollbackPlan.
HolderLabels ==
  {"loadRollback", "rollback", "recordRolledBack", "recordRollbackFailed", "revertLoad", "revert"}
RollbackLabels == HolderLabels \union {"readRun", "claim", "rollPlan"}

\* One access of rollbackPlan or rollbackRun: what it reads and writes of its run.
RollbackAccess(a) ==
  LET run == runs[runId[a]] IN
  \/ /\ pc[a] = "readRun" /\ pc'[a] = "claim"
     /\ UNCHANGED <<runs, resource>>
     /\ record'[a] = run.version /\ RollbackMayStart(run)
  \/ /\ pc[a] = "claim" /\ pc'[a] = "loadRollback"
     /\ UNCHANGED resource
     /\ run.version = record[a] /\ RunWritten(runId[a], "ROLLBACK_PENDING")
  \/ /\ pc[a] \in {"loadRollback", "revertLoad"} /\ pc'[a] \in {"rollback", "revert"}
     /\ UNCHANGED <<runs, resource>>
     /\ record'[a] = run.version
  \/ /\ pc'[a] = "end"
     /\ UNCHANGED <<runs, resource>>
  \/ /\ pc[a] = "loadRollback" /\ pc'[a] = "revertLoad"
     /\ UNCHANGED <<runs, resource>>
  \/ /\ pc[a] \in {"recordRolledBack", "recordRollbackFailed"} /\ pc'[a] = "revertLoad"
     /\ UNCHANGED <<runs, resource>>
  \/ /\ pc[a] = "rollback" /\ pc'[a] \in {"recordRolledBack", "recordRollbackFailed"}
     /\ UNCHANGED <<runs, record>>
     /\ resource' \in {resource, Restored}
     /\ pc'[a] = "recordRolledBack" => resource' # "changed"
  \/ /\ pc[a] = "recordRolledBack" /\ pc'[a] = "rollPlan"
     /\ UNCHANGED resource
     /\ run.version = record[a] /\ RunWritten(runId[a], "ROLLED_BACK")
  \/ /\ pc[a] \in {"recordRollbackFailed", "revert"} /\ pc'[a] = "end"
     /\ UNCHANGED resource
     /\ run.version = record[a] /\ \E s \in RunStatuses : RunWritten(runId[a], s)

RollbackCall(a) ==
  /\ Others(a)
  /\ UNCHANGED <<plan, runId, result>>
  /\ \A b \in Calls : b # a => record'[b] = record[b]
  /\ pc[a] \in RollbackLabels
  /\ RollbackAccess(a)

LEMMA RollbackCalls ==
  ASSUME TypeInv, "reread" \notin Faults, NEW a \in Calls,
         \/ RollbackStep(a)
         \/ OrchestratorStep(a) /\ pc[a] \notin RunLabels /\ UNCHANGED <<plan, apiLocals>>
  PROVE  RollbackCall(a)
<1> USE DEF TypeInv, ExecutionTypeOK, RollbackCall, RollbackAccess, Others, HolderLabels, RollbackLabels, Goto,
        Continue, apiLocals
<1>1. CASE ReadRun(a)
  BY <1>1 DEF ReadRun
<1>2. CASE Claim(a)
  BY <1>2 DEF Claim, UpdateRun
<1>3. CASE RevertLoad(a)
  BY <1>3 DEF RevertLoad
<1>4. CASE Revert(a)
  BY <1>4 DEF Revert, UpdateRun
<1>5. CASE LoadRollback(a) /\ UNCHANGED plan
  BY <1>5 DEF LoadRollback
<1>6. CASE Rollback(a) /\ UNCHANGED plan
  BY <1>6 DEF Rollback, AdapterRollback, Restored
<1>7. CASE RecordRolledBack(a) /\ UNCHANGED plan
  BY <1>7 DEF RecordRolledBack, UpdateRun
<1>8. CASE RecordRollbackFailed(a) /\ UNCHANGED plan
  BY <1>8 DEF RecordRollbackFailed, UpdateRun, RunStatuses
<1> QED
  BY <1>1, <1>2, <1>3, <1>4, <1>5, <1>6, <1>7, <1>8
     DEF RollbackStep, OrchestratorStep, RunLabels, Validate, CreateRun, Capture, PersistFailure,
         Apply, RecordResult, Verify, RecordSuccess, RecordFailure, Undo, RecordUndone,
         ReloadUndone, RecordUndoneLatest, RecordUndoFailed

\* A call that will report success has changed the resource.
WillSucceed(a) ==
  \/ pc[a] \in {"recordResult", "verify", "recordSuccess"}
  \/ pc[a] = "finalize" /\ result[a] = "SUCCEEDED"

\* One access of run().
WorkerCall(a) ==
  /\ pc[a] \in RunLabels
  /\ OrchestratorEffect(a)
  /\ UNCHANGED plan
  /\ \A b \in Calls : b # a => result'[b] = result[b]
  /\ WillSucceed(a)' => WillSucceed(a) \/ resource' = "changed"

LEMMA WorkerCalls ==
  ASSUME TypeInv, NEW a \in Calls, OrchestratorStep(a), pc[a] \in RunLabels, UNCHANGED plan
  PROVE  WorkerCall(a)
<1> USE DEF TypeInv, ExecutionTypeOK, WillSucceed, Continue, Goto, Return, Throw
<1>0. OrchestratorEffect(a)
  BY OrchestratorEffects
<1>1. /\ \A b \in Calls : b # a => result'[b] = result[b]
      /\ WillSucceed(a)' => WillSucceed(a) \/ resource' = "changed"
  <2>1. CASE Validate(a)
    BY <2>1 DEF Validate
  <2>2. CASE CreateRun(a)
    BY <2>2 DEF CreateRun
  <2>3. CASE Capture(a)
    BY <2>3 DEF Capture, UpdateRun
  <2>4. CASE PersistFailure(a)
    BY <2>4 DEF PersistFailure, UpdateRun
  <2>5. CASE Apply(a)
    BY <2>5 DEF Apply
  <2>6. CASE RecordResult(a)
    BY <2>6 DEF RecordResult, UpdateRun
  <2>7. CASE Verify(a)
    BY <2>7 DEF Verify
  <2>8. CASE RecordSuccess(a)
    BY <2>8 DEF RecordSuccess, UpdateRun
  <2>9. CASE RecordFailure(a)
    BY <2>9 DEF RecordFailure, UpdateRun
  <2>10. CASE Undo(a)
    BY <2>10 DEF Undo, AdapterRollback
  <2>11. CASE RecordUndone(a)
    BY <2>11 DEF RecordUndone, UpdateRun
  <2>12. CASE ReloadUndone(a)
    BY <2>12 DEF ReloadUndone
  <2>13. CASE RecordUndoneLatest(a)
    BY <2>13 DEF RecordUndoneLatest, UpdateRun
  <2>14. CASE RecordUndoFailed(a)
    BY <2>14 DEF RecordUndoFailed, UpdateRun
  <2>15. CASE LoadRollback(a) \/ Rollback(a) \/ RecordRolledBack(a) \/ RecordRollbackFailed(a)
    BY <2>15 DEF LoadRollback, Rollback, RecordRolledBack, RecordRollbackFailed, RunLabels
  <2> QED
    BY <2>1, <2>2, <2>3, <2>4, <2>5, <2>6, <2>7, <2>8, <2>9, <2>10, <2>11, <2>12, <2>13, <2>14,
       <2>15 DEF OrchestratorStep
<1> QED BY <1>0, <1>1 DEF WorkerCall

LEMMA Accesses ==
  ASSUME TypeInv, "reread" \notin Faults, [Next]_vars
  PROVE  \/ UNCHANGED vars
         \/ \E a \in Calls :
              BeginEffect(a) \/ PlanEffect(a) \/ RollbackCall(a) \/ WorkerCall(a) \/ Leave(a)
BY BeginEffects, PlanEffects, RollbackCalls, WorkerCalls DEF Next, End, Die

\* A plan is linked to its run once, when it has its final status, and only then
\* rolled back.
RollbacksAreLate ==
  /\ plan.run # NoRun => plan.status \in FinalStatuses
  /\ \A a \in Calls : pc[a] = "link" => plan.status \in FinalStatuses /\ plan.run = NoRun
  /\ \A a, b \in Calls : pc[a] = "link" /\ pc[b] = "link" => a = b
  /\ \A a \in Calls : pc[a] \in RollbackLabels => plan.run # NoRun /\ runId[a] = plan.run

\* One call holds the claim, on the run's current version; one that is about to
\* claim the run under its current version may.
OneClaim ==
  /\ \A a, b \in Calls : pc[a] \in HolderLabels /\ pc[b] \in HolderLabels => a = b
  /\ \A a \in Calls :
       /\ pc[a] \in HolderLabels => runs[runId[a]].status = "ROLLBACK_PENDING"
       /\ pc[a] \in {"rollback", "recordRolledBack", "recordRollbackFailed", "revert"} =>
            record[a] = runs[runId[a]].version
       /\ pc[a] = "claim" =>
            /\ record[a] <= runs[runId[a]].version
            /\ record[a] = runs[runId[a]].version => RollbackMayStart(runs[runId[a]])

OutcomesAreTrue ==
  /\ \A a \in Calls :
       /\ WillSucceed(a) => resource # "untouched"
       /\ pc[a] = "recordRolledBack" => resource # "changed"
       /\ pc[a] = "rollPlan" => resource # "changed" /\ runs[runId[a]].status = "ROLLED_BACK"
  /\ PlanTellsOutcome
  /\ plan.status = "ROLLED_BACK" => plan.run # NoRun

RollbackInv == ExecutionInv /\ RollbacksAreLate /\ OneClaim /\ OutcomesAreTrue

LEMMA RollbackInvInit == Init => RollbackInv
<1> SUFFICES ASSUME Init PROVE RollbackInv
  OBVIOUS
<1>1. ExecutionInv
  BY ExecutionInvInit
<1>2. plan.status = "DRAFT" /\ plan.run = NoRun /\ \A a \in Calls : pc[a] = "idle"
  BY DEF Init, CreatedPlan
<1> QED
  BY <1>1, <1>2 DEF RollbackInv, RollbacksAreLate, OneClaim, OutcomesAreTrue, PlanTellsOutcome,
     WillSucceed, HolderLabels, RollbackLabels

\* Steps that leave plan, runs and resource alone.
LEMMA BeginKeepsRollback ==
  ASSUME RollbackInv, ExecutionInv', NEW a \in Calls, BeginEffect(a)
  PROVE  RollbackInv'
<1>1. PICK label \in BeginLabels :
           /\ pc' = [pc EXCEPT ![a] = label]
           /\ \/ label # "readRun" /\ runId' = runId
              \/ label = "readRun" /\ plan.run # NoRun /\ runId' = [runId EXCEPT ![a] = plan.run]
  BY DEF BeginEffect
<1>2. /\ UNCHANGED <<plan, runs, resource, record, result>>
      /\ \A b \in Calls : b # a => pc'[b] = pc[b] /\ runId'[b] = runId[b]
      /\ pc'[a] \in BeginLabels
      /\ pc'[a] = "readRun" => plan.run # NoRun /\ runId'[a] = plan.run
  BY <1>1 DEF BeginEffect, Others, RollbackInv, ExecutionInv, TypeInv, ExecutionTypeOK
<1> QED
  BY <1>2 DEF RollbackInv, RollbacksAreLate, OneClaim, OutcomesAreTrue, PlanTellsOutcome,
     WillSucceed, HolderLabels, RollbackLabels, BeginLabels

LEMMA LeaveKeepsRollback ==
  ASSUME RollbackInv, ExecutionInv', NEW a \in Calls, Leave(a)
  PROVE  RollbackInv'
<1>1. /\ UNCHANGED <<plan, runs, resource>>
      /\ pc'[a] = "idle"
      /\ \A b \in Calls : b # a => /\ pc'[b] = pc[b] /\ runId'[b] = runId[b]
                                  /\ record'[b] = record[b] /\ result'[b] = result[b]
  BY DEF Leave, RollbackInv, ExecutionInv, TypeInv, ExecutionTypeOK
<1> QED
  BY <1>1 DEF RollbackInv, RollbacksAreLate, OneClaim, OutcomesAreTrue, PlanTellsOutcome,
     WillSucceed, HolderLabels, RollbackLabels

\* While run() is at work no call rolls the plan back, and none is linked to a run.
LEMMA NoRollbackMeanwhile ==
  ASSUME RollbackInv, NEW w \in Calls, pc[w] \in RunLabels
  PROVE  /\ plan.status = "EXECUTING" /\ plan.run = NoRun
         /\ \A a \in Calls : pc[a] \notin RollbackLabels \union {"link"}
BY DEF RollbackInv, ExecutionInv, OneWorker, RollbacksAreLate, FinalStatuses

LEMMA WorkerKeepsRollback ==
  ASSUME RollbackInv, ExecutionInv', NEW a \in Calls, WorkerCall(a)
  PROVE  RollbackInv'
<1>1. /\ plan.status = "EXECUTING" /\ plan.run = NoRun /\ UNCHANGED plan
      /\ \A b \in Calls : pc[b] \notin RollbackLabels \union {"link"}
  BY NoRollbackMeanwhile DEF WorkerCall
<1>2. \A b \in Calls : pc'[b] \notin RollbackLabels \union {"link"}
  BY <1>1 DEF WorkerCall, OrchestratorEffect, Others, RunLabels, RollbackLabels, HolderLabels
<1>3. resource # "untouched" => resource' # "untouched"
  BY DEF WorkerCall, OrchestratorEffect
<1>4. \A b \in Calls : b # a => ~WillSucceed(b)'
  BY DEF WorkerCall, OrchestratorEffect, Others, WillSucceed, RollbackInv, ExecutionInv, OneWorker,
     RunLabels
<1>5. WillSucceed(a)' => resource' # "untouched"
  BY <1>3 DEF WorkerCall, RollbackInv, OutcomesAreTrue
<1>6. OutcomesAreTrue'
  BY <1>1, <1>2, <1>4, <1>5 DEF OutcomesAreTrue, PlanTellsOutcome, RollbackLabels, HolderLabels
<1> QED
  BY <1>1, <1>2, <1>6 DEF RollbackInv, RollbacksAreLate, OneClaim, RollbackLabels, HolderLabels

\* A write to the plan: whose run it leaves, and where its status goes.
PlanMove(a) ==
  /\ UNCHANGED <<runs, resource, runId, record, result>>
  /\ \A b \in Calls : b # a => pc'[b] = pc[b]
  /\ pc'[a] \notin RollbackLabels \union {"recordResult", "verify", "recordSuccess", "finalize"}
  /\ \/ /\ plan'.status = plan.status /\ plan'.run = plan.run
        /\ pc'[a] # "link"
     \/ /\ plan.status \notin FinalStatuses /\ plan'.status \notin FinalStatuses
        /\ plan'.run = plan.run /\ pc'[a] # "link"
     \/ /\ pc[a] \in {"finalize", "failPlan"}
        /\ plan'.status \in {"COMPLETED", "FAILED"}
        /\ plan'.status = "COMPLETED" => pc[a] = "finalize" /\ result[a] = "SUCCEEDED"
        /\ plan'.run = plan.run
     \/ /\ pc[a] = "link" /\ pc'[a] = "end"
        /\ plan'.status = plan.status /\ plan'.run = runId[a]
     \/ /\ pc[a] = "rollPlan" /\ pc'[a] = "end"
        /\ plan'.status = "ROLLED_BACK" /\ plan'.run = plan.run

LEMMA PlanMoves ==
  ASSUME TypeInv, OneWorker, NEW a \in Calls, PlanEffect(a)
  PROVE  PlanMove(a)
<1> USE DEF TypeInv, ExecutionTypeOK
<1>1. /\ UNCHANGED <<runs, resource, runId, record, result>>
      /\ \A b \in Calls : b # a => pc'[b] = pc[b]
  BY DEF PlanEffect, PlanOnly, Refused, Written
<1>2. plan.status \in PlanStatuses
  BY DEF PlanRecord
<1>3. CASE Refused(a)
  BY <1>1, <1>3 DEF Refused, PlanMove, RollbackLabels, HolderLabels
<1>4. CASE PlanWritten(a)
  <2>1. ASSUME NEW status \in PlanStatuses, Moved(status)
        PROVE  /\ plan'.status = status /\ plan'.run = plan.run
               /\ status \in AllowedTransitions(plan.status)
    BY <2>1 DEF Moved, TransitionAllowed, Kept
  <2>2. ASSUME NEW status \in {"PENDING_APPROVAL", "APPROVED", "EXECUTING"}, Moved(status)
        PROVE  /\ plan.status \notin FinalStatuses /\ plan'.status \notin FinalStatuses
               /\ plan'.run = plan.run
    BY <1>2, <2>1, <2>2, TransitionsOf DEF FinalStatuses, PlanStatuses
  <2>3. CASE pc[a] = "finalize" /\ Moved(FinalStatus(result[a])) /\ pc'[a] = "link"
    <3>1. FinalStatus(result[a]) \in {"COMPLETED", "FAILED", "ROLLED_BACK"}
          /\ (FinalStatus(result[a]) = "COMPLETED" => result[a] = "SUCCEEDED")
      BY DEF FinalStatus
    <3>2. plan.status = "EXECUTING"
      BY <2>3 DEF OneWorker, RunLabels
    <3>3. FinalStatus(result[a]) # "ROLLED_BACK"
      BY <2>1, <2>3, <3>1, <3>2, TransitionsOf DEF PlanStatuses
    <3> QED BY <1>1, <2>1, <2>3, <3>1, <3>3 DEF PlanMove, RollbackLabels, HolderLabels, PlanStatuses
  <2>4. CASE DecisionWritten /\ pc'[a] = "stamp"
    BY <1>1, <2>4 DEF DecisionWritten, DecisionAllowed, OverrideAllowed, PlanMove, FinalStatuses,
       RollbackLabels, HolderLabels
  <2> QED
    BY <1>1, <1>4, <2>1, <2>2, <2>3, <2>4
       DEF PlanWritten, PlanMove, Kept, RollbackLabels, HolderLabels, PlanStatuses
<1> QED BY <1>3, <1>4 DEF PlanEffect

LEMMA PlanKeepsRollback ==
  ASSUME RollbackInv, ExecutionInv', NEW a \in Calls, PlanEffect(a)
  PROVE  RollbackInv'
<1> USE DEF RollbackInv
<1>1. PlanMove(a)
  BY PlanMoves DEF ExecutionInv
<1>2. \A b \in Calls : pc'[b] # pc[b] => b = a
  BY <1>1 DEF PlanMove
<1>3. pc[a] \in {"finalize", "failPlan"} =>
        /\ plan.run = NoRun /\ plan.status = "EXECUTING"
        /\ \A b \in Calls : pc[b] \notin RollbackLabels \union {"link"}
  BY NoRollbackMeanwhile DEF RunLabels
<1>4. pc[a] = "link" =>
        /\ plan.run = NoRun /\ plan.status \in FinalStatuses
        /\ \A b \in Calls : pc[b] \notin RollbackLabels
        /\ \A b \in Calls : b # a => pc[b] # "link"
  BY DEF RollbacksAreLate
<1>5. pc[a] = "rollPlan" =>
        /\ plan.run # NoRun /\ runId[a] = plan.run
        /\ resource # "changed" /\ runs[plan.run].status = "ROLLED_BACK"
        /\ \A b \in Calls : pc[b] # "link"
  BY DEF RollbacksAreLate, OutcomesAreTrue, RollbackLabels
<1>6. RollbacksAreLate'
  BY <1>1, <1>2, <1>3, <1>4, <1>5 DEF PlanMove, RollbacksAreLate, FinalStatuses
<1>7. OneClaim'
  BY <1>1, <1>2 DEF PlanMove, OneClaim, RollbackLabels, HolderLabels
<1>8. OutcomesAreTrue'
  <2>1. \A b \in Calls : /\ WillSucceed(b)' => WillSucceed(b)
                         /\ pc'[b] \in {"recordRolledBack", "rollPlan"} => pc'[b] = pc[b]
    BY <1>1, <1>2 DEF PlanMove, WillSucceed, RollbackLabels, HolderLabels
  <2>2. plan'.status = "COMPLETED" => resource # "untouched"
    BY <1>1, <1>5 DEF PlanMove, OutcomesAreTrue, PlanTellsOutcome, WillSucceed, FinalStatuses
  <2>3. plan'.status = "ROLLED_BACK" =>
          /\ plan'.run # NoRun
          /\ resource # "changed" /\ runs[plan'.run].status = "ROLLED_BACK"
    BY <1>1, <1>4, <1>5 DEF PlanMove, OutcomesAreTrue, PlanTellsOutcome, FinalStatuses
  <2> QED BY <1>1, <2>1, <2>2, <2>3 DEF PlanMove, OutcomesAreTrue, PlanTellsOutcome
<1> QED BY <1>6, <1>7, <1>8

\* An access that writes the run has its current version; the run may then be
\* rolled back and nobody holds the claim, or the call itself holds it.
LEMMA RunWritesAreCurrent ==
  ASSUME RollbackInv, NEW a \in Calls, RollbackCall(a)
  PROVE  LET r == plan.run IN
         \/ UNCHANGED runs
         \/ /\ pc[a] \in {"claim", "recordRolledBack", "recordRollbackFailed", "revert"}
            /\ runs'[r].version = runs[r].version + 1
            /\ runs[r].status # "ROLLED_BACK"
            /\ pc[a] = "claim" => /\ RollbackMayStart(runs[r])
                                  /\ pc'[a] = "loadRollback"
                                  /\ runs'[r].status = "ROLLBACK_PENDING"
            /\ pc[a] = "recordRolledBack" => /\ pc'[a] = "rollPlan"
                                             /\ runs'[r].status = "ROLLED_BACK"
            /\ pc[a] \in {"recordRollbackFailed", "revert"} => pc'[a] = "end"
<1> USE DEF RollbackInv, ExecutionInv, TypeInv, ExecutionTypeOK
<1>1. runId[a] = plan.run /\ plan.run \in RunIds
  BY DEF RollbackCall, RollbacksAreLate, PlanRecord
<1>2. \A s \in RunStatuses : RunWritten(plan.run, s) =>
        runs'[plan.run].status = s /\ runs'[plan.run].version = runs[plan.run].version + 1
  BY <1>1, RunWrittenType
<1>3. CASE UNCHANGED runs
  BY <1>3
<1>4. CASE /\ pc[a] = "claim" /\ pc'[a] = "loadRollback"
           /\ runs[runId[a]].version = record[a] /\ RunWritten(runId[a], "ROLLBACK_PENDING")
  BY <1>1, <1>2, <1>4 DEF OneClaim, RollbackMayStart, RunStatuses
<1>5. CASE /\ pc[a] = "recordRolledBack" /\ pc'[a] = "rollPlan"
           /\ runs[runId[a]].version = record[a] /\ RunWritten(runId[a], "ROLLED_BACK")
  BY <1>1, <1>2, <1>5 DEF OneClaim, HolderLabels, RunStatuses
<1>6. CASE /\ pc[a] \in {"recordRollbackFailed", "revert"} /\ pc'[a] = "end"
           /\ runs[runId[a]].version = record[a]
           /\ \E s \in RunStatuses : RunWritten(runId[a], s)
  BY <1>1, <1>2, <1>6 DEF OneClaim, HolderLabels
<1> QED BY <1>3, <1>4, <1>5, <1>6 DEF RollbackCall, RollbackAccess

LEMMA RollbackCallKeepsRollback ==
  ASSUME RollbackInv, ExecutionInv', NEW a \in Calls, RollbackCall(a)
  PROVE  RollbackInv'
<1> DEFINE r == plan.run
<1>1. /\ r # NoRun /\ plan.status \in FinalStatuses
      /\ \A b \in Calls : pc[b] \in RollbackLabels => runId[b] = r
  BY DEF RollbackInv, RollbackCall, RollbacksAreLate
<1>2. /\ UNCHANGED <<plan, runId, result>>
      /\ \A b \in Calls : b # a => pc'[b] = pc[b] /\ record'[b] = record[b]
      /\ pc[a] \in RollbackLabels
      /\ pc'[a] \in RollbackLabels \union {"end"}
      /\ RollbackAccess(a)
  BY DEF RollbackCall, Others, RollbackAccess, RollbackLabels, HolderLabels
<1>3. /\ r \in RunIds /\ runs[r].version \in Nat
      /\ \A b \in Calls : record[b] \in Nat
  BY <1>1 DEF RollbackInv, ExecutionInv, TypeInv, ExecutionTypeOK, PlanRecord, RunRecord
<1>4. \A b \in Calls : pc'[b] \in RollbackLabels => pc[b] \in RollbackLabels /\ runId'[b] = r
  BY <1>1, <1>2
<1>5. RollbacksAreLate'
  BY <1>1, <1>2, <1>4 DEF RollbackInv, RollbacksAreLate, RollbackLabels, HolderLabels
<1>6. \/ UNCHANGED runs
      \/ /\ runs[r].status # "ROLLED_BACK"
         /\ runs'[r].version = runs[r].version + 1
         /\ pc[a] \in {"claim", "recordRolledBack", "recordRollbackFailed", "revert"}
  BY RunWritesAreCurrent
<1>7. OneClaim'
  <2>1. CASE UNCHANGED runs
    <3>0. \A s \in RunStatuses : ~RunWritten(r, s)
      BY <1>3, <2>1, RunWrittenType DEF RollbackInv, ExecutionInv, TypeInv, ExecutionTypeOK
    <3>1. /\ pc'[a] \in HolderLabels => pc[a] \in HolderLabels
          /\ pc'[a] \in {"rollback", "revert"} => record'[a] = runs[r].version
          /\ pc'[a] \in {"recordRolledBack", "recordRollbackFailed"} =>
               pc[a] = "rollback" /\ record'[a] = record[a]
          /\ pc'[a] = "claim" => record'[a] = runs[r].version /\ RollbackMayStart(runs[r])
      BY <1>1, <1>2, <3>0 DEF RollbackAccess, HolderLabels, RollbackLabels, RunStatuses
    <3>2. \A b, c \in Calls : pc'[b] \in HolderLabels /\ pc'[c] \in HolderLabels => b = c
      BY <1>2, <3>1 DEF RollbackInv, OneClaim
    <3>3. \A b \in Calls : pc'[b] \in HolderLabels => runs[r].status = "ROLLBACK_PENDING"
      BY <1>1, <1>2, <3>1 DEF RollbackInv, OneClaim, RollbackLabels
    <3>4. \A b \in Calls :
            pc'[b] \in {"rollback", "recordRolledBack", "recordRollbackFailed", "revert"} =>
              record'[b] = runs[r].version
      BY <1>1, <1>2, <3>1 DEF RollbackInv, OneClaim, RollbackLabels, HolderLabels
    <3>5. \A b \in Calls : pc'[b] = "claim" =>
            /\ record'[b] <= runs[r].version
            /\ record'[b] = runs[r].version => RollbackMayStart(runs[r])
      BY <1>1, <1>2, <1>3, <3>1 DEF RollbackInv, OneClaim, RollbackLabels
    <3> QED BY <1>4, <2>1, <3>2, <3>3, <3>4, <3>5 DEF OneClaim, RollbackLabels, HolderLabels
  <2>2. CASE runs' # runs
    <3>1. /\ pc[a] \in {"claim", "recordRolledBack", "recordRollbackFailed", "revert"}
          /\ runs'[r].version = runs[r].version + 1
          /\ pc[a] = "claim" => /\ RollbackMayStart(runs[r])
                                /\ pc'[a] = "loadRollback"
                                /\ runs'[r].status = "ROLLBACK_PENDING"
          /\ pc[a] # "claim" => pc'[a] \in {"rollPlan", "end"}
      BY <2>2, RunWritesAreCurrent
    <3>2. pc[a] = "claim" => \A b \in Calls : pc[b] \notin HolderLabels
      BY <1>1, <3>1 DEF RollbackInv, OneClaim, RollbackMayStart, RollbackLabels
    <3>3. \A b \in Calls : b # a => pc'[b] \notin HolderLabels
      BY <1>2, <3>1, <3>2 DEF RollbackInv, OneClaim, HolderLabels
    <3>4. \A b \in Calls : pc'[b] = "claim" => b # a /\ record'[b] <= runs[r].version
      BY <1>1, <1>2, <3>1 DEF RollbackInv, OneClaim, RollbackLabels
    <3>5. \A b \in Calls : pc'[b] = "claim" =>
            record'[b] <= runs'[r].version /\ record'[b] # runs'[r].version
      <4>1. \A b \in Calls : pc'[b] = "claim" => record'[b] = record[b]
        BY <1>2, <3>4
      <4> QED BY <1>3, <3>1, <3>4, <4>1
    <3>6. \A b \in Calls : pc'[b] \in HolderLabels =>
            pc'[b] = "loadRollback" /\ runs'[r].status = "ROLLBACK_PENDING"
      BY <3>1, <3>3 DEF HolderLabels
    <3> QED
      BY <1>1, <1>4, <3>3, <3>5, <3>6 DEF OneClaim, RollbackLabels, HolderLabels
  <2> QED BY <2>1, <2>2
<1>8. OutcomesAreTrue'
  <2>1. resource # "untouched" => resource' # "untouched"
    BY <1>2 DEF RollbackAccess, Restored
  <2>2. resource # "changed" => resource' # "changed"
    BY <1>2 DEF RollbackAccess, Restored
  <2>3. runs[r].status = "ROLLED_BACK" => UNCHANGED runs
    BY RunWritesAreCurrent
  <2>4. \A b \in Calls : WillSucceed(b)' => WillSucceed(b)
    BY <1>2 DEF WillSucceed, RollbackLabels, HolderLabels
  <2>5. pc'[a] = "recordRolledBack" => resource' # "changed"
    BY <1>2 DEF RollbackAccess
  <2>6. pc'[a] = "rollPlan" =>
          pc[a] = "recordRolledBack" /\ runs'[r].status = "ROLLED_BACK"
    <3>1. pc'[a] = "rollPlan" => /\ pc[a] = "recordRolledBack"
                                /\ RunWritten(r, "ROLLED_BACK")
      BY <1>1, <1>2 DEF RollbackAccess
    <3> QED BY <1>3, <3>1, RunWrittenType DEF RollbackInv, ExecutionInv, TypeInv, ExecutionTypeOK, RunStatuses
  <2>7. \A b \in Calls : pc'[b] = "rollPlan" =>
          resource' # "changed" /\ runs'[r].status = "ROLLED_BACK" /\ runId'[b] = r
    BY <1>1, <1>2, <1>4, <2>2, <2>3, <2>6 DEF RollbackInv, OutcomesAreTrue, RollbackLabels
  <2>8. \A b \in Calls : pc'[b] = "recordRolledBack" => resource' # "changed"
    BY <1>2, <2>2, <2>5 DEF RollbackInv, OutcomesAreTrue
  <2>9. PlanTellsOutcome' /\ (plan'.status = "ROLLED_BACK" => plan'.run # NoRun)
    BY <1>1, <1>2, <2>1, <2>2, <2>3 DEF RollbackInv, OutcomesAreTrue, PlanTellsOutcome
  <2> QED
    BY <2>1, <2>4, <2>7, <2>8, <2>9 DEF RollbackInv, OutcomesAreTrue
<1> QED BY <1>5, <1>7, <1>8 DEF RollbackInv

LEMMA RollbackInvStep ==
  ASSUME "reread" \notin Faults, RollbackInv, [Next]_vars
  PROVE  RollbackInv'
<1>1. TypeInv /\ ExecutionInv'
  BY ExecutionInvStep DEF RollbackInv, ExecutionInv
<1>2. CASE UNCHANGED vars
  BY <1>1, <1>2 DEF RollbackInv, RollbacksAreLate, OneClaim, OutcomesAreTrue, PlanTellsOutcome,
     WillSucceed, vars, orchestratorLocals, apiLocals
<1> QED
  BY <1>1, <1>2, Accesses, BeginKeepsRollback, PlanKeepsRollback, RollbackCallKeepsRollback,
     WorkerKeepsRollback, LeaveKeepsRollback

\* No two calls roll AWS back at once, nor one while another executes the plan.
THEOREM RollbacksExclude ==
  ASSUME "reread" \notin Faults
  PROVE  Spec => []RollbackExclusion
<1>1. Init => RollbackInv
  BY RollbackInvInit
<1>2. RollbackInv /\ [Next]_vars => RollbackInv'
  BY RollbackInvStep
<1>3. RollbackInv => RollbackExclusion
  <2> SUFFICES ASSUME RollbackInv, NEW a \in Calls, NEW b \in Calls,
                      pc[a] \in {"rollback", "undo"},
                      pc[b] \in {"rollback", "undo", "apply", "verify"}
               PROVE  a = b
    BY DEF RollbackExclusion
  <2>1. CASE pc[a] = "rollback" /\ pc[b] = "rollback"
    BY <2>1 DEF RollbackInv, OneClaim, HolderLabels
  <2>2. CASE pc[a] = "undo" /\ pc[b] # "rollback"
    BY <2>2 DEF RollbackInv, ExecutionInv, OneWorker, RunLabels
  <2>3. CASE pc[a] = "rollback" /\ pc[b] # "rollback"
    BY <2>3, NoRollbackMeanwhile DEF RunLabels, RollbackLabels, HolderLabels
  <2>4. CASE pc[a] = "undo" /\ pc[b] = "rollback"
    BY <2>4, NoRollbackMeanwhile DEF RunLabels, RollbackLabels, HolderLabels
  <2> QED BY <2>1, <2>2, <2>3, <2>4
<1> QED BY <1>1, <1>2, <1>3, PTL DEF Spec

\* A completed plan's resource was changed; a plan that says it is rolled back has
\* undone its change, and its run says so too.
THEOREM FinalStatusesAreTrue ==
  ASSUME "reread" \notin Faults
  PROVE  Spec => []PlanTellsOutcome
<1>1. Init => RollbackInv
  BY RollbackInvInit
<1>2. RollbackInv /\ [Next]_vars => RollbackInv'
  BY RollbackInvStep
<1>3. RollbackInv => PlanTellsOutcome
  BY DEF RollbackInv, OutcomesAreTrue
<1> QED BY <1>1, <1>2, <1>3, PTL DEF Spec
=============================================================================
