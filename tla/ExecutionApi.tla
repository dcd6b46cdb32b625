---------------------------- MODULE ExecutionApi -----------------------------
(***************************************************************************)
(* ExecutionApiService on one plan: concurrent API calls that update,      *)
(* decide, override, execute and roll back, each of them several table     *)
(* accesses.  A client names a version it has seen, current or not.        *)
(* Appending to the history comes last in every call and only its error    *)
(* would be seen, so it is left out.                                       *)
(***************************************************************************)
EXTENDS ExecutionOrchestrator

CONSTANTS
  MaxPlanVersion,  \* edits and overrides are made below it; bounds the plan's versions
  MaxRunVersion    \* rollbacks are started below it; bounds the runs' versions

VARIABLES
  expected,  \* expected[a]: the plan version call a writes under
  prior      \* prior[a]: rollbackPlan's priorRunStatus

apiLocals == <<expected, prior>>
vars == <<plan, runs, resource, orchestratorLocals, apiLocals>>

ApiLabels ==
  {"idle", "end", "submit", "edit", "approve", "reject", "overrideApproved",
   "overrideRejected", "stamp", "approveDirect", "start", "finalize", "link", "failPlan",
   "readRun", "claim", "revertLoad", "revert", "rollPlan"}

\* The versions a client may have seen: the current one, or one that is outdated.
ClientVersions == {v \in {plan.version, plan.version - 1} : v >= 1}

\* plans.update under a version: the call goes on with the version it wrote, or
\* fails, by a conflict, a refused transition or otherwise.
UpdatePlan(a, allowed, row, success, failure) ==
  \/ /\ allowed
     /\ plan.version = expected[a]
     /\ plan' = Updated(row)
     /\ expected' = [expected EXCEPT ![a] = plan.version + 1]
     /\ Goto(a, success)
  \/ /\ ~allowed \/ plan.version # expected[a] \/ "repository" \in Faults
     /\ Goto(a, failure)
     /\ UNCHANGED <<plan, expected>>

Transition(a, next, success) ==
  UpdatePlan(a, TransitionAllowed(next), [plan EXCEPT !.status = next], success, "end")

-----------------------------------------------------------------------------
(* A call arrives: requirePlan and the checks on what it answers.  A call  *)
(* these refuse changes nothing and is left out.                           *)

Begin(a, label, version) ==
  /\ pc[a] = "idle"
  /\ version \in ClientVersions
  /\ Goto(a, label)
  /\ expected' = [expected EXCEPT ![a] = version]

BeginUpdate(a, version) ==
  /\ plan.status \in {"DRAFT", "PENDING_APPROVAL"}
  /\ \/ plan.approvalRequired /\ Begin(a, "submit", version)
     \/ plan.version < MaxPlanVersion /\ Begin(a, "edit", version)
  /\ UNCHANGED <<plan, runs, resource, runId, record, result, prior>>

BeginDecision(a, version) ==
  /\ DecisionAllowed
  /\ Begin(a, "approve", version) \/ Begin(a, "reject", version)
  /\ UNCHANGED <<plan, runs, resource, runId, record, result, prior>>

BeginOverride(a, version) ==
  /\ plan.version < MaxPlanVersion
  /\ Begin(a, "overrideApproved", version) \/ Begin(a, "overrideRejected", version)
  /\ UNCHANGED <<plan, runs, resource, runId, record, result, prior>>

\* assertProductionExecutionEligible looks at the plan that was read or written.
BeginExecute(a, version) ==
  /\ \/ plan.status = "DRAFT" /\ ~plan.approvalRequired /\ Begin(a, "approveDirect", version)
     \/ plan.status = "APPROVED" /\ StartAllowed /\ plan.policy /\ Begin(a, "start", version)
  /\ UNCHANGED <<plan, runs, resource, runId, record, result, prior>>

\* The plan's part of assertRollbackLifecycle.
BeginRollback(a, version) ==
  /\ plan.run # NoRun
  /\ plan.status \in {"COMPLETED", "FAILED", "EXECUTING"}
  /\ runs[plan.run].version < MaxRunVersion
  /\ Begin(a, "readRun", version)
  /\ runId' = [runId EXCEPT ![a] = plan.run]
  /\ UNCHANGED <<plan, runs, resource, record, result, prior>>

-----------------------------------------------------------------------------
(* Writes to the plan                                                      *)

PlanOnly == UNCHANGED <<runs, resource, runId, record, result, prior>>

\* updatePlan: the submission, perhaps with changes under the version it wrote,
Submit(a) ==
  /\ pc[a] = "submit"
  /\ \E next \in {"edit", "end"} : Transition(a, "PENDING_APPROVAL", next)
  /\ PlanOnly

\* and the changes.  The client's metadata replace the row's.
Edit(a) ==
  /\ pc[a] = "edit"
  /\ \E policy \in BOOLEAN : UpdatePlan(a, TRUE, [plan EXCEPT !.policy = policy], "end", "end")
  /\ PlanOnly

Approve(a) ==
  /\ pc[a] = "approve"
  /\ UpdatePlan(a, DecisionAllowed, Decided("APPROVED"), "stamp", "end")
  /\ PlanOnly

Reject(a) ==
  /\ pc[a] = "reject"
  /\ UpdatePlan(a, DecisionAllowed, Decided("REJECTED"), "stamp", "end")
  /\ PlanOnly

Override(a) ==
  /\ \/ /\ pc[a] = "overrideApproved"
        /\ UpdatePlan(a, OverrideAllowed("APPROVED"), Decided("APPROVED"), "stamp", "end")
     \/ /\ pc[a] = "overrideRejected"
        /\ UpdatePlan(a, OverrideAllowed("REJECTED"), Decided("REJECTED"), "stamp", "end")
  /\ PlanOnly

\* The decision's provenance, added to the metadata the decision's write returned.
Stamp(a) ==
  /\ pc[a] = "stamp"
  /\ UpdatePlan(a, TRUE, plan, "end", "end")
  /\ PlanOnly

\* executePlan.  A plan that needs no approval is first moved to APPROVED, and the
\* row this returns is checked.
ApproveDirect(a) ==
  /\ pc[a] = "approveDirect"
  /\ Transition(a, "APPROVED", IF plan.policy THEN "start" ELSE "end")
  /\ PlanOnly

\* Mutant: the status is written without the version and the lifecycle's checks.
Start_Unguarded(a) ==
  /\ pc[a] = "start"
  /\ plan' = Updated([plan EXCEPT !.status = "EXECUTING"])
  /\ expected' = [expected EXCEPT ![a] = plan.version + 1]
  /\ Goto(a, "validate")
  /\ PlanOnly

\* The start, and its action-log record: when that fails, or when no adapter serves
\* the plan's resource, the call ends there.
Start(a) ==
  /\ pc[a] = "start"
  /\ \/ Transition(a, "EXECUTING", "validate")
     \/ "actionLog" \in Faults /\ Transition(a, "EXECUTING", "end")
  /\ PlanOnly

FinalStatus(status) ==
  CASE status = "SUCCEEDED" -> "COMPLETED"
    [] status = "ROLLED_BACK" -> "ROLLED_BACK"
    [] OTHER -> "FAILED"

\* The run is looked up for the answer, then the plan gets its final status,
Finalize(a) ==
  /\ pc[a] = "finalize"
  /\ Transition(a, FinalStatus(result[a]), "link")
  /\ PlanOnly

\* and the id of its run.
Link(a) ==
  /\ pc[a] = "link"
  /\ UpdatePlan(a, TRUE, [plan EXCEPT !.run = runId[a]], "end", "end")
  /\ PlanOnly

\* run() threw.
FailPlan(a) ==
  /\ pc[a] = "failPlan"
  /\ Transition(a, "FAILED", "end")
  /\ PlanOnly

-----------------------------------------------------------------------------
(* rollbackPlan                                                            *)

\* The run's part of assertRollbackLifecycle.
ReadRun(a) ==
  /\ pc[a] = "readRun"
  /\ LET run == runs[runId[a]] IN
       \/ /\ RollbackMayStart(run)
          /\ record' = [record EXCEPT ![a] = run.version]
          /\ prior' = [prior EXCEPT ![a] = run.status]
          /\ Goto(a, "claim")
       \/ /\ ~RollbackMayStart(run) \/ "repository" \in Faults
          /\ Goto(a, "end")
          /\ UNCHANGED <<record, prior>>
  /\ UNCHANGED <<plan, runs, resource, runId, result, expected>>

\* Mutant: the claim is written under the version the row has by then.
Claim_Unversioned(a) ==
  /\ pc[a] = "claim"
  /\ UpdateRun(a, runs[runId[a]].version, "ROLLBACK_PENDING",
               Continue(a, "loadRollback"), Continue(a, "end"))
  /\ UNCHANGED <<plan, resource, runId, apiLocals>>

Claim(a) ==
  /\ pc[a] = "claim"
  /\ UpdateRun(a, record[a], "ROLLBACK_PENDING",
               Continue(a, "loadRollback"), Continue(a, "end"))
  /\ UNCHANGED <<plan, resource, runId, apiLocals>>

\* revertRunRollbackClaim, when rollbackRun threw: it puts the prior status back
\* over any claim it finds.
RevertLoad(a) ==
  /\ pc[a] = "revertLoad"
  /\ \/ /\ runs[runId[a]].status = "ROLLBACK_PENDING"
        /\ record' = [record EXCEPT ![a] = runs[runId[a]].version]
        /\ Goto(a, "revert")
     \/ /\ runs[runId[a]].status # "ROLLBACK_PENDING" \/ "repository" \in Faults
        /\ Goto(a, "end")
        /\ UNCHANGED record
  /\ UNCHANGED <<plan, runs, resource, runId, result, apiLocals>>

Revert(a) ==
  /\ pc[a] = "revert"
  /\ UpdateRun(a, record[a], prior[a], Continue(a, "end"), Continue(a, "end"))
  /\ UNCHANGED <<plan, resource, runId, apiLocals>>

RollPlan(a) ==
  /\ pc[a] = "rollPlan"
  /\ Transition(a, "ROLLED_BACK", "end")
  /\ PlanOnly

-----------------------------------------------------------------------------

\* The call answers its client, or dies.
Leave(a) ==
  /\ pc' = [pc EXCEPT ![a] = "idle"]
  /\ runId' = [runId EXCEPT ![a] = NoRun]
  /\ record' = [record EXCEPT ![a] = 0]
  /\ result' = [result EXCEPT ![a] = "none"]
  /\ expected' = [expected EXCEPT ![a] = 0]
  /\ prior' = [prior EXCEPT ![a] = "NONE"]
  /\ UNCHANGED <<plan, runs, resource>>

End(a) == pc[a] = "end" /\ Leave(a)

Die(a) == "crash" \in Faults /\ pc[a] \notin {"idle", "end"} /\ Leave(a)

Init ==
  /\ \E required, policy \in BOOLEAN : plan = CreatedPlan(required, policy)
  /\ runs = [r \in RunIds |-> NoRow]
  /\ resource = "untouched"
  /\ pc = [a \in Calls |-> "idle"]
  /\ runId = [a \in Calls |-> NoRun]
  /\ record = [a \in Calls |-> 0]
  /\ result = [a \in Calls |-> "none"]
  /\ expected = [a \in Calls |-> 0]
  /\ prior = [a \in Calls |-> "NONE"]

BeginStep(a, version) ==
  \/ BeginUpdate(a, version) \/ BeginDecision(a, version) \/ BeginOverride(a, version)
  \/ BeginExecute(a, version) \/ BeginRollback(a, version)

PlanStep(a) ==
  \/ Submit(a) \/ Edit(a) \/ Approve(a) \/ Reject(a) \/ Override(a) \/ Stamp(a)
  \/ ApproveDirect(a) \/ Start(a) \/ Finalize(a) \/ Link(a) \/ FailPlan(a) \/ RollPlan(a)

RollbackStep(a) == ReadRun(a) \/ Claim(a) \/ RevertLoad(a) \/ Revert(a)

Next ==
  \E a \in Calls :
    \/ \E version \in ClientVersions : BeginStep(a, version)
    \/ PlanStep(a)
    \/ RollbackStep(a)
    \/ OrchestratorStep(a) /\ UNCHANGED <<plan, apiLocals>>
    \/ End(a)
    \/ Die(a)

Spec == Init /\ [][Next]_vars

-----------------------------------------------------------------------------
(* Properties.                                                             *)

\* Types, and the two status fields of the plan agree.
ExecutionTypeOK ==
  /\ plan \in PlanRecord
  /\ plan.approvalStatus = "NOT_REQUIRED" <=> ~plan.approvalRequired
  /\ plan.status = "REJECTED" <=> plan.approvalStatus = "REJECTED"
  /\ runs \in [RunIds -> RunRecord]
  /\ resource \in {"untouched", "changed", "restored"}
  /\ pc \in [Calls -> ApiLabels \union OrchestratorLabels]
  /\ runId \in [Calls -> RunIds \union {NoRun}]
  /\ record \in [Calls -> Nat]
  /\ result \in [Calls -> Results]
  /\ expected \in [Calls -> Nat]
  /\ prior \in [Calls -> RunStatuses]

\* Whether a plan may change AWS: approved if it needs approval, allowed by policy.
Authorised ==
  /\ plan.status \in {"EXECUTING", "COMPLETED", "FAILED", "ROLLED_BACK"}
  /\ plan.approvalRequired => plan.approvalStatus = "APPROVED"
  /\ plan.policy

\* AWS is changed, or about to be, only for an authorised plan, and no decision,
\* override or edit that was under way meanwhile takes the authorisation back.
ChangeIsAuthorised ==
  resource # "untouched" \/ (\E a \in Calls : pc[a] = "apply") => Authorised

\* However many executions are started together, one run is ever made of a plan.
OneRun == \A r, s \in RunIds : runs[r] # NoRow /\ runs[s] # NoRow => r = s

\* No two calls roll back AWS at the same time, nor does one while another executes.
RollbackExclusion ==
  \A a, b \in Calls :
    pc[a] \in {"rollback", "undo"} /\ pc[b] \in {"rollback", "undo", "apply", "verify"} => a = b

\* A plan's final status tells what became of the resource.
PlanTellsOutcome ==
  /\ plan.status = "COMPLETED" => resource # "untouched"
  /\ plan.status = "ROLLED_BACK" =>
       resource # "changed" /\ runs[plan.run].status = "ROLLED_BACK"

\* The change a plan makes goes through its abstract life.
Change == INSTANCE GovernedChange WITH change <- resource, authorised <- Authorised

ImplementsGovernedChange == Change!Spec

-----------------------------------------------------------------------------
(* Statements of the documentation that the code does not keep.            *)

\* EXECUTING leads to COMPLETED or FAILED (ENTERPRISE-HANDBOOK.md:775): a plan that
\* says EXECUTING is in the hands of a call that will give it its final status.
ExecutingPlanIsWorkedOn ==
  plan.status = "EXECUTING" =>
    \E a \in Calls : pc[a] \in (OrchestratorLabels \union {"finalize", "failPlan"})
=============================================================================
