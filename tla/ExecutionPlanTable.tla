------------------------- MODULE ExecutionPlanTable --------------------------
(***************************************************************************)
(* The row of one execution plan and the lifecycle its repository enforces.*)
(* Every update is conditional on a version.  The repository validates on  *)
(* a consistent read of its own just before the conditional write; callers *)
(* only name versions they have seen, so when the write succeeds the row   *)
(* validated is the row written, and the two are one step here.            *)
(***************************************************************************)
EXTENDS Naturals

CONSTANTS
  RunIds,  \* identifiers generateExecutionId may draw for runs
  NoRun    \* no run id: the metadata key is absent

ASSUME RunIdsAssumption == NoRun \notin RunIds

VARIABLE plan  \* the row: status, approval, policy snapshot present, linked run, version

PlanStatuses ==
  {"DRAFT", "PENDING_APPROVAL", "APPROVED", "REJECTED", "EXECUTING", "COMPLETED",
   "FAILED", "ROLLED_BACK"}

\* policy: metadata holds a policy snapshot that lets production execution go on,
\* once approved; run: metadata's lastRunId.
PlanRecord ==
  [status : PlanStatuses, approvalRequired : BOOLEAN,
   approvalStatus : {"NOT_REQUIRED", "PENDING", "APPROVED", "REJECTED"},
   policy : BOOLEAN, run : RunIds \union {NoRun}, version : Nat]

\* createPlan's row: a policy decides approvalRequired, or else the client.
CreatedPlan(required, policy) ==
  [status |-> "DRAFT", approvalRequired |-> required,
   approvalStatus |-> IF required THEN "PENDING" ELSE "NOT_REQUIRED",
   policy |-> policy, run |-> NoRun, version |-> 1]

AllowedTransitions(status) ==
  CASE status = "DRAFT" -> {"PENDING_APPROVAL", "APPROVED"}
    [] status = "PENDING_APPROVAL" -> {"APPROVED", "REJECTED"}
    [] status = "APPROVED" -> {"EXECUTING"}
    [] status = "EXECUTING" -> {"COMPLETED", "FAILED"}
    [] status \in {"COMPLETED", "FAILED"} -> {"ROLLED_BACK"}
    [] status \in {"REJECTED", "ROLLED_BACK"} -> {}

\* validateExecutionStartAllowed for a plan entering EXECUTING.
StartAllowed == plan.approvalRequired => plan.approvalStatus = "APPROVED"

\* validateExecutionTransition and validateExecutionStartAllowed.
TransitionAllowed(next) ==
  /\ next \in AllowedTransitions(plan.status)
  /\ plan.status = "DRAFT" /\ next = "APPROVED" => ~plan.approvalRequired
  /\ next = "EXECUTING" => StartAllowed

\* recordApprovalDecision's checks.
DecisionAllowed == plan.approvalRequired /\ plan.status = "PENDING_APPROVAL"

\* Mutant: an approval can be overridden while the plan executes.
OverrideAllowed_Executing(decision) ==
  /\ plan.approvalRequired
  /\ plan.status \in {"APPROVED", "REJECTED", "EXECUTING"}
  /\ plan.approvalStatus # decision

\* assertOverrideEligiblePlanStatus, and the override must reverse the decision.
OverrideAllowed(decision) ==
  /\ plan.approvalRequired
  /\ plan.status \in {"APPROVED", "REJECTED"}
  /\ plan.approvalStatus # decision

\* The row after an update.
Updated(row) == [row EXCEPT !.version = @ + 1]

\* Mutant: only the approval is recorded, not the status.
Decided_ApprovalOnly(decision) == [plan EXCEPT !.approvalStatus = decision]

\* approvalFieldsForDecision.
Decided(decision) == [plan EXCEPT !.status = decision, !.approvalStatus = decision]
=============================================================================
