------------------------ MODULE WorkflowOrchestration -----------------------
(***************************************************************************)
(* The optimization workflow engine: WorkflowOrchestrator.executeWorkflow, *)
(* one API call per invocation, over RepositoryBackedWorkflowStore.  The   *)
(* store's writes carry a version and are tried again on a conflict; a row *)
(* is written by the one call that created it, so that a conflict is the   *)
(* call's own write repeated, and the versions are left out.  What the     *)
(* engines and plugins compute is left out: a stage succeeds or fails.     *)
(***************************************************************************)
EXTENDS Naturals, Sequences

CONSTANTS
  Workflows,        \* workflow ids: generated, or derived from an idempotency key
  WorkflowCalls,
  NO_WORKFLOW

ASSUME WorkflowAssumption == NO_WORKFLOW \notin Workflows

VARIABLES
  workflows,        \* the persisted rows
  ownerships,       \* the workflow ids that have an ownership record
  workflowCalls

workflowVars == <<workflows, ownerships, workflowCalls>>

DryRunPipeline == <<"EVIDENCE", "GOVERNANCE", "FINANCIAL", "CONFIDENCE", "RECOMMENDATION">>

\* runPipeline, with the feature flags that go with the mode.
Pipeline(mode) ==
  IF mode = "dry-run" THEN DryRunPipeline
  ELSE DryRunPipeline \o <<"EXECUTION", "VERIFICATION", "LEARNING">>

WorkflowStatuses == {"PENDING", "RUNNING", "COMPLETED", "FAILED"}
NoResult == "none"

\* A row: its status, how many stages its context has completed, and its result's status.
WorkflowRow == [status : WorkflowStatuses, mode : {"full", "dry-run"}, done : 0 .. 8,
                result : {NoResult, "COMPLETED", "FAILED"}]

ASSUME NoWorkflowIsNoRow == NO_WORKFLOW \notin WorkflowRow

WorkflowCall ==
  [pc : {"idle", "save", "own", "winner", "start", "candidates", "candidate", "stage",
         "stageDone", "complete", "result", "empty", "emptyResult", "fail", "failResult",
         "answered", "thrown"},
   id : Workflows \union {NO_WORKFLOW}, mode : {"full", "dry-run"}, done : 0 .. 8,
   answer : WorkflowStatuses \union {NoResult}, duplicate : BOOLEAN]

IdleWorkflowCall == [pc |-> "idle", id |-> NO_WORKFLOW, mode |-> "full", done |-> 0,
                     answer |-> NoResult, duplicate |-> FALSE]

WorkflowInit ==
  /\ workflows = [w \in Workflows |-> NO_WORKFLOW]
  /\ ownerships = {}
  /\ workflowCalls = [c \in WorkflowCalls |-> IdleWorkflowCall]

HasRow(w) == workflows[w] # NO_WORKFLOW
AtStep(c, pc) == workflowCalls[c].pc = pc
Becomes(c, call) == workflowCalls' = [workflowCalls EXCEPT ![c] = call]
Then(c, pc) == Becomes(c, [workflowCalls[c] EXCEPT !.pc = pc])

(* The start of executeWorkflow. *)

\* toReplayResult: the stored result, or what the context says when there is none; that of a
\* PENDING row says RUNNING (createInitialContext).
Replayed(row) ==
  IF row.result # NoResult THEN row.result
  ELSE IF row.status = "PENDING" THEN "RUNNING" ELSE row.status

Replay(c, call) ==
  Becomes(c, [call EXCEPT !.pc = "answered", !.duplicate = TRUE,
                          !.answer = Replayed(workflows[call.id])])

\* A generated id is fresh; an idempotency key always derives the same id.
ExecuteWorkflow(c) ==
  /\ AtStep(c, "idle")
  /\ \E w \in Workflows, mode \in {"full", "dry-run"}, keyed \in BOOLEAN :
       LET call == [IdleWorkflowCall EXCEPT !.pc = "save", !.id = w, !.mode = mode]
       IN /\ ~keyed => ~HasRow(w) /\ \A d \in WorkflowCalls : workflowCalls[d].id # w
          /\ IF HasRow(w) THEN Replay(c, call) ELSE Becomes(c, call)
  /\ UNCHANGED <<workflows, ownerships>>

\* Mutant: the row is put whether or not there is one.
MayCreateRow_Always(w) == TRUE

MayCreateRow(w) == ~HasRow(w)

\* store.save: the row first.  A put whose answer was lost is repeated by the client and
\* finds its own row.
SaveRow(c) ==
  /\ AtStep(c, "save")
  /\ LET w == workflowCalls[c].id
     IN \/ /\ MayCreateRow(w)
           /\ workflows' = [workflows EXCEPT ![w] =
                [status |-> "PENDING", mode |-> workflowCalls[c].mode, done |-> 0, result |-> NoResult]]
           /\ Then(c, "own") \/ Then(c, "winner")
        \/ HasRow(w) /\ Then(c, "winner") /\ UNCHANGED workflows
        \/ Then(c, "thrown") /\ UNCHANGED workflows
  /\ UNCHANGED ownerships

\* Then its ownership; one that exists is left as it is.
SaveOwnership(c) ==
  /\ AtStep(c, "own")
  /\ \/ ownerships' = ownerships \union {workflowCalls[c].id} /\ Then(c, "start")
     \/ UNCHANGED ownerships /\ Then(c, "thrown")
  /\ UNCHANGED workflows

ReplayWinner(c) ==
  /\ AtStep(c, "winner")
  /\ Replay(c, workflowCalls[c])
  /\ UNCHANGED <<workflows, ownerships>>

(* The store's updates: applied, lost, or applied with the answer lost. *)

ContextWritten(row, c, status) ==
  [row EXCEPT !.status = status, !.done = workflowCalls[c].done]

UpdateRow(c, row) == workflows' = [workflows EXCEPT ![workflowCalls[c].id] = row]

Store(c, row, next, otherwise) ==
  \/ UpdateRow(c, row) /\ (next \/ otherwise)
  \/ UNCHANGED workflows /\ otherwise

UpdateContext(c, status, next, otherwise) ==
  Store(c, ContextWritten(workflows[workflowCalls[c].id], c, status), next, otherwise)

UpdateResult(c, status, next, otherwise) ==
  Store(c, [workflows[workflowCalls[c].id] EXCEPT !.status = status, !.result = status],
        next, otherwise)

(* The run. *)

\* Outside the try block: an error leaves the row as it is.
MarkRunning(c) ==
  /\ AtStep(c, "start")
  /\ UpdateContext(c, "RUNNING", Then(c, "candidates"), Then(c, "thrown"))
  /\ UNCHANGED ownerships

\* The plugin may fail, or find no candidate.
CollectCandidates(c) ==
  /\ AtStep(c, "candidates")
  /\ Then(c, "candidate") \/ Then(c, "empty") \/ Then(c, "fail")
  /\ UNCHANGED <<workflows, ownerships>>

SaveCandidate(c) ==
  /\ AtStep(c, "candidate")
  /\ UpdateContext(c, "RUNNING", Then(c, "stage"), Then(c, "fail"))
  /\ UNCHANGED ownerships

\* executeStage of the next stage, whose prerequisites have completed.
ExecuteStage(c) ==
  /\ AtStep(c, "stage")
  /\ \/ Becomes(c, [workflowCalls[c] EXCEPT !.pc = "stageDone", !.done = @ + 1])
     \/ Then(c, "fail")
  /\ UNCHANGED <<workflows, ownerships>>

\* Mutant: the run is complete when its recommendation is.
PipelineDone_Early(c) == workflowCalls[c].done >= Len(DryRunPipeline)

PipelineDone(c) == workflowCalls[c].done = Len(Pipeline(workflowCalls[c].mode))

SaveStage(c) ==
  /\ AtStep(c, "stageDone")
  /\ UpdateContext(c, "RUNNING", Then(c, IF PipelineDone(c) THEN "complete" ELSE "stage"),
                   Then(c, "fail"))
  /\ UNCHANGED ownerships

CompleteContext(c) ==
  /\ AtStep(c, "complete")
  /\ UpdateContext(c, "COMPLETED", Then(c, "result"), Then(c, "fail"))
  /\ UNCHANGED ownerships

Answers(c, status) ==
  Becomes(c, [workflowCalls[c] EXCEPT !.pc = "answered", !.answer = status])

CompleteResult(c) ==
  /\ AtStep(c, "result")
  /\ UpdateResult(c, "COMPLETED", Answers(c, "COMPLETED"), Then(c, "fail"))
  /\ UNCHANGED ownerships

\* failWorkflow, also for an error of the last two writes.  Without a candidate it is called
\* inside the try block, so that an error of its writes has it called again.
FailContext(c) ==
  /\ \/ AtStep(c, "empty") /\ UpdateContext(c, "FAILED", Then(c, "emptyResult"), Then(c, "fail"))
     \/ AtStep(c, "fail") /\ UpdateContext(c, "FAILED", Then(c, "failResult"), Then(c, "thrown"))
  /\ UNCHANGED ownerships

FailResult(c) ==
  /\ \/ AtStep(c, "emptyResult") /\ UpdateResult(c, "FAILED", Answers(c, "FAILED"), Then(c, "fail"))
     \/ AtStep(c, "failResult") /\ UpdateResult(c, "FAILED", Answers(c, "FAILED"), Then(c, "thrown"))
  /\ UNCHANGED ownerships

Over(c) == workflowCalls[c].pc \in {"idle", "answered", "thrown"}

WorkflowCallDies(c) ==
  /\ ~Over(c)
  /\ Then(c, "thrown")
  /\ UNCHANGED <<workflows, ownerships>>

WorkflowNext ==
  \E c \in WorkflowCalls :
    \/ ExecuteWorkflow(c) \/ SaveRow(c) \/ SaveOwnership(c) \/ ReplayWinner(c)
    \/ MarkRunning(c) \/ CollectCandidates(c) \/ SaveCandidate(c)
    \/ ExecuteStage(c) \/ SaveStage(c) \/ CompleteContext(c) \/ CompleteResult(c)
    \/ FailContext(c) \/ FailResult(c) \/ WorkflowCallDies(c)

WorkflowSpec == WorkflowInit /\ [][WorkflowNext]_workflowVars

(* Properties. *)

WorkflowTypeOK ==
  /\ workflows \in [Workflows -> WorkflowRow \union {NO_WORKFLOW}]
  /\ ownerships \subseteq Workflows
  /\ workflowCalls \in [WorkflowCalls -> WorkflowCall]

\* However many requests carry one idempotency key, one of them runs the workflow: the
\* lookup and the creation are apart (executeWorkflow, Tasks 4 and 5).
RunsWorkflow(c) == ~Over(c) /\ ~AtStep(c, "save") /\ ~AtStep(c, "winner")

OneRunner ==
  \A c, d \in WorkflowCalls :
    RunsWorkflow(c) /\ RunsWorkflow(d) /\ workflowCalls[c].id = workflowCalls[d].id => c = d

\* Nobody, the original caller or a replay, is told COMPLETED of a workflow whose stored
\* context lacks a stage of its pipeline.
CompletedHasAllStages(c) ==
  workflowCalls[c].answer = "COMPLETED" =>
    LET row == workflows[workflowCalls[c].id] IN row.done = Len(Pipeline(row.mode))

\* What the original caller is told stays what the row and its result say.
AnswerIsStored(c) ==
  workflowCalls[c].answer # NoResult /\ ~workflowCalls[c].duplicate =>
    LET row == workflows[workflowCalls[c].id]
    IN row.status = workflowCalls[c].answer /\ row.result = workflowCalls[c].answer

\* An answer is given after all the writes it is about, and nobody writes the row after
\* it, though writes fail, lose their answers or die, and requests with the same key
\* overlap (executeWorkflow and failWorkflow).
AnswersAreTrue == \A c \in WorkflowCalls : CompletedHasAllStages(c) /\ AnswerIsStored(c)

(* The lifecycle that the calls implement. *)

Runner(w) == {c \in WorkflowCalls : RunsWorkflow(c) /\ workflowCalls[c].id = w}

\* Replays are not counted: they say what was stored when they looked.
Told(w) ==
  {workflowCalls[c].answer : c \in {d \in WorkflowCalls :
     workflowCalls[d].id = w /\ workflowCalls[d].answer # NoResult /\ ~workflowCalls[d].duplicate}}

Lifecycle == INSTANCE WorkflowLifecycle WITH
  Calls <- WorkflowCalls, NONE <- NO_WORKFLOW,
  row <- workflows,
  runner <- [w \in Workflows |-> Runner(w)],
  told <- [w \in Workflows |-> Told(w)]

\* One idempotency key, one workflow: it is created by one call, which alone runs it, stage
\* after stage, and which nobody replaces when it dies; and that call is told what stays
\* stored.  It is Lifecycle!Spec, with the steps of other services told apart first.
ImplementsWorkflowLifecycle ==
  /\ Lifecycle!Init
  /\ [][UNCHANGED workflowVars \/ Lifecycle!Next]_(Lifecycle!lifecycleVars)
=============================================================================
