# SISU'M cloud optimization portal: TLA+ models and proofs

This directory holds the formal models of the portal: of its backend
(`src/backend`), and of the one part of its user interface that has a protocol
of its own, the dashboard's job controller (`src/frontend/dashboard`). Modelled
are the parts where processes really interact:

* the asynchronous EC2 intelligence jobs, from the request through the queue to
  the workers, their stage runs and the report, and what the engines they run
  do to inventory, findings and recommendations;
* the execution plans, from their approval to the AWS change and its rollback;
* the services around them: memberships and invitations, the tenant registry
  and its onboarding, AWS account connections, the workflow engine, the
  governance history, and the dashboard that follows a job.

## 1. The system

### Components

| Component | State | Operations | Interacts with |
|---|---|---|---|
| EC2 job producer (`services/ec2-async-job-producer-service.ts`) | none of its own | start a job under an Idempotency-Key | job table, queue, account connection, stage-run proofs |
| Job table (`repositories/dynamodb/dynamodb-ec2-async-job-repository.ts`) | job row, idempotency row, events | create once per key, update under a version, read, list | producer, workers, read API |
| Work queue and DLQ (`template.yaml`, `async-jobs/`) | messages, receive counts, visibility | send, receive, delete, redrive | producer, workers |
| Worker (`services/ec2-async-job-consumer-service.ts`, `ec2-analysis-consumer/`) | its local variables only | process one message | everything below |
| Stage runs (`ec2-stage-run-execution-claim.ts`, three repositories) | run rows `{jobId}#discovery`, `#cost`, `#security` with an execution lease | claim, resume, complete, prove | workers, scope blocker, report |
| EC2 engines (`cloud-intelligence/`) | inventory rows, findings, recommendations, summary of a region | discover, analyse security, analyse cost | stage runs, AWS |
| Report projection (`ec2-async-report-projection-service.ts`) | report and pointer | build once, save if absent | workers |
| AWS accounts (`services/aws-account-api-service.ts`, `dynamodb-aws-account-repository.ts`) | connection row of a tenant and account, lock of an account id | register, verify, discover, update, remove | producer, workers, engines |
| Read API (`services/ec2-async-job-api-service.ts`) | none of its own | show a job, say whether it blocks its scope | job table, stage runs, dashboard |
| Execution plans and orchestrator (`services/execution-*.ts`, `execution/`) | plan row, run row | approve, reject, override, execute, roll back | adapters, action policy, action log |
| Memberships, invitations (`membership/`) | membership rows and their index, invitations, bootstrap marker | invite, accept, cancel, create, update, remove, bootstrap | API, roles, tenants |
| Tenants (`services/tenant-*.ts`, `dynamodb-tenant-repository.ts`) | tenant row, slug reservation, Cognito attribute | onboard, transition, update, bootstrap the first owner | identity provider, memberships |
| Workflow orchestrator (`orchestrator/`) | workflow row, result, ownership record | run the staged workflow under a key, replay it | engines, reports |
| Governance convergence (`services/governance-convergence-service.ts` and its repository) | observations, results, the latest-observed checkpoint | record a run's observation, compare, find what is missing | security engine |
| Evidence, confidence, financial, learning, ML decision, verification | snapshots | evaluate one input | workflow, API |
| Authentication, rate limit, routes, audit, action log | tokens, counters, append-only records | per request | API |
| Dashboard controller (`src/frontend/dashboard/src/ec2-async-job/`) | the active job, a poller, the history shown | start, retry, resume, poll, list | read API |

### What is hard here

* **Interleaving.** SQS delivers at least once and redelivers after a failure;
  two invocations may work on one job. Several requests may start the same job,
  or several jobs for the same account and regions.
* **Optimistic locking.** Every job and run write is conditional on a version
  read earlier, sometimes much earlier: the error handler of the worker writes
  under the version the job had before the pipeline ran.
* **Stale reads.** Only the stage proofs read with `consistentRead`; the job,
  the claim, the report's inputs and the idempotency lookup may answer from a
  replica that lags.
* **Two rows and the outside world.** An execution writes a plan row, a run row
  and an AWS resource, in several calls; every one of them may fail with or
  without effect, and other API calls work on the same plan meanwhile.
* **Failure between two writes.** A Lambda ends at its timeout or dies earlier;
  `appendEvent` may fail after the row was written; `SendMessage` may fail after
  SQS took the message.
* **Time.** A stage run is fenced by a lease that has to outlive the invocation
  holding it, and to expire before the queue gives the message up.
* **Two rows and no transaction.** An acceptance consumes an invitation and then
  writes the membership; an onboarding writes a tenant, assigns an attribute at
  the identity provider and activates the tenant; a workflow writes its row, its
  result and its ownership record.
* **Overlapping runs.** Two engine runs of one region, or two analyses of one
  control, write the same rows in any order, and each closes what it did not see.
* **Answers out of order.** The dashboard has several requests under way; a list
  may be answered before a poll and arrive after it.

What makes each part correct: a key is bound to one request and one job; a
client that is told "enqueued" has a job that settles or a message operations
can find; two invocations never execute one stage run together; a completed run
is never reopened; a job's stage is backed by completed runs and only moves
forward; success has all of its evidence; failure has a cause; no message
circulates for ever. AWS changes only for a plan that is authorised, and stays
so; a plan makes one run; rollbacks exclude each other; a plan's final status
tells what became of the resource. An invitation makes one user a member and
who consumed it gets a membership; no late write brings back who was removed; a
tenant is bootstrapped once. An account id belongs to one tenant, and a connection is
VERIFIED by the verification whose claim stands. Of the requests with one key
one runs the workflow, and its answer is what is stored. A run that nobody
disturbs leaves open what it found and closes what it did not find, and none
closes what another has found since. The dashboard keeps the job it follows in
its history and does not bring an ended job back. The hazards behind these are
listed in `PROJECT.json`.

## 2. Plan

1. *(done)* Stage runs, job table, queue, worker; abstract job lifecycle and
   refinement; producer and composition.
2. *(done)* Proofs of the worker's type correctness, stage exclusion and
   finality of completed runs.
3. *(done)* Execution plans and orchestrator: `ExecutionPlanTable`,
   `ExecutionRunTable`, `ExecutionOrchestrator`, `ExecutionApi`; abstract
   specification `GovernedChange`: an AWS change is made only once authorised,
   an authorisation that was used stands, and the change is undone at most once.
   Proofs of every property the runs check of them: `ExecutionApiProofs`.
4. *(done)* Memberships and invitations, tenants and onboarding:
   `TenantMembership`, `TenantOnboarding`.
5. *(done)* AWS account connections in full, with proofs: `AwsAccounts`,
   `AwsAccountsProofs`.
6. *(done)* Workflow engine, governance history, engine runs, dashboard
   controller against the read API: `WorkflowOrchestration`,
   `GovernanceConvergence`, `Ec2Inventory`, `Ec2JobDashboard`, `Ec2AsyncJobApi`.
7. *(done)* Proofs of every safety property the runs check, and of the
   refinement of `Ec2JobLifecycle`: the rest of the worker, the composition with
   the producer, memberships and tenants, workflows, governance and engine
   runs, the dashboard.
8. *(done)* Abstract specifications of a connection with its exclusive claim,
   `AwsAccountLifecycle`, and of a workflow under its idempotency key,
   `WorkflowLifecycle`, checked and proved of the services; `Ec2JobLifecycle` and
   the rest of the worker's properties proved of requests and workers together.
9. To add: an abstract specification of a membership, from the invitation to the
   removal. Its refinement would take TLC too long next to the 1.6 million
   states of `platform_services`, so it needs a run of its own.

## 3. Modules

| Module | Models |
|---|---|
| `Ec2StageRun` | one run row: `classifyRun`, claim plan, claim, completion, lease. Pure operators. |
| `Ec2AsyncJobTable` | job rows, version condition, lagging `getJob` |
| `Ec2StageRunTable` | run rows of every job, consistent proofs and lagging `getRun` |
| `Ec2IntelligenceQueue` | SQS as the code uses it |
| `AwsAccountConnection` | VERIFIED or not |
| `Ec2AsyncJobConsumer` | the worker: one action per database access |
| `Ec2JobLifecycle` | abstract: what is promised of a job; `ImplementsLifecycle` maps the worker to it |
| `Ec2AsyncJobProducer` | `startEc2IntelligenceJob`: one action per database access |
| `Ec2AsyncJobSystem` | producer requests and workers over the same tables and queue |
| `Ec2AsyncJobConsumerProofs` | theorems about the worker |
| `Ec2AsyncJobSystemProofs` | theorems about requests and workers together, over those of the worker |
| `ExecutionPlanTable` | the plan row, its lifecycle, and the checks the repository makes |
| `ExecutionRunTable` | run rows |
| `ExecutionOrchestrator` | `run` and `rollbackRun`: one action per table access or adapter call |
| `ExecutionApi` | every call of `ExecutionApiService` that changes a plan, run concurrently |
| `GovernedChange` | abstract: what a plan promises about its AWS change; `ImplementsGovernedChange` maps the calls to it |
| `ExecutionApiProofs` | theorems about executions |
| `AwsAccounts` | the connections of all tenants and the locks of their account ids |
| `AwsAccountLifecycle` | abstract: what is promised of a connection and of the verification that claimed it; `ImplementsAccountLifecycle` maps the calls to it |
| `AwsAccountsProofs` | theorems about connections |
| `TenantMembership` | one tenant's membership rows, the index they are looked up in, invitations, the bootstrap |
| `TenantOnboarding` | the tenant registry, slugs, the Cognito attribute and the tokens that carry it |
| `TenantProofs` | theorems about memberships and about the registry |
| `WorkflowOrchestration` | `executeWorkflow` and the stores it writes |
| `WorkflowLifecycle` | abstract: what is promised of a workflow, its runner and what is told of it; `ImplementsWorkflowLifecycle` maps the requests to it |
| `WorkflowOrchestrationProofs` | theorems about workflows |
| `GovernanceConvergence` | the observations, results and checkpoint of one control, run by run |
| `Ec2Inventory` | what discovery, security and cost runs do to one region's tables |
| `ReconciliationProofs` | theorems about governance and engine runs |
| `Ec2AsyncJobApi` | how the read API shows a job, and `isScopeBlocking`. Pure operators. |
| `Ec2JobDashboard` | the job controller of the dashboard, over `Ec2AsyncJobApi` |
| `Ec2JobDashboardProofs` | theorems about the dashboard |
| `MCConsumer`, `MCSystem`, `MCExecution`, `MCDashboard`, `MCPlatform`, `MCAnalysis` | small instances for TLC |

**State.** `jobs[j]` is the row `Ec2AsyncJobRecord` without its texts and
timestamps; `NONE` and version 0 stand for "no row". `jobsReplica` and
`runsReplica` hold what a lagging read may answer. A run row keeps `lease`, the
time left until `leaseExpiresAt`: the code only ever compares that instant with
now. `completedAt` is left out because every writer sets and removes it with a
terminal status. A worker's locals carry the names of the code: `mine` is
`processValidatedMessage`'s `job`, `current` is `executeIntelligencePipeline`'s
`job`, `resume` is `resumeRunExpectedVersion`; `plan` is the claim between its
read and its conditional write. `pc` names the next database access, and a
worker runs without interruption from one access to the next, as Node does
between two awaits.

**Actions of the worker**, in order of the code: `Receive`, `Load` (first
`getJob`), `Verify`, `Reject`, `Claim`, `Reload`, `Latest`, then per stage
`Stage` (proof), `ClaimRead`, `ClaimWrite`, `Resume`, `Execute`, `After`
(proof), `Advance`; then `Project`, `Build`, `Save`, `Finish`; on errors
`Retrying`, `Exhaust`, `Fail`; and `Ack`. `RepositoryFault` is a table access
that throws, `Die` the end of an invocation at its timeout or before it.
`Retrying` writes under `mine`'s version, which the pipeline has usually
outdated: that is what the code does.

**Actions of the producer**: `ResolveAccount`, `FindActive`, `Proof`, `Lookup`,
`Create`, `Replay`, `QueueCheck`, `Send`, `MarkEnqueued`, `MarkFailed`,
`DieRequest`. A job id is derived from tenant and key, so a request names its
job; the idempotency row is written in the job row's transaction and never
deleted, so one row stands for both.

**State and actions of executions.** `plan` is the row without its texts;
`policy` says whether its metadata hold a policy snapshot that lets production
execution go on, `run` is metadata's `lastRunId`. `resource` is the AWS
resource: untouched, changed, restored. A call's locals carry the names of the
code: `expected` is `expectedVersion` and then the version of the row the last
write returned, `record` the orchestrator's `record`, `prior` is
`priorRunStatus`. A call begins with `BeginUpdate`, `BeginDecision`,
`BeginOverride`, `BeginExecute` or `BeginRollback`, which stand for
`requirePlan` and the checks on what it answers, and goes through

* update: `Submit`, `Edit`; decision: `Approve` or `Reject`, `Stamp` (the
  provenance); override: `Override`, `Stamp`;
* execution: `ApproveDirect`, `Start`, then the orchestrator's `Validate`,
  `CreateRun`, `Capture`, `Apply`, `RecordResult`, `Verify`, `RecordSuccess`;
  on failure `PersistFailure`, or `RecordFailure`, `Undo`, `RecordUndone`,
  `ReloadUndone`, `RecordUndoneLatest`, `RecordUndoFailed`; then `Finalize` and
  `Link`, or `FailPlan` when `run` threw;
* rollback: `ReadRun`, `Claim`, `LoadRollback`, `Rollback`, `RecordRolledBack`,
  `RollPlan`; `RecordRollbackFailed`; `RevertLoad` and `Revert` when
  `rollbackRun` threw.

`End` is the answer, `Die` a call that dies. The repository reads a plan,
validates and writes under a version the caller knows: when the write succeeds,
the row it validated was either the row written or a row of another version;
versions only grow and a caller cannot name a version it has not seen, so the
row validated is the row written and both are one step.

**State and actions of the services.** As with jobs and plans, a call is a record
whose step names the next access to a table or to AWS, with what it has read;
one action is one access, and a conditional write that fails is part of it.

* *Memberships*: `AddMember`, `CreateMember`; `ChangeMember` (read through the
  index), `WriteMember` for updates and removals, under the version of the index
  or one the client names, which may be any (`ExpectedVersions`); `InviteMember`;
  `CancelInvitation`, `WriteCancelled`; `AcceptInvitation`, `MarkAccepted`,
  `ActivateMembership`; `BootstrapFirstOwner`, `BootstrapTransaction`.
  `IndexCatchesUp` is the index, which lags per user.
* *Tenants*: `OnboardNewTenant`, `CompleteOnboarding`, `AssignOwner`,
  `ActivateTenant`, `StampAligned`; `TransitionTenant`, `TransitionStatus`;
  `PatchTenant`, `UpdateTenant`; `BootstrapOwner`, `BootstrapMembership`.
  `SignIn` gives a user a token with the attribute of that moment.
* *Accounts*: `Register` (one transaction); `Verify`, `ClaimValidation`,
  `CheckRole`, `ConfirmValidation`, `FailVerification`; `UpdateConfiguration`,
  `Discover`, `UpdateMetadata`; `Remove`, `WriteRemoved`. A row is its
  status, its verification status, whether it was ever validated, its version.
* *Workflows*: `ExecuteWorkflow` (lookup), `SaveRow`, `SaveOwnership`,
  `ReplayWinner`, `MarkRunning`, `CollectCandidates`, `SaveCandidate`, then
  `ExecuteStage` and `SaveStage` per stage, `CompleteContext`,
  `CompleteResult`; on errors `FailContext`, `FailResult`. Without candidates
  these are called inside the `try`, and once more when one of them throws.
  `done` counts the stages in the stored context. A replay of a PENDING row
  answers RUNNING, which is what its context says.
* *Governance*: `RecordObservation`, `PutObservation`, `RecoverResult`,
  `PersistResult`, `ReadLatest`, `PutLatest`, `ReconcileLiveMissingEvidence`,
  `RecordMissingEvidence`. `rank` stands for the place of the evidence id in
  the order that breaks ties.
* *Engine runs*: a run has its view of every instance, absent, clear or
  flagged, from AWS (`DiscoverRegion`), from the inventory (`AnalyzeInventory`)
  or from the metrics (`EvaluateRules`); it upserts what it has to
  (`ReadResource` and `UpsertDiscoveredResource`, and so for findings and
  recommendations), lists what it may close (`ListUnseen`, `ListUndetected`,
  `ListStale`) and closes it (`MarkNotSeen`, `MarkFindingResolved`,
  `MarkRecommendationResolved`) under the versions it listed;
  `LeaveFindingOpen` is an error of `markResolved`, whatever it is, which the
  security run swallows; `UpsertSummary`; `RunSucceeds`. `RunDies` stands for
  whatever else ends a run early. `pageSize` is the page of the lists. Lists go
  through the rows in the order of their sort keys, and are eventually
  consistent: each shows any of its rows (`late`) as it was before its last
  write. `alone` and `lapsed` are history: has no run of the same engine been
  under way meanwhile, and has a list been late or an error been swallowed?
* *Dashboard*: `StartAnalysisFromUi`, `RetryJob` (of a job that failed, or that
  the history shows as abandoned), `Resume`, `RefreshHistory` send a request;
  `StartAnswered`, `StartFails`, `StartShown`, `ResumeShown`, `ListDelivered`,
  `PollServed`, `PollAnswered` are the answers; `WorkerStep` is the backend's
  job going on. `stageCompletion` says whether the API was built with the
  service that tells what blocks a scope.

In all of them `...Dies` is a call that ends at any access.

**Abstractions.** One tenant, except in `AwsAccounts` and `TenantOnboarding`. One plan, already created. Every adapter answers
`isRollbackEligible` with true, so that branch is left out. A failed validation
returns the id of a run that is never created; it is `NoRun` here, which every
reader treats alike. Audit events are left out (`persistAuditEvent` swallows
its errors), and the history, which is appended to after the last write. A
client that writes `lastRunId` into the metadata itself is left out. Message and row always agree on scope, since the
producer builds the message from the row (`validateScopeAgainstDurableJob`
always passes). Engines are reduced to how they end a run. Listing pages are
taken whole. In the scope blocker the age of a row's metadata is abstracted: a
missing run row may block or not.

## 4. Runs

| Run | Instance | Shows |
|---|---|---|
| `consumer_faults` | 2 workers, 1 job, 1 message, 1 duplicate; engine failures, PARTIAL runs, failing table accesses, crashes anywhere, the account leaves and re-enters VERIFIED; fairness | types, complete reports, no lost message, stages and success have their evidence; every message and every job settles |
| `consumer_stale_jobs` | the same workers, lagging job and report reads, crashes, failing account reads | failure has a cause, no restart, refinement of `Ec2JobLifecycle` |
| `consumer_stale_runs` | the same workers, lagging run reads, crashes | invocations exclude each other and completed runs are final, also for claims planned from old rows |
| `system_requests` | 2 requests, 1 key, 2 scopes, lagging job reads, sends that fail or half-fail, requests that die, 1 worker | an accepted job is not lost; answers keep to their scope |
| `platform_services` | 2 calls or runs at once against each service in turn: 2 users, 1 invitation; 1 tenant with 2 candidate owners; 2 tenants and 1 account id; 1 workflow; 1 control; 1 execution plan with 2 run ids, AWS calls that fail with or without effect, table accesses and action-log records that fail, calls that die | the properties of `TenantMembership`, `TenantOnboarding`, `AwsAccounts`, `WorkflowOrchestration`, `GovernanceConvergence` and `ExecutionApi`, each stated with its reason in the module; refinements of `AwsAccountLifecycle`, `WorkflowLifecycle` and `GovernedChange` |
| `analysis_ends` | the two ends of a job in turn. The page: 1 scope, a job that failed before and 2 more; start, retry, resume, list and polls overlap, fail, or read a lagging index. The tables: 2 engine runs on 2 instances, whose lists lag | types; the job the page follows is listed; lists never bring an ended job back; what a run leaves open and closes; no run closes what another has found since |

`MCPlatform` explores one service at a time: `focus` chooses it and the others
stay as they start. The services share no variable, so that an interleaving of
two of them would show nothing that each does not show alone. `View` lets TLC
compare states by the service in focus; the others have one state for each focus.
`PlatformTypeOK` therefore asks for the types of that service only. Two of the
three refinements it checks name `UNCHANGED accountVars` or `UNCHANGED
workflowVars` before the abstract `Next`: TLC then settles the steps of the other
services at once. An `UNCHANGED` step leaves the mapped variables alone, so that
nothing is allowed that `[Next]` would not allow. `MCAnalysis` does the same with
the dashboard page and the tables of the engines, and `AnalysisTypeOK` joins
their types.

Six more runs check a sentence of the documentation that the code does not
keep; their counterexamples are described under "findings" in `PROJECT.json`:
`consumer_succeeded_then_failed`, `system_lost_claim`, `execution_stuck_plan`,
`execution_two_rollbacks`, `dashboard_completion` and `dashboard_overtaken_start`.
`execution_two_rollbacks` explores a failure `platform_services` leaves out, of
the read that follows a run's write (`"reread"`); without it `RollbackExclusion`
holds.

In `dashboard_overtaken_start` a retry begins while a start fetches its job:
the start then stops the retry's poller and installs its own, whose answers the
guards ignore (`Ec2AsyncJobController.ts:224`), and the page hears no more of the
job it follows. So there is one poller at a time, but it need not be the active
job's.

**Other disagreements met while modelling.** These follow from the modelled
steps; no run is listed for them.

Jobs:

* A failed read of the account ends the checks before the pipeline, and the
  message of a job that is not finished is acknowledged
  (`"accountRead"` among the faults; `NoJobLost` does not hold with it).
* `markRetrying` is called with the job as it was before the pipeline advanced
  it (`ec2-async-job-consumer-service.ts:682`). Its version then conflicts and
  `retryCount` is not incremented, so a message is dead-lettered although the
  job's counter is below its limit; the runbook reads a message on the DLQ as
  "retries exhausted" (`docs/operations/ec2-async-job-operations-runbook.md:53`).
* `buildReport` reads the run rows eventually consistently
  (`ec2-async-report-projection-service.ts:73`) and the report is create-only.
  With `"runs"` in `StaleTables`, `ReportShowsEveryRun` fails: a final report
  may show a completed security run as not yet run
  (`docs/architecture/ec2-async-reporting.md:30` says otherwise).
* The search for an active job and the creation are two steps
  (`ec2-async-job-producer-service.ts:97`), so two requests with different keys
  both find none and both create; the comment says such jobs "should block
  duplicate concurrent analysis for the same scope" (`ec2-async-job-active.ts:3`).
* A worker that claims the job between `send` and the ENQUEUED update makes
  that update conflict (`ec2-async-job-producer-service.ts:188`): the request is
  answered with an error although its job runs.

Executions:

* After a failed automatic rollback the run is updated under `record.version + 1`
  (`execution-orchestrator.ts:504`), but `record` already is the updated row:
  the write always conflicts, the conflict is swallowed, and the run stays
  FAILED with no trace of the failed rollback. The same slip after a successful
  rollback (line 451) is repaired by a reload.
* `rollbackPlan` compares the client's `expectedVersion` only after AWS was
  rolled back (`execution-api-service.ts:1088`). An outdated version leaves the
  run ROLLED_BACK and the plan COMPLETED; every retry is refused because the run
  was already rolled back.
* When `run` throws, its run row stays RUNNING and is never linked to the plan,
  which becomes FAILED; what it did to AWS cannot be rolled back through the API.
* A call that dies, an action-log record that fails after the EXECUTING write
  (`execution-api-service.ts:848`), or a resource type no adapter serves (line
  860) leaves the plan EXECUTING for ever; a call that dies while it holds
  ROLLBACK_PENDING blocks every later rollback.
* An override and its entry in the override history are two writes; a call in
  between makes the second one conflict, and the override has no entry, although
  entries are there "so a plan carries its full override provenance"
  (`action-policy/plan-metadata.ts:28`).

Engine runs. A page is at most 100 rows (`repository-types.ts:41`), and
`UndisturbedRunConverges` is stated of what a page shows:

* `markResolved` looks for a finding on one page of rows of any status
  (`dynamodb-ec2-security-repository.ts:296`), and `listFindings` filters 200
  rows by status. Findings beyond are never resolved, though "OPEN findings
  absent after a SUCCEEDED run in analyzed regions are resolved"
  (`docs/architecture/ec2-security-governance-analysis.md:28`).
* `listResourcesInScope` answers 100 rows of a type and region: what comes after
  them is not marked NOT_SEEN and not analysed, and the findings of such an
  instance are resolved as if they were gone.
* A cost run whose resolution meets a conflict is FAILED after it has resolved
  others, though "FAILED and PARTIAL runs never auto-resolve"
  (`docs/architecture/ec2-cost-intelligence.md:36`).
* An older run that lists after a newer one has ended may still close what the
  newer found; its upserts move metadata and `lastSeenAt` back; and the summary
  is that of the last writer.
* Every error of `markResolved` is swallowed as if it were a version conflict
  (`ec2-security-analysis-orchestrator.ts:596`), and the lists are read
  eventually consistently right after the run's own writes: a run may end
  SUCCEEDED and leave a finding OPEN that it did not detect, against the sentence
  quoted above (`ec2-security-governance-analysis.md:28`). `UndisturbedRunConverges` asks for the closing only of
  runs to which neither happened (`lapsed`), and for what stays open of all.
* No code acknowledges or dismisses a finding.

Memberships and tenants:

* The status of a member is asked of the lagging index
  (`membership.service.ts:196`, `:254`), and the write asks for the version alone,
  which the client may name (`membership-routes.ts:84`). A client that names the
  version of the REMOVED row, while the index still shows the member ACTIVE,
  changes the REMOVED row, although no transition leads out of REMOVED.
  `RemovedStaysUnlessNamed` says that nothing else does.
* A call that dies between consuming an invitation and writing the membership
  (`membership.service.ts:408`) loses the invitation (`abandoned`); an
  acceptance makes a SUSPENDED member ACTIVE again.
* A manager may remove or suspend the last owner, and the bootstrap cannot be
  repeated then.
* The reactivate route makes a PROVISIONING tenant ACTIVE without its owner's
  attribute; the runbook says it stays PROVISIONING when Cognito fails.

Dashboard:

* A retry is also offered for a RUNNING job that the history shows as abandoned
  (`render-ec2-async-job-history.ts:85`), though the doc has the "retry button on
  `FAILED` rows only" (`docs/frontend/ec2-async-job-dashboard.md:98`).
* A start stops the poller before it asks the API: one that fails leaves an
  older active job without a poller until it is resumed.

Accounts:

* A PATCH or a discovery between the claim of a verification and its result, or
  a call that dies there, leaves the row VALIDATING; a removal is refused from
  VALIDATING although `ALLOWED_TRANSITIONS` lists it. The lock and the row stay
  after a removal.

Workflows:

* A failure before the `try` block leaves the row PENDING or RUNNING, and
  requests with its key replay that for ever. A failed last write makes a
  completed workflow FAILED, with the result COMPLETED if the writes of
  `failWorkflow` fail too; what the caller is told is then an error, of which
  `AnswersAreTrue` says nothing.

Governance:

* A crash between an observation and its result leaves the observation without
  one until the same run is repeated. Of observations with one timestamp the
  scan answers the last in sort-key order, which need not be the latest started.
* MISSING is reached only for a control that is no longer tracked:
  `shouldRecordCurrentObservation` is always true otherwise.

**Bounds.** `Workers` = 2 and `MaxDuplicates` = 1: all races of the worker are
between the holder of a row and one other invocation, and a third invocation
meets the row in the same states. `LambdaTimeout` = 1 < `Lease` = 2 <
`VisibilityTimeout` = 3 keeps the order of 300 s < 360 s < 1800 s (template.yaml,
ec2-stage-run-execution-metadata.ts). `MaxReceiveCount` = 2 (5 in the template)
is the smallest value with a retry that is not the last. One job is enough
where jobs do not interact: rows are per job, and only the producer relates
two of them, through the search for an active job, which `system_requests`
exercises with two scopes. The system runs
use the degenerate clock `LambdaTimeout` = 0, `Lease` = 1, `MaxReceiveCount` = 1
and one worker, since they are about the producer's races with the worker; in
`system_requests` the action constraint `QueueSlowerThanReplica` delivers a
message only once the replica shows its job, since the orphan of a lagging read
is a known limitation of the code (`docs/handbook/ENTERPRISE-HANDBOOK.md`) and
would hide the rest.

For executions, `Calls` = 2: each race is between a call and one other,
and a call that ended leaves its place to the next, so any number of calls
happen one after the other. `RunIds` = 2 is one more than `OneRun` allows.
`MaxPlanVersion` = 5 limits edits and overrides: version 5 is reached by a
submission, a decision, its provenance and an override, and starts, final
statuses and links go beyond it. `MaxRunVersion` = 7 limits the start of
rollbacks: a run that succeeded has version 4, so a rollback may fail and be
retried.

In `platform_services` two calls again race for a row, and one that ended makes
room for the next. `MaxMemberVersion` = 3 lets a member be created, changed and
changed again under a stale version; one role is enough, since roles only
decide who may call. `MaxTenantVersion` = 5 covers an onboarding (versions 1
to 3) with two transitions or an owner change in between. `MaxConnectionVersion`
= 8 covers two verifications, an update and a removal. `NumAnalysisRuns` = 2 and
`MaxTimestamp` = 3: an observation may come before, with or after the other; three
runs over two timestamps were explored once, without an error.

In `analysis_ends`, `NumInstances` = 2 and `pageSize` 1 to 2 make both the account
that fits a page and the one that does not; the runs begin from whatever earlier
ones left, as `InventoryInit` says. Three jobs, one of them past, are the job
polled, the one that replaces it and one that only lists show; `MaxGeneration`
= 2 is one replacement of the poller.

**Symmetry.** Workers, requests, calls, users, run ids, engine runs and the jobs
that are started from the page are interchangeable; symmetry is used in safety
runs only. In `platform_services` the run ids are named like the users, and in
`analysis_ends` the engine runs like the jobs, so that one permutation serves
both parts, which are never explored together.

**Deadlock** is not checked: the system rightly stops when every message is
settled, every lease has run out and no request is left, when a plan is in
a status no call changes, or when all calls are over and the versions have
reached their bounds.

**Fairness** (`PlatformFairness`, in `consumer_faults`) is what AWS provides and no more: time passes,
Lambda kills an invocation at its timeout, SQS delivers visible messages and
redrives spent ones. The worker's own steps get none: an invocation may hang at
any access, and the liveness properties hold nevertheless, because a hung
invocation is killed and its message is delivered again or dead-lettered.

## 5. Proofs

Every safety property the passing runs check is also proved for every value of
the constants, except `PlatformTypeOK` and `AnalysisTypeOK`, which only join the
type invariants of seven modules; these are proved one by one.

### The worker

`Ec2AsyncJobConsumerProofs` proves for every number of jobs, messages, workers,
duplicates and retries, lagging reads and faults included unless a theorem
excludes them:

| Theorem | Says | Excludes |
|---|---|---|
| `TypeCorrect` | the types, and that every access of the pipeline happens at a stage it is meant for | |
| `StageRunsExclude` | two invocations never execute the same stage run | |
| `CompletedRunsAreFinal` | a complete run row never changes again | |
| `StagesHaveEvidence` | a job beyond a stage has the completed run of it, and one that succeeded has its report | |
| `JobsNeverRestart` | a job's stage never goes back, and a settled job never becomes runnable | |
| `ReportsShowEveryRun` | a report shows every completed run | lagging reads of the runs |
| `FailuresAreJustified` | a FAILED job has a cause | an account that leaves VERIFIED, failing table accesses (`Steady`) |
| `WorkerImplementsLifecycle` | every step is a step of `Ec2JobLifecycle` or a stutter | the same |
| `NoJobIsLost` | a job that is not settled has a message, or one in the DLQ | failing account reads |

What is excluded is excluded because the code loses the property without it:
section 4 tells of the lagging run reads (`"runs"` in `StaleTables`) and of the
failing account read. `consumer_succeeded_then_failed` shows what an account
that leaves VERIFIED does: `Reject` overwrites SUCCEEDED. When a table access
fails, an invocation whose job has already SUCCEEDED may go on to `Retrying`.
`consumer_stale_jobs` and `consumer_faults` check these properties under the same
exclusions. Besides these there are the `ASSUME`s of the modules. The one
that matters is `LambdaTimeout < Lease`, the comment of
`ec2-stage-run-execution-metadata.ts:1`.

`StageExclusion` is not inductive: two invocations could both hold a plan for
the same row. `FenceInv` adds, next to the types:

* `OwnerIsFenced`: while an invocation owns a run, the row is RUNNING and its
  lease is longer than the invocation's remaining life; so the row cannot become
  claimable before its owner is gone;
* `OneOwner`: the goal, for all accesses of an owner;
* `PlanIsSafe`: a planned claim is outdated or still allowed by the row, and
  its lease is longer than its invocation's life. This is where lagging reads
  are harmless: by `ReplicaLags` a lagging row is either the row or has a lower
  version, and then the conditional write fails;
* `CompleteHasNoLease`: time does not change a complete row.

There is one lemma per action or group of actions that can disturb the fence
(`FenceClaimRead`, `FenceClaimWrite`, `FenceExecute`, `FenceTick`, ...), and
`FenceFrame` for all steps that write no run row and give nobody a plan or a run.

`StageHasEvidence` says nothing of what an invocation remembers, and every write
of a job is computed from what it remembers. `JobInv` adds to the fence:

* `Copies`: every row that an invocation or a replica holds is a copy
  (`IsCopy`): at the row's version it is the row, and below it lags
  behind in stage, status and settlement. Since a row only advances
  (`Advances`), copies stay copies (`CopyStays`);
* `PipelineOK`: what the pipeline has seen at each access, such as the completed
  run before `Advance` and the report before `Finish`;
* `RowShape`: a row that nobody claimed has run no stage.

The job rows have five writers; `RowClaimed`, `RowFailed` and their likes say
once what each does, and the lemmas speak of them. On `JobInv` rest

* `ReportInv`: an invocation about to save a report has read all runs complete;
* `CauseInv`: why an invocation is where it is (`CauseOf`): one that is about to
  write FAILED over a RUNNING row has seen a run that failed for good, and nothing
  makes such a run succeed later; one that exhausts its job counted its retries;
* `DeliveryInv`: an invocation about to acknowledge has seen its job settled.

### Requests and workers

`Ec2AsyncJobSystemProofs` proves about `Ec2AsyncJobSystem`, for any number of
requests, keys and scopes:

* `SystemInvariant`, with `StagesExcludeInSystem` and
  `StagesHaveEvidenceInSystem`: the producer, which creates rows and updates
  them between the worker's accesses, does not break `JobInv`;
* `AnswersHaveTheirScope`: the answer to a request names a job of the scope it
  asked for. `SystemInv` says of every access that the job in hand exists and has
  the request's scope (`RequestIsSound`), and that only jobs that exist are sent;
* `AcceptedJobsAreNotLost`: a client told "enqueued" has a job that is settled or
  has its message. `SystemDeliveryInv` follows the promise to where it is made:
  a row is marked ENQUEUED only after its message was sent (`RowsInHand`), in
  every copy a replica may answer, and a request answers from such a row
  (`RequestInHand`).

`AcceptedJobsAreNotLost` excludes failing account reads, and assumes `LoadsSeeTheJob`:
`getJob` does not miss the job of a message that was received. That is weaker
than what `system_requests` assumes (`QueueSlowerThanReplica`). Without it
the message is acknowledged as an orphan's, the known limitation of section 4.
`AcceptedJobsAreNotLostByFreshReads` derives it from reads that do not lag.
`ProducerAssumption` asks for at least one job and scope.

What the worker promises of rows and runs holds in the composition too, where
requests write the rows beside it: `CompletedRunsAreFinalInSystem`,
`JobsNeverRestartInSystem`, `ReportsShowEveryRunInSystem` (runs read without
lag), and, under `Steady`, `SystemImplementsLifecycle`: end to end, every step of
a request, of the queue or of a worker is a step of `Ec2JobLifecycle` or a
stutter.

`FailureHasCause` does not carry over, and `system_lost_claim` shows why: the
ENQUEUED update makes the worker's claim conflict, and the worker fails a job
nothing was wrong with. `ClaimedJobsFailForCause` says how far that reaches:
only to a job still at ENQUEUE. A job that a worker claimed fails because a run
failed for good or its retries were spent. `ReasonInv` carries it: a worker may
hold a row, QUEUED, that a request has marked since (`ReasonOf`), but beyond the
claim the row in hand is RUNNING, a request that marks the row keeps its status,
stage and retries (`RowRequested`), and a worker about to fail a RUNNING row has
seen the run that failed for good. `SystemImplementsLifecycle` rests on the same
invariant.

### Executions

`ExecutionApiProofs` proves for every number of concurrent calls and run ids,
and for every choice of `Faults`:

* `ExecutionTypeCorrect`: types, and the two status fields of the plan agree;
* `OneRunPerPlan`, `ChangesAreAuthorised`: the two invariants;
* `CallsImplementGovernedChange`: every step is a step of `GovernedChange` or a
  stutter.

The argument begins with what one access may do: `OrchestratorEffects`,
`PlanEffects`, `RollbackEffects` and `BeginEffects` go through the actions once,
and everything after reasons about these effects. `ExecutionInv` is inductive.
`ChangeIsAuthorised` alone is not: a call that is about to start relies on
checks made at another access. The invariant adds

* `ChecksAreCurrent`: what a call has checked of the plan still holds of it if the
  call's `expected` version is still the plan's; otherwise its conditional write
  fails, so it does no harm;
* `OneWorker`: one call is inside `run` or waits for its answer, and the plan is
  EXECUTING meanwhile. EXECUTING is entered once and left for good, which gives
  `OneRun` together with `NothingBefore` (no run, no change before EXECUTING);
* `ExecutedIsAuthorised` and `UntouchedUntilApplied`: an executed plan was
  authorised, and its resource is untouched until its run is about to apply.

Two more theorems, `RollbacksExclude` and `FinalStatusesAreTrue`, assume that
`"reread"` is not among the faults. The assumption is necessary for the first:
`execution_two_rollbacks` is the counterexample without it. `RollbackInv` adds

* `RollbacksAreLate`: a plan is linked once, in a final status, and all rollback
  calls work on the run that is linked, so no rollback meets `run`;
* `OneClaim`: one call holds ROLLBACK_PENDING, and from the moment it has loaded
  the run its version is the run's; a call about to claim has an outdated
  version, or the run still allows a rollback;
* `OutcomesAreTrue`: what the calls that are about to write an outcome know of the
  resource and of the run, and `PlanTellsOutcome`.

### AWS accounts

`AwsAccountsProofs` proves, for every number of tenants, account ids, calls and
versions:

* `RowsAreConsistent` and `AccountIdsAreExclusive`: the rows satisfy the
  repository's consistency rules, and an account id has one tenant for ever;
* `OneValidationAtATime`, `VerificationIsEarned`: the properties
  `ValidationExclusion` and `VerifiedWasValidated`;
* `AccountsImplementLifecycle`: the service implements `AwsAccountLifecycle`, in
  which there are no reads, versions and conflicts. A verification claims a
  connection and decides about it alone, on the status it found; every other
  write takes its claim; the first tenant keeps an account id; a removal is
  final (`RemovalIsFinal`, also stated by itself).

`ValidationExclusion` is not inductive: nothing in it keeps a second call from
claiming a row under a version it read long ago. The invariant adds

* `CallsInv`: what a call saw of its row still holds if the version it saw is
  still the row's, and no call names a version the row has not had; a write
  under a stale version fails, so a stale view is harmless;
* `HeldInv`: a row somebody is checking is VALIDATING, as long as the version of
  the claim is the row's;
* `AloneInv`: one call checks a row.

There is one lemma per action; `RowChange` says in which ways a step may change
a row, and the action properties follow from it.

In the refinement a claim *stands* (`ClaimStands`) while the row is at the version
the claim wrote, so a write by anybody else is a `LoseClaim` without that call
knowing of it. Two facts make it work: by `AloneInv` at most one claim stands, and
by `HeldInv` a standing claim has a VALIDATING row. What the claim found is in
the call (`previous`), which `CallsInv` keeps equal to the row's status until the
claim is written.

### Memberships and tenants

`TenantProofs` proves, for every number of users, invitations, roles, tenants,
owners, calls and versions:

* `MembershipTypes`, `AcceptancesAreAccountedFor`, `StampedMembershipsAreEarned`,
  `TenantIsBootstrappedOnce`, `RemovedMembersStay`: the properties
  `platform_services` checks of memberships;
* `SlugsAreReserved` (types, and a slug belongs to the tenant that reserved it),
  `LifecycleIsRespected`, `OnboardedOwnersAreAligned`,
  `BootstrappedTenantsWereActive`: those of the registry.

`MembershipInv` adds `CallSafe`, what a call knows between two accesses. The
delicate part is a write after a read of the lagging index. Unless the client
named another version, its version is one the member had while it was not
removed, so if the row still has that version, the row is not removed: only a
call whose client named the version of the removed row changes it
(`RemovedStaysUnlessNamed`). `IndexLags` gives the read that: an index row is the
row or older. `AcceptanceIsAccountedFor` needs that
the call holding an invitation and its user agree with the ACCEPTED row
(`Consumed`), `OneBootstrap` that nobody has a row before the marker
(`NothingBeforeBootstrap`). `OnboardingInv` does the same for tenants
(`TenantCallSafe`): what a call read with a version still holds of the row
while the row has that version.

### Workflows

`WorkflowOrchestrationProofs` proves `OneRunnerPerWorkflow`,
`WorkflowAnswersAreTrue` and `WorkflowsImplementLifecycle` for every number of
workflow ids and requests.
`AnswersAreTrue` compares an answer with a row that another request may have
written since; `WorkflowInv` rules that out by `OneOwner`: of the requests with
one key, one runs the workflow or has run it, and the rest replay. `RowsAreTrue`
says that a stored COMPLETED has its whole context behind it, `WorkflowCallSafe`
how far the owner's copy may be ahead of the stored one.

`WorkflowsImplementLifecycle` gathers this into one statement: the requests
implement `WorkflowLifecycle`. A workflow is created once, by a call that alone
runs it; the stored context advances by single stages and is COMPLETED with the
last; `Answer` takes the runner away and tells what is stored. There is no step
that gives a workflow another runner, so a call that dies leaves its workflow as
it is, which is the limitation told in section 4. `RunsInStep` is what the
refinement adds to `WorkflowInv`: at each step of the runner, which status the
row has and whether the stored context is the runner's or one stage behind. After a lost
answer the row may already be COMPLETED when the runner turns to `failWorkflow`,
so FAILED after COMPLETED is a step of the lifecycle.

### Governance and engine runs

`ReconciliationProofs` proves, for every number of analysis runs and timestamps,
`CheckpointsKeepUp`, `ResultsAreAlwaysSound` and `MissingIsAlwaysAbsence`. In
`ConvergenceInv`, `RunIsSound` carries what a run has stored at each of its steps:
its observation but no result, from `PutObservation` until it recovers or persists
one; a predecessor that is stored and precedes it; a checkpoint
that has passed it by the time it looks for missing controls.
`OneObservationPerRun` makes "its observation" one row also after a retry.

For every number of instances, engine runs and every page size:

* `NothingNewerIsEverClosed`: a run closes no row that another run wrote since the
  list was answered. `MarkIsFair` says of a listed version that it is never ahead
  of the row, and behind it from the moment another run has seen the instance;
  the conditional write does the rest.
* `UndisturbedRunsConverge`: a run that overlapped with none of its engine leaves
  open all that it found, and closes what it did not find and its page shows,
  unless a list was late or an error of `markResolved` was swallowed. `ExactInv`
  carries this step by step: what is wanted is written or still to do
  (`Upserts`), whatever the lists showed, because the upserts are conditional on
  the version they read and a run with a conflict dies; after a run without a
  lapse has listed, what stands open on the page and was not found is marked
  (`Closes`); a security run that is complete wrote the summary (`Summarises`).
  No other run of the same engine is under way meanwhile (`OneEngineEach`). The
  first 100 rows of fewer rows are at least as many of them
  (`FewerRowsComeSooner`), so closing a row hides no other.

Both need the last element of a set of numbers, which the library has only
through well-founded induction: `LeastNatural`, from `WFMin`.

### Dashboard

`Ec2JobDashboardProofs` proves `DashboardTypes`, `ActiveJobsAreListed` and
`ListsAreReconciled` for every number of jobs and scopes, and of replacements of
the poller. `DashboardInv` says which start is current: one that was not overtaken
(`IsLatest`) follows the active job and has no poller of its generation yet
(`ThreadIsSound`), at most one such start is under way (`OneLatest`), and a poller
of the current generation follows the active job (`PollerIsSound`).

`ActiveJobIsListed` says that the job the page follows is in its history or in the
hands of a start that is about to write it there. Over `DashboardInv` it is kept
by each step (`ActiveStaysListed`): a resumption takes a job from the history, a
start that makes its job active then fetches and writes it, and
`reconcileHistoryItemsFromList` keeps the row of the active job when the list
lacks it.

What is not proved is that the current poller stays, since an overtaken start
replaces it (`dashboard_overtaken_start`).

### Assumptions on the constants

`NoOneIsNoRow`, `NobodyIsNoTenant`, `NoWorkflowIsNoRow` and `NoneIsNoRow` say
that the value that stands for "no row" is not a row, which nothing in TLA+
implies of an arbitrary constant. The others give numbers and sets their types.

### What stays with TLC

* Liveness: `EveryMessageSettles` and `EveryJobSettles`, under fairness.
* `PlatformTypeOK` and `AnalysisTypeOK` as one formula each (see above).
* The six properties of the violation runs, which do not hold.
* That the exclusions of the theorems are necessary, where a run shows it.

## 6. Not modelled

Components with status `not_modelled` in `PROJECT.json`:

* **Action log and audit**: append-only records that decide nothing. That a
  record may fail and end its call is a fault of the execution runs.
* **Evidence, confidence and decision services; recommendation, financial and
  learning engines; ML decision and post-action verification**: each computes
  an answer from one input, mostly in real numbers, and keeps no state that two
  calls share; a state machine would add nothing to their code.
* **Authentication and roles**: tokens are checked by an identity provider; what
  a role lets a caller do is a guard of the modelled calls.
* **STS credential provider and AWS adapters**: the callers' models contain every
  outcome they see of them.
* **HTTP API, validation and rate limit**; **static portal, dashboards and
  pages**; **infrastructure templates and scripts**: routing, parsing, layout and
  deployment. The limiter counts per process.

Left out of modelled components:

* *Jobs*: events other than as accesses that fail; pages of lists; role checks.
* *Engines*: several regions, PARTIAL runs, the cost instance limit; rules,
  scores and savings; what the security summary says, its counts included; a list
  that lags by more than one write of a row. Metrics that fail end a cost run as FAILED, which is
  `RunDies` here.
* *Memberships*: MFA, groups, texts; tenants from before the bootstrap markers.
* *Accounts*: versions older than what the client has just read (they are
  refused); what discovery stores.
* *Tenants*: of a PATCH all but the owner.
* *Workflows*: the partial workflows and `runCompleteWorkflow`, which persist
  nothing or answer COMPLETED whatever happens.
* *Governance*: the read API; more than one control, since controls share no row.
* *Dashboard*: which job the user looks at, Load more, notifications, tickers;
  more than one resumption under way.
* *Executions*: the failed automatic rollback whose last update always conflicts
  (`execution-orchestrator.ts:504`) is modelled as it is, and described in
  section 4. An adapter call that throws is not modelled: the adapters in
  `execution/adapters/aws` catch what AWS throws and answer `success: false`.
