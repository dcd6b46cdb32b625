------------------------- MODULE Ec2AsyncJobConsumer -------------------------
(***************************************************************************)
(* The EC2 intelligence worker: Lambda invocations that receive a queue    *)
(* message, reload the durable job, claim it, drive it through its stages  *)
(* (each stage run fenced by a lease on its row), project the report and   *)
(* settle the job.  One action per database access; everything between two *)
(* accesses is local to the invocation.  An invocation may die between any *)
(* two accesses and always dies at the Lambda timeout.                     *)
(***************************************************************************)
EXTENDS Ec2AsyncJobTable, Ec2StageRunTable, Ec2IntelligenceQueue, AwsAccountConnection

CONSTANTS
  Workers,        \* concurrent Lambda invocations
  LambdaTimeout,  \* the consumer function's Timeout, in clock ticks
  PartialRuns,    \* whether an engine may end its run PARTIAL
  Faults          \* which failures of the environment are explored

FaultKinds ==
  {"accountRead", \* reading the account connection fails transiently
   "engine",      \* a stage's engine throws, or reports a failed run
   "repository",  \* a table access or an appendEvent fails transiently
   "crash"}       \* an invocation dies before the Lambda timeout

ASSUME ConsumerAssumption ==
  /\ LambdaTimeout \in Nat
  /\ LambdaTimeout < Lease
  /\ PartialRuns \in BOOLEAN
  /\ Faults \subseteq FaultKinds

VARIABLES
  reports,      \* reports[j]: the persisted report of j, or NoReport
  pc,           \* pc[w]: the database access invocation w does next
  ttl,          \* ttl[w]: ticks before the Lambda timeout kills w
  held,         \* held[w]: the message w was invoked with
  mine,         \* mine[w]: processValidatedMessage's variable job
  current,      \* current[w]: executeIntelligencePipeline's variable job
  plan,         \* plan[w]: the claim w has planned
  resume,       \* resume[w]: resumeRunExpectedVersion
  snapshot      \* snapshot[w]: which runs the report being built saw complete

workVars == <<runVars, reports, verified>>
localVars == <<held, mine, current, plan, resume, snapshot>>
vars == <<tableVars, queueVars, workVars, pc, ttl, localVars>>

-----------------------------------------------------------------------------
(* Engines and reports.                                                    *)

\* Mutant: the cost stage is skipped.
NextStage_SkipsCost(stage) ==
  CASE stage \in {"DISCOVERY", "COST_ANALYSIS"} -> "SECURITY_ANALYSIS"
    [] stage = "SECURITY_ANALYSIS" -> "GOVERNANCE_ANALYSIS"
    [] stage = "GOVERNANCE_ANALYSIS" -> "FINALIZING"

\* The stage executeIntelligencePipeline advances to.
NextStage(stage) ==
  CASE stage = "DISCOVERY" -> "COST_ANALYSIS"
    [] stage = "COST_ANALYSIS" -> "SECURITY_ANALYSIS"
    [] stage = "SECURITY_ANALYSIS" -> "GOVERNANCE_ANALYSIS"
    [] stage = "GOVERNANCE_ANALYSIS" -> "FINALIZING"

\* Ways an engine ends its run: discovery and cost report a failed run when
\* every region failed; cost also fails for good above its instance limit;
\* security always succeeds.
EngineOutcomes(s) ==
  {<<"SUCCEEDED", FALSE>>}
    \union (IF s \in {"DISCOVERY", "COST_ANALYSIS"} /\ PartialRuns
            THEN {<<"PARTIAL", FALSE>>} ELSE {})
    \union (IF s \in {"DISCOVERY", "COST_ANALYSIS"} /\ "engine" \in Faults
            THEN {<<"FAILED", TRUE>>} ELSE {})
    \union (IF s = "COST_ANALYSIS" /\ "engine" \in Faults THEN {<<"FAILED", FALSE>>} ELSE {})

\* A report records which of the job's runs its reads saw complete.
Reports == [saved : BOOLEAN, saw : SUBSET RunStages]

NoReport == [saved |-> FALSE, saw |-> {}]

-----------------------------------------------------------------------------
(* An invocation.                                                          *)

Labels ==
  {"idle", "load", "verify", "reject", "claim", "reload", "latest", "stage",
   "claimRead", "claimWrite", "resume", "execute", "after", "advance",
   "project", "build", "save", "finish", "retrying", "exhaust", "fail", "ack"}

\* Held by an invocation that is not running.
AnyMessage == CHOOSE m \in Messages : TRUE

JobOf(w) == queue[held[w]].job

RunKey(w) == <<JobOf(w), current[w].stage>>

Live(w) == pc[w] # "idle"

Goto(w, label) == pc' = [pc EXCEPT ![w] = label]

\* The invocation is over: its memory is gone.
Leave(w) ==
  /\ Goto(w, "idle")
  /\ ttl' = [ttl EXCEPT ![w] = 0]
  /\ held' = [held EXCEPT ![w] = AnyMessage]
  /\ mine' = [mine EXCEPT ![w] = NoJob]
  /\ current' = [current EXCEPT ![w] = NoJob]
  /\ plan' = [plan EXCEPT ![w] = NoPlan]
  /\ resume' = [resume EXCEPT ![w] = 0]
  /\ snapshot' = [snapshot EXCEPT ![w] = {}]

\* A write of the job row is followed by appendEvent, which may fail: control
\* then goes where an error of the pipeline goes.
AfterWrite(label) ==
  {label} \union IF "repository" \in Faults THEN {"retrying"} ELSE {}

\* The Lambda is invoked with message m.
Receive(w, m) ==
  /\ pc[w] = "idle"
  /\ ReceiveMessage(m)
  /\ held' = [held EXCEPT ![w] = m]
  /\ ttl' = [ttl EXCEPT ![w] = LambdaTimeout]
  /\ Goto(w, "load")
  /\ UNCHANGED <<tableVars, workVars, mine, current, plan, resume, snapshot>>

\* The first getJob.  A message without a job is acknowledged.
Load(w) ==
  /\ pc[w] = "load"
  /\ \E job \in GetJob(JobOf(w)) :
       \/ ~Exists(job) /\ Goto(w, "ack") /\ UNCHANGED mine
       \/ Exists(job) /\ Goto(w, "verify") /\ mine' = [mine EXCEPT ![w] = job]
  /\ UNCHANGED <<tableVars, queueVars, workVars, ttl, held, current, plan, resume, snapshot>>

\* requireVerifiedAccount.  A terminal error fails the job, any other error of
\* this first part is acknowledged.
Verify(w) ==
  /\ pc[w] = "verify"
  /\ \/ verified /\ Goto(w, "claim")
     \/ ~verified /\ Goto(w, "reject")
     \/ "accountRead" \in Faults /\ Goto(w, "ack")
  /\ UNCHANGED <<tableVars, queueVars, workVars, ttl, localVars>>

\* Mutant: the terminal failure is written whatever the row's version.
MarkTerminalFailure_Unconditional(w, label) ==
  /\ pc[w] = label
  /\ UpdateJob(JobOf(w), [jobs[JobOf(w)] EXCEPT !.status = "FAILED", !.stage = mine[w].stage])
  /\ Goto(w, "ack")
  /\ UNCHANGED <<queueVars, workVars, ttl, localVars>>

\* markTerminalFailure(mine).  A version conflict is thrown to the batch handler,
\* which reports the message as failed.
MarkTerminalFailure(w, label) ==
  /\ pc[w] = label
  /\ \/ /\ VersionMatches(JobOf(w), mine[w])
        /\ UpdateJob(JobOf(w), [jobs[JobOf(w)] EXCEPT !.status = "FAILED", !.stage = mine[w].stage])
        /\ \/ Goto(w, "ack") /\ UNCHANGED <<ttl, localVars>>
           \/ "repository" \in Faults /\ Leave(w)
     \/ /\ ~VersionMatches(JobOf(w), mine[w])
        /\ Leave(w)
        /\ UNCHANGED tableVars
  /\ UNCHANGED <<queueVars, workVars>>

Reject(w) == MarkTerminalFailure(w, "reject")

Fail(w) == MarkTerminalFailure(w, "fail")

\* claimOrReconcileJob.
Claim(w) ==
  /\ pc[w] = "claim"
  /\ \/ /\ mine[w].status # "QUEUED"
        /\ Goto(w, "latest")
        /\ UNCHANGED <<tableVars, mine>>
     \/ /\ mine[w].status = "QUEUED"
        /\ VersionMatches(JobOf(w), mine[w])
        /\ UpdateJob(JobOf(w), [jobs[JobOf(w)] EXCEPT !.status = "RUNNING", !.stage = "DISCOVERY"])
        /\ \/ Goto(w, "latest") /\ mine' = [mine EXCEPT ![w] = jobs'[JobOf(w)]]
           \/ "repository" \in Faults /\ Goto(w, "retrying") /\ UNCHANGED mine
     \/ /\ mine[w].status = "QUEUED"
        /\ ~VersionMatches(JobOf(w), mine[w])
        /\ Goto(w, "reload")
        /\ UNCHANGED <<tableVars, mine>>
  /\ UNCHANGED <<queueVars, workVars, ttl, held, current, plan, resume, snapshot>>

\* The reload after a lost claim.
Reload(w) ==
  /\ pc[w] = "reload"
  /\ \E job \in GetJob(JobOf(w)) :
       \/ ~Exists(job) /\ Goto(w, "retrying") /\ UNCHANGED mine
       \/ Exists(job) /\ Goto(w, "latest") /\ mine' = [mine EXCEPT ![w] = job]
  /\ UNCHANGED <<tableVars, queueVars, workVars, ttl, held, current, plan, resume, snapshot>>

\* The getJob before the pipeline, and the pipeline's entry checks: a terminal
\* job is acknowledged, one that is not runnable is a terminal error.
Latest(w) ==
  /\ pc[w] = "latest"
  /\ \E read \in GetJob(JobOf(w)) :
       LET job == IF Exists(read) THEN read ELSE mine[w]
       IN  /\ mine' = [mine EXCEPT ![w] = job]
           /\ current' = [current EXCEPT ![w] = job]
           /\ \/ IsTerminal(job) /\ Goto(w, "ack")
              \/ job.status = "SUCCEEDED" /\ "repository" \in Faults /\ Goto(w, "retrying")
              \/ job.status = "QUEUED" /\ Goto(w, "fail")
              \/ job.status = "RUNNING" /\ Goto(w, "stage")
  /\ UNCHANGED <<tableVars, queueVars, workVars, ttl, held, plan, resume, snapshot>>

\* Mutant: a message whose stage another invocation holds is acknowledged.
Stage_AcksActiveLease(w) ==
  /\ pc[w] = "stage"
  /\ LET stage == current[w].stage
         proof == StageProof(JobOf(w), IF stage \in RunStages THEN stage ELSE "SECURITY_ANALYSIS")
     IN  Goto(w, CASE stage = "FINALIZING" -> "project"
                   [] stage # "FINALIZING" /\ proof = "complete" -> "advance"
                   [] stage # "FINALIZING" /\ proof = "in_progress_active" -> "ack"
                   [] OTHER -> "claimRead")
  /\ UNCHANGED <<tableVars, queueVars, workVars, ttl, localVars>>

\* The loop of executeIntelligencePipeline: the stage's proof, a consistent read.
Stage(w) ==
  /\ pc[w] = "stage"
  /\ LET stage == current[w].stage
         proof == StageProof(JobOf(w), IF stage \in RunStages THEN stage ELSE "SECURITY_ANALYSIS")
     IN  \/ /\ stage \in RunStages \union {"GOVERNANCE_ANALYSIS"}
            /\ \/ proof = "complete" /\ Goto(w, "advance")
               \/ proof = "failed_permanent" /\ Goto(w, "fail")
               \/ proof = "in_progress_active" /\ Goto(w, "retrying")
               \/ /\ proof \in Claimable
                  /\ Goto(w, IF stage \in RunStages THEN "claimRead" ELSE "retrying")
         \/ stage = "FINALIZING" /\ Goto(w, "project")
  /\ UNCHANGED <<tableVars, queueVars, workVars, ttl, localVars>>

\* claimExecution's read and plan.  The plan's lease counts from here.
ClaimRead(w) ==
  /\ pc[w] = "claimRead"
  /\ \E run \in GetRun(JobOf(w), current[w].stage) :
       \/ /\ StageProofRequiresExecutionClaim(run)
          /\ plan' = [plan EXCEPT ![w] = PlanStageRunExecutionClaim(run)]
          /\ Goto(w, "claimWrite")
       \/ ~StageProofRequiresExecutionClaim(run) /\ Goto(w, "retrying") /\ UNCHANGED plan
  /\ UNCHANGED <<tableVars, queueVars, workVars, ttl, held, mine, current, resume, snapshot>>

\* Mutant: the claim is written whatever the row's version.
ClaimWrite_Unconditional(w) ==
  /\ pc[w] = "claimWrite"
  /\ runs' = [runs EXCEPT ![RunKey(w)] = ClaimedRun(@, plan[w])]
  /\ resume' = [resume EXCEPT ![w] = runs'[RunKey(w)].version]
  /\ Goto(w, "resume")
  /\ UNCHANGED <<tableVars, queueVars, runsReplica, reports, verified, ttl, held, mine, current, plan, snapshot>>

\* claimExecution's conditional write.  createRun returns the item it put; a
\* reclaim reads the row again, eventually consistently.
ClaimWrite(w) ==
  /\ pc[w] = "claimWrite"
  /\ LET k == RunKey(w) IN
       \/ /\ runs[k].version = plan[w].expectedVersion
          /\ runs' = [runs EXCEPT ![k] = ClaimedRun(@, plan[w])]
          /\ \E read \in {runs'[k]} \union (IF "runs" \in StaleTables /\ Exists(runs[k]) THEN {runsReplica[k]} ELSE {}) :
               \/ Exists(read) /\ resume' = [resume EXCEPT ![w] = read.version] /\ Goto(w, "resume")
               \/ ~Exists(read) /\ Goto(w, "retrying") /\ UNCHANGED resume
       \/ /\ runs[k].version # plan[w].expectedVersion
          /\ Goto(w, "retrying")
          /\ UNCHANGED <<runs, resume>>
  /\ UNCHANGED <<tableVars, queueVars, runsReplica, reports, verified, ttl, held, mine, current, plan, snapshot>>

\* The stage service requires a VERIFIED account again, and its orchestrator
\* checks that the row is the one the worker claimed.
Resume(w) ==
  /\ pc[w] = "resume"
  /\ \E run \in GetRun(JobOf(w), current[w].stage) :
       LET claimed == verified /\ run.status = "RUNNING" /\ run.version = resume[w]
       IN  Goto(w, IF claimed THEN "execute" ELSE "retrying")
  /\ UNCHANGED <<tableVars, queueVars, workVars, ttl, localVars>>

\* The engine's work, up to completeRun's conditional write.  The security
\* repository first reads the row, eventually consistently, and gives up when
\* that read has another version.
Execute(w) ==
  /\ pc[w] = "execute"
  /\ LET k == RunKey(w)
         stale == /\ current[w].stage = "SECURITY_ANALYSIS"
                  /\ "runs" \in StaleTables /\ runsReplica[k].version # resume[w]
     IN  \/ /\ runs[k].version = resume[w]
            /\ \E end \in EngineOutcomes(current[w].stage) :
                 /\ runs' = [runs EXCEPT ![k] = CompletedRun(@, end[1], end[2])]
                 /\ Goto(w, IF end = <<"FAILED", FALSE>> THEN "retrying" ELSE "after")
         \/ /\ runs[k].version # resume[w] \/ stale \/ "engine" \in Faults
            /\ Goto(w, "retrying")
            /\ UNCHANGED runs
  /\ UNCHANGED <<tableVars, queueVars, runsReplica, reports, verified, ttl, localVars>>

\* The proof read after execution, consistent.
After(w) ==
  /\ pc[w] = "after"
  /\ Goto(w, IF StageProofIsComplete(runs[RunKey(w)]) THEN "advance" ELSE "retrying")
  /\ UNCHANGED <<tableVars, queueVars, workVars, ttl, localVars>>

\* advanceStage and recoverAdvanceStage.
Advance(w) ==
  /\ pc[w] = "advance"
  /\ LET j == JobOf(w) IN
       \/ /\ VersionMatches(j, current[w])
          /\ UpdateJob(j, [jobs[j] EXCEPT !.stage = NextStage(current[w].stage),
                                          !.status = current[w].status])
          /\ current' = [current EXCEPT ![w] = jobs'[j]]
          /\ \E label \in AfterWrite("stage") : Goto(w, label)
       \/ /\ ~VersionMatches(j, current[w])
          /\ Goto(w, "retrying")
          /\ UNCHANGED <<tableVars, current>>
  /\ UNCHANGED <<queueVars, workVars, ttl, held, mine, plan, resume, snapshot>>

\* Mutant: the job succeeds without waiting for its report.
Project_Skipped(w) ==
  /\ pc[w] = "project"
  /\ Goto(w, "finish")
  /\ UNCHANGED <<tableVars, queueVars, workVars, ttl, localVars>>

\* projectReportForCompletedJob: the pointer read,
Project(w) ==
  /\ pc[w] = "project"
  /\ \/ reports[JobOf(w)].saved /\ Goto(w, "finish")
     \/ (~reports[JobOf(w)].saved \/ "reports" \in StaleTables) /\ Goto(w, "build")
  /\ UNCHANGED <<tableVars, queueVars, workVars, ttl, localVars>>

\* buildReport's reads, none of them consistent,
Build(w) ==
  /\ pc[w] = "build"
  /\ \E read \in [RunStages -> BOOLEAN] :  \* TRUE: answered by the leader
       LET row(s) == IF read[s] THEN runs[<<JobOf(w), s>>] ELSE runsReplica[<<JobOf(w), s>>]
       IN  /\ "runs" \in StaleTables \/ \A s \in RunStages : read[s]
           /\ snapshot' = [snapshot EXCEPT ![w] = {s \in RunStages : StageProofIsComplete(row(s))}]
  /\ Goto(w, "save")
  /\ UNCHANGED <<tableVars, queueVars, workVars, ttl, held, mine, current, plan, resume>>

\* and saveEc2AsyncReportIfAbsent, a create-only transaction: who loses the race
\* reads the report again, and retries the message when that read lags.
Save(w) ==
  /\ pc[w] = "save"
  /\ LET j == JobOf(w) IN
       \/ /\ ~reports[j].saved
          /\ reports' = [reports EXCEPT ![j] = [saved |-> TRUE, saw |-> snapshot[w]]]
          /\ Goto(w, "finish")
       \/ reports[j].saved /\ Goto(w, "finish") /\ UNCHANGED reports
       \/ reports[j].saved /\ "reports" \in StaleTables /\ Goto(w, "retrying") /\ UNCHANGED reports
  /\ UNCHANGED <<tableVars, queueVars, runs, runsReplica, verified, ttl, localVars>>

\* The end of FINALIZING.
Finish(w) ==
  /\ pc[w] = "finish"
  /\ LET j == JobOf(w) IN
       \/ /\ VersionMatches(j, current[w])
          /\ UpdateJob(j, [jobs[j] EXCEPT !.status = "SUCCEEDED", !.stage = "COMPLETE"])
          /\ \E label \in AfterWrite("ack") : Goto(w, label)
       \/ /\ ~VersionMatches(j, current[w])
          /\ Goto(w, "retrying")
          /\ UNCHANGED tableVars
  /\ UNCHANGED <<queueVars, workVars, ttl, localVars>>

\* Mutant: a report that could not be saved does not hold the job back.
RepositoryFault_ReportIgnored(w) ==
  /\ "repository" \in Faults
  /\ pc[w] = "save"
  /\ Goto(w, "finish")
  /\ UNCHANGED <<tableVars, queueVars, workVars, ttl, localVars>>

\* A table access fails: inside the pipeline this is an error of the pipeline,
\* outside of it the batch handler reports the message as failed.
RepositoryFault(w) ==
  /\ "repository" \in Faults
  /\ \/ /\ \/ pc[w] \in {"reload", "latest", "claimRead", "claimWrite", "resume", "execute",
                          "after", "advance", "project", "build", "save", "finish"}
           \/ pc[w] = "claim" /\ mine[w].status = "QUEUED"
           \/ pc[w] = "stage" /\ current[w].stage # "FINALIZING"
        /\ Goto(w, "retrying")
        /\ UNCHANGED <<ttl, localVars>>
     \/ /\ \/ pc[w] \in {"load", "reject", "retrying", "exhaust", "fail"}
           \/ pc[w] = "verify" /\ "accountRead" \in Faults
        /\ Leave(w)
  /\ UNCHANGED <<tableVars, queueVars, workVars>>

\* Mutant: a conflict while recording the retry acknowledges the message.
Retrying_AcksConflict(w) ==
  /\ pc[w] = "retrying"
  /\ IF VersionMatches(JobOf(w), mine[w])
     THEN /\ UpdateJob(JobOf(w), [jobs[JobOf(w)] EXCEPT !.retryCount = mine[w].retryCount + 1])
          /\ Leave(w)
     ELSE Goto(w, "ack") /\ UNCHANGED <<tableVars, ttl, localVars>>
  /\ UNCHANGED <<queueVars, workVars>>

\* Every error of the pipeline that is not terminal: markRetrying on the job as it
\* was before the pipeline ran.  Whether the update conflicts or not, the message
\* is reported as failed, unless the retries are exhausted.
Retrying(w) ==
  /\ pc[w] = "retrying"
  /\ LET j == JobOf(w) IN
       \/ /\ VersionMatches(j, mine[w])
          /\ UpdateJob(j, [jobs[j] EXCEPT !.retryCount = mine[w].retryCount + 1])
          /\ \/ /\ jobs'[j].retryCount >= MaxReceiveCount
                /\ Goto(w, "exhaust")
                /\ mine' = [mine EXCEPT ![w] = jobs'[j]]
                /\ UNCHANGED <<ttl, held, current, plan, resume, snapshot>>
             \/ /\ jobs'[j].retryCount < MaxReceiveCount \/ "repository" \in Faults
                /\ Leave(w)
       \/ ~VersionMatches(j, mine[w]) /\ Leave(w) /\ UNCHANGED tableVars
  /\ UNCHANGED <<queueVars, workVars>>

\* markRetrying's own markTerminalFailure, once the retries are exhausted.
Exhaust(w) == MarkTerminalFailure(w, "exhaust")

\* The invocation returns without a failure for its message.
Ack(w) ==
  /\ pc[w] = "ack"
  /\ DeleteMessage(held[w])
  /\ Leave(w)
  /\ UNCHANGED <<tableVars, workVars>>

\* The invocation dies: at the Lambda timeout, or earlier.
Die(w) ==
  /\ Live(w)
  /\ ttl[w] = 0 \/ "crash" \in Faults
  /\ Leave(w)
  /\ UNCHANGED <<tableVars, queueVars, workVars>>

-----------------------------------------------------------------------------
(* The environment.                                                        *)

Redrive(m) ==
  /\ DeadLetter(m)
  /\ UNCHANGED <<tableVars, workVars, pc, ttl, localVars>>

ChangeAccount ==
  /\ AccountChanges
  /\ UNCHANGED <<tableVars, queueVars, runVars, reports, pc, ttl, localVars>>

CatchUpJob(j) ==
  /\ ReplicateJob(j)
  /\ UNCHANGED <<queueVars, workVars, pc, ttl, localVars>>

CatchUpRun(k) ==
  /\ ReplicateRun(k)
  /\ UNCHANGED <<tableVars, queueVars, reports, verified, pc, ttl, localVars>>

\* Time passes.  No invocation outlives its timeout.
Tick ==
  /\ \A w \in Workers : Live(w) => ttl[w] > 0
  /\ \/ \E w \in Workers : Live(w)
     \/ \E k \in RunKeys : runs[k].lease > 0
     \/ \E m \in Messages : queue[m].hidden > 0
  /\ ttl' = [w \in Workers |-> IF ttl[w] > 0 THEN ttl[w] - 1 ELSE 0]
  /\ plan' = [w \in Workers |-> AgedRun(plan[w])]
  /\ AgeRuns
  /\ queue' = AgedQueue
  /\ UNCHANGED <<tableVars, duplicates, reports, verified, pc, held, mine, current, resume, snapshot>>

-----------------------------------------------------------------------------
WorkerStep(w) ==
  \/ Load(w) \/ Verify(w) \/ Reject(w) \/ Claim(w) \/ Reload(w) \/ Latest(w)
  \/ Stage(w) \/ ClaimRead(w) \/ ClaimWrite(w) \/ Resume(w) \/ Execute(w) \/ After(w)
  \/ Advance(w) \/ Project(w) \/ Build(w) \/ Save(w) \/ Finish(w)
  \/ Retrying(w) \/ Exhaust(w) \/ Fail(w) \/ Ack(w)

\* Every invocation starts from nothing.
WorkerInit ==
  /\ pc = [w \in Workers |-> "idle"]
  /\ ttl = [w \in Workers |-> 0]
  /\ held = [w \in Workers |-> AnyMessage]
  /\ mine = [w \in Workers |-> NoJob]
  /\ current = [w \in Workers |-> NoJob]
  /\ plan = [w \in Workers |-> NoPlan]
  /\ resume = [w \in Workers |-> 0]
  /\ snapshot = [w \in Workers |-> {}]

WorkInit ==
  /\ RunTableInit
  /\ reports = [j \in Jobs |-> NoReport]
  /\ verified = TRUE

\* The worker on its own: every job was created, and enqueued once per message that
\* names it.
Init ==
  /\ jobs \in [Jobs -> {[CreatedJob EXCEPT !.queueStatus = "ENQUEUED", !.version = 2]}]
  /\ jobsReplica = jobs
  /\ \E job \in [Messages -> Jobs] :
       /\ \A j \in Jobs : \E m \in Messages : job[m] = j
       /\ queue = [m \in Messages |-> SentMessage(job[m])]
  /\ duplicates = 0
  /\ WorkInit /\ WorkerInit

Next ==
  \/ \E w \in Workers : WorkerStep(w) \/ RepositoryFault(w) \/ Die(w)
  \/ \E w \in Workers, m \in Messages : Receive(w, m)
  \/ \E m \in Messages : Redrive(m)
  \/ ChangeAccount
  \/ \E j \in Jobs : CatchUpJob(j)
  \/ \E k \in RunKeys : CatchUpRun(k)
  \/ Tick

Spec == Init /\ [][Next]_vars

-----------------------------------------------------------------------------
(* Properties.                                                             *)

LocalTypeOK ==
  /\ pc \in [Workers -> Labels]
  /\ ttl \in [Workers -> 0 .. LambdaTimeout]
  /\ held \in [Workers -> Messages]
  /\ mine \in [Workers -> JobRecord]
  /\ current \in [Workers -> JobRecord]
  /\ plan \in [Workers -> ClaimPlan]
  /\ resume \in [Workers -> Nat]
  /\ snapshot \in [Workers -> SUBSET RunStages]

\* Type invariant: every row, message and local variable has the shape its
\* TypeScript type declares.
TypeOK ==
  /\ TableTypeOK
  /\ QueueTypeOK(Jobs)
  /\ RunTableTypeOK
  /\ reports \in [Jobs -> Reports]
  /\ verified \in BOOLEAN
  /\ LocalTypeOK

Executes(w, k) == pc[w] = "execute" /\ RunKey(w) = k

\* Two live invocations never execute the same stage run at the same time: the
\* lease outlives the invocation that claimed it (runDiscoveryStage and its twins).
StageExclusion ==
  \A k \in RunKeys : \A v, w \in Workers :
    Executes(v, k) /\ Executes(w, k) => v = w

\* A saved report, which is never built again, was read after every stage run of
\* its job was complete and saw it so (buildReport); the run tables may not lag.
ReportShowsEveryRun ==
  \A j \in Jobs : reports[j].saved => reports[j].saw = RunStages

\* The stage of a job is backed by the rows, whatever interleaving, retry or takeover
\* led there: every earlier stage run is complete, and at COMPLETE, which is where a
\* job succeeds, the report is saved.
StageHasEvidence ==
  \A j \in Jobs :
    /\ jobs[j].status = "SUCCEEDED" => jobs[j].stage = "COMPLETE"
    /\ jobs[j].stage = "COMPLETE" => reports[j].saved
    /\ \A s \in RunStages :
         StageIndex(jobs[j].stage) > StageIndex(s) => StageProofIsComplete(runs[<<j, s>>])

\* No stale read, late completion or takeover ever reopens a completed run.
CompletedRunIsFinal ==
  [][\A k \in RunKeys : StageProofIsComplete(runs[k]) => runs'[k] = runs[k]]_vars

\* A job's stage never goes back, and a settled job never becomes runnable again.
JobNeverRestarts ==
  [][\A j \in Jobs :
       /\ StageIndex(jobs'[j].stage) >= StageIndex(jobs[j].stage)
       /\ IsTerminal(jobs[j]) => IsTerminal(jobs'[j])]_vars

\* A job fails only for cause: a stage run failed for good, or the worker
\* recorded as many retries as the queue delivers (while the account connection
\* stays VERIFIED).  A stale read of the job must never be mistaken for a cause.
FailureIsJustified ==
  \A j \in Jobs :
    jobs[j].status = "FAILED" =>
      \/ jobs[j].retryCount >= MaxReceiveCount
      \/ \E s \in RunStages : ClassifyRun(runs[<<j, s>>]) = "failed_permanent"

\* A job that is not settled still has a message that will be delivered again, or
\* that operations find in the dead-letter queue.
NoJobLost ==
  \A j \in Jobs :
    jobs[j].queueStatus = "ENQUEUED" /\ ~IsTerminal(jobs[j]) =>
      \E m \in Messages : queue[m].job = j /\ queue[m].state \in {"sent", "dead"}

\* The worker implements the lifecycle a job is promised.
Lifecycle == INSTANCE Ec2JobLifecycle WITH
  status <- [j \in Jobs |-> jobs[j].status],
  done <- [j \in Jobs |-> {s \in RunStages : StageProofIsComplete(runs[<<j, s>>])}],
  reported <- [j \in Jobs |-> reports[j].saved]

ImplementsLifecycle == Lifecycle!Spec

\* The platform's part: time passes, Lambda kills at the timeout, SQS delivers
\* visible messages and redrives spent ones.  Invocations need not make progress.
PlatformFairness ==
  /\ WF_vars(Tick)
  /\ \A w \in Workers : WF_vars(Live(w) /\ ttl[w] = 0 /\ Die(w))
  /\ WF_vars(\E w \in Workers, m \in Messages : queue[m].hidden = 0 /\ Receive(w, m))
  /\ \A m \in Messages : WF_vars(Redrive(m))

FairSpec == Spec /\ PlatformFairness

\* No message circulates for ever: each is acknowledged or dead-lettered.
EveryMessageSettles ==
  \A m \in Messages : <>(queue[m].state \in {"deleted", "dead"})

\* Every enqueued job ends, or leaves a message in the dead-letter queue.
EveryJobSettles ==
  \A j \in Jobs :
    <>(IsTerminal(jobs[j]) \/ \E m \in Messages : queue[m].job = j /\ queue[m].state = "dead")

-----------------------------------------------------------------------------
(* Statements of the documentation that the code does not keep.            *)

\* "SUCCEEDED" ends the status lifecycle (ec2-async-intelligence-jobs.md:13).
SucceededIsFinal ==
  [][\A j \in Jobs : jobs[j].status = "SUCCEEDED" => jobs'[j].status = "SUCCEEDED"]_vars
=============================================================================
