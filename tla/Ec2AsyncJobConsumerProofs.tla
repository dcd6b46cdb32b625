---------------------- MODULE Ec2AsyncJobConsumerProofs ----------------------
(***************************************************************************)
(* What holds of the worker for every number of jobs, messages, workers    *)
(* and retries, and for every lease longer than the Lambda timeout.        *)
(***************************************************************************)
EXTENDS Ec2AsyncJobConsumer, TLAPS

-----------------------------------------------------------------------------
(* Type correctness.                                                       *)

\* The stages at which each part of the pipeline runs.
PcOK ==
  \A w \in Workers :
    /\ pc[w] \in {"claimRead", "claimWrite", "resume", "execute", "after"} =>
         current[w].stage \in RunStages
    /\ pc[w] = "advance" => current[w].stage \in RunStages \union {"GOVERNANCE_ANALYSIS"}
    /\ pc[w] \in {"project", "build", "save", "finish"} => current[w].stage = "FINALIZING"

TypeInv == TypeOK /\ PcOK

LEMMA InitialValues ==
  /\ NoJob \in JobRecord /\ CreatedJob \in JobRecord
  /\ NoRun \in RunRecord /\ NoPlan \in ClaimPlan /\ NoReport \in Reports
  /\ AnyMessage \in Messages
BY LeaseAssumption, QueueAssumption
   DEF NoJob, CreatedJob, JobRecord, JobStatuses, JobStages, QueueStatuses, NoRun, RunRecord,
       RunStatuses, NoPlan, ClaimPlan, NoReport, Reports, AnyMessage

LEMMA UpdateJobType ==
  ASSUME TableTypeOK, NEW j \in Jobs, NEW row \in JobRecord, UpdateJob(j, row)
  PROVE  TableTypeOK' /\ jobs'[j] = [row EXCEPT !.version = @ + 1]
BY DEF TableTypeOK, UpdateJob, JobRecord

LEMMA LeaveType ==
  ASSUME LocalTypeOK, PcOK, NEW w \in Workers, Leave(w)
  PROVE  LocalTypeOK' /\ PcOK'
<1>1. LocalTypeOK'
  BY InitialValues, ConsumerAssumption DEF LocalTypeOK, Leave, Goto, Labels
<1>2. PcOK'
  BY DEF LocalTypeOK, PcOK, Leave, Goto
<1> QED BY <1>1, <1>2

\* What a claim, a completion and a clock tick make of a row is a row again.
LEMMA ClaimTypes ==
  ASSUME NEW run \in RunRecord, NEW p \in ClaimPlan
  PROVE  /\ ClaimedRun(run, p) \in RunRecord
         /\ PlanStageRunExecutionClaim(run) \in ClaimPlan
BY LeaseAssumption
   DEF RunRecord, ClaimPlan, ClaimedRun, PlanStageRunExecutionClaim, RunStatuses

LEMMA CompletedType ==
  ASSUME NEW run \in RunRecord, NEW status \in {"SUCCEEDED", "PARTIAL", "FAILED"},
         NEW retryable \in BOOLEAN
  PROVE  CompletedRun(run, status, retryable) \in RunRecord
BY LeaseAssumption DEF CompletedRun, RunRecord, RunStatuses

LEMMA AgedTypes ==
  /\ \A run \in RunRecord : AgedRun(run) \in RunRecord
  /\ \A p \in ClaimPlan : AgedRun(p) \in ClaimPlan
<1>1. ASSUME NEW run \in RunRecord PROVE AgedRun(run) \in RunRecord
  BY LeaseAssumption DEF RunRecord, AgedRun
<1>2. ASSUME NEW p \in ClaimPlan PROVE AgedRun(p) \in ClaimPlan
  BY LeaseAssumption DEF ClaimPlan, AgedRun
<1> QED BY <1>1, <1>2

LEMMA ReadTypes ==
  ASSUME TypeOK
  PROVE  /\ \A w \in Workers : JobOf(w) \in Jobs
         /\ \A j \in Jobs : jobs[j] \in JobRecord /\ GetJob(j) \subseteq JobRecord
         /\ \A j \in Jobs, s \in RunStages : GetRun(j, s) \subseteq RunRecord
<1>1. \A w \in Workers : JobOf(w) \in Jobs
  BY DEF TypeOK, LocalTypeOK, QueueTypeOK, JobOf
<1>2. \A j \in Jobs : jobs[j] \in JobRecord /\ GetJob(j) \subseteq JobRecord
  BY DEF TypeOK, TableTypeOK, GetJob
<1>3. \A j \in Jobs, s \in RunStages : GetRun(j, s) \subseteq RunRecord
  BY DEF TypeOK, RunTableTypeOK, GetRun, RunKeys
<1> QED BY <1>1, <1>2, <1>3

\* What an action leaves alone keeps its type.
LEMMA UnchangedTypes ==
  ASSUME TypeInv
  PROVE  /\ UNCHANGED tableVars => TableTypeOK'
         /\ UNCHANGED queueVars => QueueTypeOK(Jobs)'
         /\ UNCHANGED workVars =>
              RunTableTypeOK' /\ (reports \in [Jobs -> Reports])' /\ (verified \in BOOLEAN)'
         /\ UNCHANGED <<pc, ttl, localVars>> => LocalTypeOK' /\ PcOK'
<1>1. UNCHANGED tableVars => TableTypeOK'
  BY DEF TypeInv, TypeOK, TableTypeOK, tableVars
<1>2. UNCHANGED queueVars => QueueTypeOK(Jobs)'
  BY DEF TypeInv, TypeOK, QueueTypeOK, queueVars
<1>3. UNCHANGED workVars =>
        RunTableTypeOK' /\ (reports \in [Jobs -> Reports])' /\ (verified \in BOOLEAN)'
  BY DEF TypeInv, TypeOK, RunTableTypeOK, workVars, runVars
<1>4. UNCHANGED <<pc, ttl, localVars>> => LocalTypeOK' /\ PcOK'
  BY DEF TypeInv, TypeOK, LocalTypeOK, PcOK, localVars
<1> QED BY <1>1, <1>2, <1>3, <1>4

\* An invocation that only moves on, or also remembers a row it has read.
LEMMA LocalStep ==
  ASSUME TypeInv, NEW w \in Workers, NEW label \in Labels, Goto(w, label),
         UNCHANGED <<ttl, held, plan, resume, snapshot>>,
         UNCHANGED mine \/ \E job \in JobRecord : mine' = [mine EXCEPT ![w] = job],
         UNCHANGED current \/ \E job \in JobRecord : current' = [current EXCEPT ![w] = job],
         label \in {"claimRead", "claimWrite", "resume", "execute", "after"} =>
           current'[w].stage \in RunStages,
         label = "advance" => current'[w].stage \in RunStages \union {"GOVERNANCE_ANALYSIS"},
         label \in {"project", "build", "save", "finish"} => current'[w].stage = "FINALIZING"
  PROVE  LocalTypeOK' /\ PcOK'
<1>1. LocalTypeOK'
  BY DEF TypeInv, TypeOK, LocalTypeOK, Goto
<1>2. PcOK'
  BY DEF TypeInv, TypeOK, LocalTypeOK, PcOK, Goto
<1> QED BY <1>1, <1>2

LEMMA TypeReceive ==
  ASSUME TypeInv, NEW w \in Workers, NEW m \in Messages, Receive(w, m)
  PROVE  TypeInv'
<1>1. QueueTypeOK(Jobs)'
  BY QueueAssumption
     DEF TypeInv, TypeOK, QueueTypeOK, Receive, ReceiveMessage, ReceiveVisible, ReceiveDuplicate,
         Delivered, queueVars
<1>2. LocalTypeOK' /\ PcOK'
  BY ConsumerAssumption DEF TypeInv, TypeOK, LocalTypeOK, PcOK, Receive, Goto, Labels
<1> QED BY <1>1, <1>2, UnchangedTypes DEF Receive, TypeInv, TypeOK

LEMMA TypeMarkTerminalFailure ==
  ASSUME TypeInv, NEW w \in Workers, NEW label \in Labels, MarkTerminalFailure(w, label)
  PROVE  TypeInv'
<1>1. TableTypeOK'
  <2>1. [jobs[JobOf(w)] EXCEPT !.status = "FAILED", !.stage = mine[w].stage] \in JobRecord
    BY ReadTypes DEF TypeInv, TypeOK, LocalTypeOK, JobRecord, JobStatuses
  <2> QED BY <2>1, UpdateJobType, ReadTypes, UnchangedTypes
          DEF MarkTerminalFailure, TypeInv, TypeOK
<1>2. LocalTypeOK' /\ PcOK'
  <2>1. CASE Leave(w)
    BY <2>1, LeaveType DEF TypeInv, TypeOK
  <2>2. CASE Goto(w, "ack") /\ UNCHANGED <<ttl, localVars>>
    BY <2>2, LocalStep DEF Labels, localVars
  <2> QED BY <2>1, <2>2 DEF MarkTerminalFailure
<1> QED BY <1>1, <1>2, UnchangedTypes DEF MarkTerminalFailure, TypeInv, TypeOK

LEMMA TypeLoad ==
  ASSUME TypeInv, NEW w \in Workers, Load(w) \/ Reload(w)
  PROVE  TypeInv'
<1>1. PICK job \in GetJob(JobOf(w)), label \in {"ack", "verify", "retrying", "latest"} :
        Goto(w, label) /\ (UNCHANGED mine \/ mine' = [mine EXCEPT ![w] = job])
  BY DEF Load, Reload
<1>2. job \in JobRecord
  BY <1>1, ReadTypes DEF TypeInv
<1>3. UNCHANGED <<tableVars, queueVars, workVars, ttl, held, current, plan, resume, snapshot>>
  BY DEF Load, Reload
<1>4. LocalTypeOK' /\ PcOK'
  BY <1>1, <1>2, <1>3, LocalStep DEF Labels
<1> QED BY <1>3, <1>4, UnchangedTypes DEF TypeInv, TypeOK

LEMMA TypeClaim ==
  ASSUME TypeInv, NEW w \in Workers, Claim(w)
  PROVE  TypeInv'
<1> DEFINE row == [jobs[JobOf(w)] EXCEPT !.status = "RUNNING", !.stage = "DISCOVERY"]
<1>1. row \in JobRecord
  BY ReadTypes DEF TypeInv, JobRecord, JobStatuses, JobStages
<1>2. TableTypeOK' /\ (jobs')[JobOf(w)] \in JobRecord
  BY <1>1, UpdateJobType, ReadTypes, UnchangedTypes DEF Claim, TypeInv, TypeOK, TableTypeOK
<1>3. LocalTypeOK' /\ PcOK'
  BY <1>2, LocalStep DEF Claim, Labels
<1> QED BY <1>2, <1>3, UnchangedTypes DEF Claim, TypeInv, TypeOK

LEMMA TypeLatest ==
  ASSUME TypeInv, NEW w \in Workers, Latest(w)
  PROVE  TypeInv'
<1>1. PICK read \in GetJob(JobOf(w)) :
        LET job == IF Exists(read) THEN read ELSE mine[w]
        IN  /\ mine' = [mine EXCEPT ![w] = job]
            /\ current' = [current EXCEPT ![w] = job]
            /\ \E label \in {"ack", "retrying", "fail", "stage"} : Goto(w, label)
  BY DEF Latest
<1> DEFINE job == IF Exists(read) THEN read ELSE mine[w]
<1>2. job \in JobRecord
  BY <1>1, ReadTypes DEF TypeInv, TypeOK, LocalTypeOK
<1>3. LocalTypeOK' /\ PcOK'
  BY <1>1, <1>2, LocalStep DEF Latest, Labels
<1> QED BY <1>3, UnchangedTypes DEF Latest, TypeInv, TypeOK

LEMMA TypeSteps ==
  ASSUME TypeInv, NEW w \in Workers,
         Verify(w) \/ Stage(w) \/ Resume(w) \/ After(w) \/ Project(w)
  PROVE  TypeInv'
<1>1. LocalTypeOK' /\ PcOK'
  <2>1. CASE Verify(w)
    BY <2>1, LocalStep DEF Verify, Labels, localVars
  <2>2. CASE Stage(w)
    BY <2>2, LocalStep DEF Stage, Labels, localVars, RunStages
  <2>3. CASE Resume(w)
    BY <2>3, LocalStep DEF Resume, Labels, localVars, TypeInv, PcOK
  <2>4. CASE After(w)
    BY <2>4, LocalStep DEF After, Labels, localVars, TypeInv, PcOK
  <2>5. CASE Project(w)
    BY <2>5, LocalStep DEF Project, Labels, localVars, TypeInv, PcOK
  <2> QED BY <2>1, <2>2, <2>3, <2>4, <2>5
<1> QED BY <1>1, UnchangedTypes DEF Verify, Stage, Resume, After, Project, TypeInv, TypeOK

LEMMA TypeClaimRead ==
  ASSUME TypeInv, NEW w \in Workers, ClaimRead(w)
  PROVE  TypeInv'
<1>1. current[w].stage \in RunStages
  BY DEF ClaimRead, TypeInv, PcOK
<1>2. PICK run \in GetRun(JobOf(w), current[w].stage) :
        \/ /\ plan' = [plan EXCEPT ![w] = PlanStageRunExecutionClaim(run)]
           /\ Goto(w, "claimWrite")
        \/ Goto(w, "retrying") /\ UNCHANGED plan
  BY DEF ClaimRead
<1>3. PlanStageRunExecutionClaim(run) \in ClaimPlan
  BY <1>1, <1>2, ReadTypes, ClaimTypes, InitialValues DEF TypeInv
<1>4. LocalTypeOK'
  BY <1>2, <1>3 DEF ClaimRead, TypeInv, TypeOK, LocalTypeOK, Goto, Labels
<1>5. PcOK'
  BY <1>1, <1>2 DEF ClaimRead, TypeInv, TypeOK, LocalTypeOK, PcOK, Goto
<1> QED BY <1>4, <1>5, UnchangedTypes DEF ClaimRead, TypeInv, TypeOK

\* Writing one run row.
LEMMA RunWriteType ==
  ASSUME RunTableTypeOK, NEW k \in RunKeys, NEW row \in RunRecord,
         runs' = [runs EXCEPT ![k] = row], UNCHANGED runsReplica
  PROVE  RunTableTypeOK' /\ runs'[k] = row
BY DEF RunTableTypeOK

LEMMA RunKeyType ==
  ASSUME TypeInv, NEW w \in Workers,
         pc[w] \in {"claimRead", "claimWrite", "resume", "execute", "after"}
  PROVE  RunKey(w) \in RunKeys /\ runs[RunKey(w)] \in RunRecord
BY ReadTypes DEF TypeInv, TypeOK, PcOK, RunKey, RunKeys, RunTableTypeOK

LEMMA TypeClaimWrite ==
  ASSUME TypeInv, NEW w \in Workers, ClaimWrite(w)
  PROVE  TypeInv'
<1> DEFINE k == RunKey(w)
           row == ClaimedRun(runs[k], plan[w])
<1>1. k \in RunKeys /\ runs[k] \in RunRecord /\ plan[w] \in ClaimPlan
  BY RunKeyType DEF ClaimWrite, TypeInv, TypeOK, LocalTypeOK
<1>2. row \in RunRecord
  BY <1>1, ClaimTypes
<1>3. RunTableTypeOK'
  <2>1. CASE runs' = [runs EXCEPT ![k] = row]
    BY <2>1, <1>1, <1>2, RunWriteType DEF ClaimWrite, TypeInv, TypeOK
  <2>2. CASE UNCHANGED runs
    BY <2>2 DEF ClaimWrite, TypeInv, TypeOK, RunTableTypeOK
  <2> QED BY <2>1, <2>2 DEF ClaimWrite
<1>4. LocalTypeOK'
  <2>1. \A read \in {(runs')[k], runsReplica[k]} : read.version \in Nat
    BY <1>1, <1>3 DEF RunTableTypeOK, RunRecord, TypeInv, TypeOK
  <2>2. resume' \in [Workers -> Nat]
    BY <2>1 DEF ClaimWrite, TypeInv, TypeOK, LocalTypeOK
  <2>3. pc' \in [Workers -> Labels]
    BY DEF ClaimWrite, TypeInv, TypeOK, LocalTypeOK, Goto, Labels
  <2> QED BY <2>2, <2>3 DEF ClaimWrite, TypeInv, TypeOK, LocalTypeOK
<1>5. PcOK'
  BY DEF ClaimWrite, TypeInv, TypeOK, LocalTypeOK, PcOK, Goto
<1> QED BY <1>3, <1>4, <1>5, UnchangedTypes DEF ClaimWrite, TypeInv, TypeOK

LEMMA OutcomeTypes ==
  ASSUME NEW s, NEW end \in EngineOutcomes(s)
  PROVE  end[1] \in {"SUCCEEDED", "PARTIAL", "FAILED"} /\ end[2] \in BOOLEAN
<1>1. \/ end = <<"SUCCEEDED", FALSE>> \/ end = <<"PARTIAL", FALSE>>
      \/ end = <<"FAILED", TRUE>> \/ end = <<"FAILED", FALSE>>
  BY Zenon DEF EngineOutcomes
<1>2. CASE end = <<"SUCCEEDED", FALSE>>
  BY <1>2
<1>3. CASE end = <<"PARTIAL", FALSE>>
  BY <1>3
<1>4. CASE end = <<"FAILED", TRUE>>
  BY <1>4
<1>5. CASE end = <<"FAILED", FALSE>>
  BY <1>5
<1> QED BY <1>1, <1>2, <1>3, <1>4, <1>5

LEMMA TypeExecute ==
  ASSUME TypeInv, NEW w \in Workers, Execute(w)
  PROVE  TypeInv'
<1> DEFINE k == RunKey(w)
<1>1. k \in RunKeys /\ runs[k] \in RunRecord /\ current[w].stage \in RunStages
  BY RunKeyType DEF Execute, TypeInv, PcOK
<1>2. RunTableTypeOK'
  <2>1. CASE UNCHANGED runs
    BY <2>1 DEF Execute, TypeInv, TypeOK, RunTableTypeOK
  <2>2. ASSUME NEW end \in EngineOutcomes(current[w].stage),
               runs' = [runs EXCEPT ![k] = CompletedRun(@, end[1], end[2])]
        PROVE  RunTableTypeOK'
    <3>1. end[1] \in {"SUCCEEDED", "PARTIAL", "FAILED"} /\ end[2] \in BOOLEAN
      BY OutcomeTypes
    <3>2. CompletedRun(runs[k], end[1], end[2]) \in RunRecord
      BY <3>1, <1>1, CompletedType
    <3> QED BY <2>2, <3>2, <1>1, RunWriteType DEF Execute, TypeInv, TypeOK
  <2> QED BY <2>1, <2>2 DEF Execute
<1>3. LocalTypeOK' /\ PcOK'
  <2>1. PICK label \in {"retrying", "after"} : Goto(w, label)
    BY DEF Execute
  <2> QED BY <2>1, <1>1, LocalStep DEF Execute, Labels, localVars
<1> QED BY <1>2, <1>3, UnchangedTypes DEF Execute, TypeInv, TypeOK

LEMMA TypeAdvance ==
  ASSUME TypeInv, NEW w \in Workers, Advance(w)
  PROVE  TypeInv'
<1> DEFINE row == [jobs[JobOf(w)] EXCEPT !.stage = NextStage(current[w].stage),
                                         !.status = current[w].status]
<1>1. row \in JobRecord
  <2>1. NextStage(current[w].stage) \in JobStages
    BY DEF Advance, TypeInv, PcOK, NextStage, JobStages, RunStages
  <2>2. current[w].status \in JobStatuses /\ jobs[JobOf(w)] \in JobRecord
    BY ReadTypes DEF TypeInv, TypeOK, LocalTypeOK, JobRecord
  <2> QED BY <2>1, <2>2 DEF JobRecord
<1>2. TableTypeOK' /\ (jobs')[JobOf(w)] \in JobRecord
  BY <1>1, UpdateJobType, ReadTypes, UnchangedTypes DEF Advance, TypeInv, TypeOK, TableTypeOK
<1>3. LocalTypeOK' /\ PcOK'
  BY <1>2, LocalStep DEF Advance, AfterWrite, Labels
<1> QED BY <1>2, <1>3, UnchangedTypes DEF Advance, TypeInv, TypeOK

LEMMA TypeReport ==
  ASSUME TypeInv, NEW w \in Workers, Build(w) \/ Save(w)
  PROVE  TypeInv'
<1>1. CASE Build(w)
  <2>1. LocalTypeOK'
    BY <1>1 DEF Build, TypeInv, TypeOK, LocalTypeOK, Goto, Labels
  <2>2. PcOK'
    BY <1>1 DEF Build, TypeInv, TypeOK, LocalTypeOK, PcOK, Goto
  <2> QED BY <1>1, <2>1, <2>2, UnchangedTypes DEF Build, TypeInv, TypeOK
<1>2. CASE Save(w)
  <2>1. reports' \in [Jobs -> Reports]
    <3>1. snapshot[w] \in SUBSET RunStages
      BY DEF TypeInv, TypeOK, LocalTypeOK
    <3>2. [saved |-> TRUE, saw |-> snapshot[w]] \in Reports
      BY <3>1 DEF Reports
    <3> QED BY <1>2, <3>2, ReadTypes DEF Save, TypeInv, TypeOK
  <2>2. LocalTypeOK' /\ PcOK'
    BY <1>2, LocalStep DEF Save, Labels, localVars, TypeInv, PcOK
  <2>3. RunTableTypeOK' /\ (verified \in BOOLEAN)'
    BY <1>2 DEF Save, TypeInv, TypeOK, RunTableTypeOK
  <2> QED BY <1>2, <2>1, <2>2, <2>3, UnchangedTypes DEF Save, TypeInv, TypeOK
<1> QED BY <1>1, <1>2

LEMMA TypeFinish ==
  ASSUME TypeInv, NEW w \in Workers, Finish(w)
  PROVE  TypeInv'
<1>1. [jobs[JobOf(w)] EXCEPT !.status = "SUCCEEDED", !.stage = "COMPLETE"] \in JobRecord
  BY ReadTypes DEF TypeInv, JobRecord, JobStatuses, JobStages
<1>2. TableTypeOK'
  BY <1>1, UpdateJobType, ReadTypes, UnchangedTypes DEF Finish, TypeInv, TypeOK
<1>3. LocalTypeOK' /\ PcOK'
  BY LocalStep DEF Finish, AfterWrite, Labels, localVars
<1> QED BY <1>2, <1>3, UnchangedTypes DEF Finish, TypeInv, TypeOK

LEMMA TypeRetrying ==
  ASSUME TypeInv, NEW w \in Workers, Retrying(w)
  PROVE  TypeInv'
<1>1. [jobs[JobOf(w)] EXCEPT !.retryCount = mine[w].retryCount + 1] \in JobRecord
  <2>1. mine[w].retryCount + 1 \in Nat
    <3>1. mine[w] \in JobRecord
      BY DEF TypeInv, TypeOK, LocalTypeOK
    <3>2. mine[w].retryCount \in Nat
      BY <3>1 DEF JobRecord
    <3> QED BY <3>2
  <2>2. jobs[JobOf(w)] \in JobRecord
    BY ReadTypes DEF TypeInv
  <2> QED BY <2>1, <2>2 DEF JobRecord
<1>2. TableTypeOK' /\ (jobs')[JobOf(w)] \in JobRecord
  BY <1>1, UpdateJobType, ReadTypes, UnchangedTypes DEF Retrying, TypeInv, TypeOK, TableTypeOK
<1>3. LocalTypeOK' /\ PcOK'
  <2>1. CASE Leave(w)
    BY <2>1, LeaveType DEF TypeInv, TypeOK
  <2>2. CASE Goto(w, "exhaust") /\ mine' = [mine EXCEPT ![w] = jobs'[JobOf(w)]]
             /\ UNCHANGED <<ttl, held, current, plan, resume, snapshot>>
    BY <2>2, <1>2, LocalStep DEF Labels
  <2> QED BY <2>1, <2>2 DEF Retrying
<1> QED BY <1>2, <1>3, UnchangedTypes DEF Retrying, TypeInv, TypeOK

LEMMA TypeEnd ==
  ASSUME TypeInv, NEW w \in Workers, RepositoryFault(w) \/ Ack(w) \/ Die(w)
  PROVE  TypeInv'
<1>1. CASE RepositoryFault(w)
  <2>1. LocalTypeOK' /\ PcOK'
    <3>1. CASE Leave(w)
      BY <3>1, LeaveType DEF TypeInv, TypeOK
    <3>2. CASE Goto(w, "retrying") /\ UNCHANGED <<ttl, localVars>>
      BY <3>2, LocalStep DEF Labels, localVars
    <3> QED BY <1>1, <3>1, <3>2 DEF RepositoryFault
  <2> QED BY <1>1, <2>1, UnchangedTypes DEF RepositoryFault, TypeInv, TypeOK
<1>2. CASE Ack(w)
  <2>1. held[w] \in Messages
    BY DEF TypeInv, TypeOK, LocalTypeOK
  <2>2. QueueTypeOK(Jobs)'
    BY <1>2, <2>1 DEF Ack, DeleteMessage, TypeInv, TypeOK, QueueTypeOK, MessageStates
  <2> QED BY <1>2, <2>2, LeaveType, UnchangedTypes DEF Ack, TypeInv, TypeOK
<1>3. CASE Die(w)
  BY <1>3, LeaveType, UnchangedTypes DEF Die, TypeInv, TypeOK
<1> QED BY <1>1, <1>2, <1>3

LEMMA TypeRedrive ==
  ASSUME TypeInv, NEW m \in Messages, Redrive(m)
  PROVE  TypeInv'
<1>1. QueueTypeOK(Jobs)'
  BY DEF Redrive, DeadLetter, TypeInv, TypeOK, QueueTypeOK, MessageStates
<1> QED BY <1>1, UnchangedTypes DEF Redrive, TypeInv, TypeOK

LEMMA TypeChangeAccount ==
  ASSUME TypeInv, ChangeAccount
  PROVE  TypeInv'
<1>1. RunTableTypeOK' /\ (reports \in [Jobs -> Reports])'
  BY DEF ChangeAccount, TypeInv, TypeOK, RunTableTypeOK, runVars
<1>2. verified' \in BOOLEAN
  BY DEF ChangeAccount, AccountChanges
<1> QED BY <1>1, <1>2, UnchangedTypes DEF ChangeAccount, TypeInv, TypeOK

LEMMA TypeCatchUpJob ==
  ASSUME TypeInv, NEW j \in Jobs, CatchUpJob(j)
  PROVE  TypeInv'
<1>1. TableTypeOK'
  BY DEF CatchUpJob, ReplicateJob, TypeInv, TypeOK, TableTypeOK
<1> QED BY <1>1, UnchangedTypes DEF CatchUpJob, TypeInv, TypeOK

LEMMA TypeCatchUpRun ==
  ASSUME TypeInv, NEW k \in RunKeys, CatchUpRun(k)
  PROVE  TypeInv'
<1>1. RunTableTypeOK'
  BY DEF CatchUpRun, ReplicateRun, TypeInv, TypeOK, RunTableTypeOK
<1> QED BY <1>1, UnchangedTypes DEF CatchUpRun, TypeInv, TypeOK

LEMMA TypeTick ==
  ASSUME TypeInv, Tick
  PROVE  TypeInv'
<1>1. RunTableTypeOK'
  BY AgedTypes DEF Tick, AgeRuns, TypeInv, TypeOK, RunTableTypeOK
<1>2. QueueTypeOK(Jobs)'
  <2>1. ASSUME NEW m \in Messages
        PROVE  [queue[m] EXCEPT !.hidden = IF @ > 0 THEN @ - 1 ELSE 0] \in
                 [state : MessageStates, job : Jobs, receives : 0 .. MaxReceiveCount,
                  hidden : 0 .. VisibilityTimeout]
    BY QueueAssumption DEF TypeInv, TypeOK, QueueTypeOK
  <2> QED BY <2>1 DEF Tick, AgedQueue, TypeInv, TypeOK, QueueTypeOK
<1>3. LocalTypeOK'
  <2>1. ttl' \in [Workers -> 0 .. LambdaTimeout]
    BY ConsumerAssumption DEF Tick, TypeInv, TypeOK, LocalTypeOK
  <2>2. plan' \in [Workers -> ClaimPlan]
    BY AgedTypes DEF Tick, TypeInv, TypeOK, LocalTypeOK
  <2> QED BY <2>1, <2>2 DEF Tick, TypeInv, TypeOK, LocalTypeOK
<1>4. PcOK'
  BY DEF Tick, TypeInv, PcOK
<1>5. TableTypeOK' /\ (reports \in [Jobs -> Reports])' /\ (verified \in BOOLEAN)'
  BY UnchangedTypes DEF Tick, TypeInv, TypeOK
<1> QED BY <1>1, <1>2, <1>3, <1>4, <1>5 DEF TypeInv, TypeOK

LEMMA TypeInit == Init => TypeInv
<1> SUFFICES ASSUME Init PROVE TypeInv
  OBVIOUS
<1>1. TableTypeOK
  <2>1. [CreatedJob EXCEPT !.queueStatus = "ENQUEUED", !.version = 2] \in JobRecord
    BY InitialValues DEF JobRecord, QueueStatuses
  <2> QED BY <2>1 DEF Init, TableTypeOK
<1>2. QueueTypeOK(Jobs)
  BY QueueAssumption DEF Init, QueueTypeOK, SentMessage, MessageStates
<1>3. RunTableTypeOK /\ reports \in [Jobs -> Reports] /\ verified \in BOOLEAN
  BY InitialValues DEF Init, WorkInit, RunTableInit, RunTableTypeOK
<1>4. LocalTypeOK
  BY InitialValues, ConsumerAssumption DEF Init, WorkerInit, LocalTypeOK, Labels
<1>5. PcOK
  BY DEF Init, WorkerInit, PcOK
<1> QED BY <1>1, <1>2, <1>3, <1>4, <1>5 DEF TypeInv, TypeOK

LEMMA TypeNext ==
  ASSUME TypeInv, [Next]_vars
  PROVE  TypeInv'
<1>1. CASE UNCHANGED vars
  BY <1>1, UnchangedTypes DEF vars, TypeInv, TypeOK
<1>2. ASSUME NEW w \in Workers, WorkerStep(w) \/ RepositoryFault(w) \/ Die(w)
      PROVE  TypeInv'
  <2>1. CASE Load(w) \/ Reload(w)
    BY <2>1, TypeLoad
  <2>2. CASE Reject(w) \/ Exhaust(w) \/ Fail(w)
    BY <2>2, TypeMarkTerminalFailure DEF Reject, Exhaust, Fail, Labels
  <2>3. CASE Verify(w) \/ Stage(w) \/ Resume(w) \/ After(w) \/ Project(w)
    BY <2>3, TypeSteps
  <2>4. CASE Claim(w)
    BY <2>4, TypeClaim
  <2>5. CASE Latest(w)
    BY <2>5, TypeLatest
  <2>6. CASE ClaimRead(w)
    BY <2>6, TypeClaimRead
  <2>7. CASE ClaimWrite(w)
    BY <2>7, TypeClaimWrite
  <2>8. CASE Execute(w)
    BY <2>8, TypeExecute
  <2>9. CASE Advance(w)
    BY <2>9, TypeAdvance
  <2>10. CASE Build(w) \/ Save(w)
    BY <2>10, TypeReport
  <2>11. CASE Finish(w)
    BY <2>11, TypeFinish
  <2>12. CASE Retrying(w)
    BY <2>12, TypeRetrying
  <2>13. CASE RepositoryFault(w) \/ Ack(w) \/ Die(w)
    BY <2>13, TypeEnd
  <2> QED BY <1>2, <2>1, <2>2, <2>3, <2>4, <2>5, <2>6, <2>7, <2>8, <2>9, <2>10, <2>11, <2>12, <2>13
          DEF WorkerStep
<1>3. ASSUME NEW w \in Workers, NEW m \in Messages, Receive(w, m) PROVE TypeInv'
  BY <1>3, TypeReceive
<1>4. ASSUME NEW m \in Messages, Redrive(m) PROVE TypeInv'
  BY <1>4, TypeRedrive
<1>5. CASE ChangeAccount
  BY <1>5, TypeChangeAccount
<1>6. ASSUME NEW j \in Jobs, CatchUpJob(j) PROVE TypeInv'
  BY <1>6, TypeCatchUpJob
<1>7. ASSUME NEW k \in RunKeys, CatchUpRun(k) PROVE TypeInv'
  BY <1>7, TypeCatchUpRun
<1>8. CASE Tick
  BY <1>8, TypeTick
<1> QED BY <1>1, <1>2, <1>3, <1>4, <1>5, <1>6, <1>7, <1>8 DEF Next

\* Every row, message and local variable has its declared shape, and each access of
\* the pipeline happens at a stage it is meant for (processValidatedMessage).
THEOREM TypeCorrect == Spec => [](TypeOK /\ PcOK)
<1>1. Init => TypeInv
  BY TypeInit
<1>2. TypeInv /\ [Next]_vars => TypeInv'
  BY TypeNext
<1>3. TypeInv => TypeOK /\ PcOK
  BY DEF TypeInv
<1> QED BY <1>1, <1>2, <1>3, PTL DEF Spec

-----------------------------------------------------------------------------
(* The fence around a stage run.                                           *)

\* An invocation that owns the run it works on.
Owner(w) == pc[w] \in {"resume", "execute"}

\* The row of a run is RUNNING while an invocation owns it, and its lease ends after
\* the invocation.
OwnerIsFenced ==
  \A w \in Workers : Owner(w) =>
    runs[RunKey(w)].status = "RUNNING" /\ runs[RunKey(w)].lease > ttl[w]

OneOwner ==
  \A v, w \in Workers : Owner(v) /\ Owner(w) /\ RunKey(v) = RunKey(w) => v = w

\* A planned claim is either outdated or one that the row still allows.
PlanIsSafe ==
  \A w \in Workers : pc[w] = "claimWrite" =>
    /\ plan[w].lease > ttl[w]
    /\ plan[w].expectedVersion <= runs[RunKey(w)].version
    /\ plan[w].expectedVersion = runs[RunKey(w)].version =>
         StageProofRequiresExecutionClaim(runs[RunKey(w)])

\* A lagging replica holds an earlier version, or the same row.
ReplicaLags ==
  \A k \in RunKeys :
    /\ runsReplica[k].version <= runs[k].version
    /\ runsReplica[k].version = runs[k].version => runsReplica[k] = runs[k]

CompleteHasNoLease ==
  \A k \in RunKeys : StageProofIsComplete(runs[k]) => runs[k].lease = 0

Fence ==
  /\ OwnerIsFenced
  /\ OneOwner
  /\ PlanIsSafe
  /\ ReplicaLags
  /\ CompleteHasNoLease

FenceInv == TypeInv /\ Fence

\* A step that writes no run row and gives no invocation a plan or a run keeps the fence.
LEMMA FenceFrame ==
  ASSUME FenceInv,
         UNCHANGED runVars,
         \A m \in Messages : (queue')[m].job = queue[m].job,
         \A w \in Workers :
           /\ Owner(w)' => Owner(w)
           /\ (pc')[w] = "claimWrite" => pc[w] = "claimWrite" /\ (plan')[w] = plan[w]
           /\ (pc')[w] \in {"claimWrite", "resume", "execute"} =>
                /\ (held')[w] = held[w] /\ (ttl')[w] = ttl[w] /\ (current')[w] = current[w]
  PROVE  Fence'
<1> USE DEF FenceInv, runVars
<1>1. \A w \in Workers : (pc')[w] \in {"claimWrite", "resume", "execute"} => RunKey(w)' = RunKey(w)
  BY DEF RunKey, JobOf, TypeInv, TypeOK, LocalTypeOK
<1>2. OwnerIsFenced'
  BY <1>1 DEF Fence, OwnerIsFenced, Owner
<1>3. OneOwner'
  BY <1>1 DEF Fence, OneOwner, Owner
<1>4. PlanIsSafe'
  BY <1>1 DEF Fence, PlanIsSafe
<1>5. ReplicaLags' /\ CompleteHasNoLease'
  BY DEF Fence, ReplicaLags, CompleteHasNoLease
<1> QED BY <1>2, <1>3, <1>4, <1>5 DEF Fence

\* Moving on to an access that is not fenced, or ending.
LEMMA FenceMove ==
  ASSUME FenceInv, NEW w \in Workers, NEW label, Goto(w, label),
         label \notin {"claimWrite", "resume", "execute"},
         UNCHANGED runVars,
         \A m \in Messages : (queue')[m].job = queue[m].job,
         \A v \in Workers \ {w} :
           /\ (held')[v] = held[v] /\ (ttl')[v] = ttl[v]
           /\ (current')[v] = current[v] /\ (plan')[v] = plan[v]
  PROVE  Fence'
<1>1. (pc')[w] = label /\ \A v \in Workers \ {w} : (pc')[v] = pc[v]
  BY DEF Goto, FenceInv, TypeInv, TypeOK, LocalTypeOK
<1>2. \A v \in Workers :
           /\ Owner(v)' => Owner(v)
           /\ (pc')[v] = "claimWrite" => pc[v] = "claimWrite" /\ (plan')[v] = plan[v]
           /\ (pc')[v] \in {"claimWrite", "resume", "execute"} =>
                /\ (held')[v] = held[v] /\ (ttl')[v] = ttl[v] /\ (current')[v] = current[v]
  BY <1>1 DEF Owner
<1> QED BY <1>2, FenceFrame

LEMMA FenceLeave ==
  ASSUME FenceInv, NEW w \in Workers, Leave(w),
         UNCHANGED runVars, \A m \in Messages : (queue')[m].job = queue[m].job
  PROVE  Fence'
BY FenceMove DEF Leave, FenceInv, TypeInv, TypeOK, LocalTypeOK

\* The steps of an invocation outside the stage run.
LEMMA FenceOutside ==
  ASSUME FenceInv, NEW w \in Workers,
         \/ Load(w) \/ Verify(w) \/ Reject(w) \/ Claim(w) \/ Reload(w) \/ Latest(w) \/ Stage(w)
         \/ After(w) \/ Advance(w) \/ Project(w) \/ Build(w) \/ Save(w) \/ Finish(w)
         \/ Retrying(w) \/ Exhaust(w) \/ Fail(w) \/ Ack(w) \/ RepositoryFault(w) \/ Die(w)
  PROVE  Fence'
<1>1. (UNCHANGED runVars /\ UNCHANGED queueVars) \/ Ack(w)
  BY DEF Load, Verify, Reject, Claim, Reload, Latest, Stage, After, Advance, Project, Build, Save,
         Finish, Retrying, Exhaust, Fail, RepositoryFault, Die, MarkTerminalFailure, workVars,
         runVars
<1>2. UNCHANGED runVars /\ \A m \in Messages : (queue')[m].job = queue[m].job
  <2>1. CASE Ack(w)
    BY <2>1 DEF Ack, DeleteMessage, workVars, runVars, FenceInv, TypeInv, TypeOK, QueueTypeOK
  <2> QED BY <1>1, <2>1 DEF queueVars
<1>3. CASE Leave(w)
  BY <1>2, <1>3, FenceLeave
<1>4. CASE /\ \E label \in Labels \ {"claimWrite", "resume", "execute"} : Goto(w, label)
           /\ UNCHANGED <<ttl, held, plan>>
           /\ UNCHANGED current \/ \E row : current' = [current EXCEPT ![w] = row]
  <2>1. \A v \in Workers \ {w} : (current')[v] = current[v]
    BY <1>4 DEF FenceInv, TypeInv, TypeOK, LocalTypeOK
  <2> QED BY <1>2, <1>4, <2>1, FenceMove
<1>5. Leave(w) \/ \E label \in Labels \ {"claimWrite", "resume", "execute"} : Goto(w, label)
  BY DEF Load, Verify, Reject, Claim, Reload, Latest, Stage, After, Advance, Project, Build, Save,
         Finish, Retrying, Exhaust, Fail, Ack, RepositoryFault, Die, MarkTerminalFailure,
         AfterWrite, Labels
<1>6. \/ Leave(w)
      \/ /\ UNCHANGED <<ttl, held, plan>>
         /\ UNCHANGED current \/ \E row : current' = [current EXCEPT ![w] = row]
  BY DEF Load, Verify, Reject, Claim, Reload, Latest, Stage, After, Advance, Project, Build, Save,
         Finish, Retrying, Exhaust, Fail, Ack, RepositoryFault, Die, MarkTerminalFailure, localVars
<1> QED BY <1>3, <1>4, <1>5, <1>6

\* Receiving, redriving and the steps of the environment that leave the runs alone.
LEMMA FenceEnvironment ==
  ASSUME FenceInv,
         \/ \E w \in Workers, m \in Messages : Receive(w, m)
         \/ \E m \in Messages : Redrive(m)
         \/ ChangeAccount
         \/ \E j \in Jobs : CatchUpJob(j)
  PROVE  Fence'
<1>1. ASSUME NEW w \in Workers, NEW m \in Messages, Receive(w, m) PROVE Fence'
  <2>1. UNCHANGED runVars /\ \A n \in Messages : (queue')[n].job = queue[n].job
    BY <1>1 DEF Receive, ReceiveMessage, ReceiveVisible, ReceiveDuplicate, Delivered, workVars,
            runVars, FenceInv, TypeInv, TypeOK, QueueTypeOK
  <2>2. \A v \in Workers \ {w} :
           /\ (held')[v] = held[v] /\ (ttl')[v] = ttl[v]
           /\ (current')[v] = current[v] /\ (plan')[v] = plan[v]
    BY <1>1 DEF Receive, FenceInv, TypeInv, TypeOK, LocalTypeOK
  <2>3. Goto(w, "load")
    BY <1>1 DEF Receive
  <2> QED BY <2>1, <2>2, <2>3, FenceMove
<1>2. ASSUME UNCHANGED <<runVars, pc, ttl, localVars>>,
             \A m \in Messages : (queue')[m].job = queue[m].job
      PROVE  Fence'
  BY <1>2, FenceFrame DEF localVars, Owner
<1>3. ASSUME NEW m \in Messages, Redrive(m) PROVE Fence'
  <2>1. \A n \in Messages : (queue')[n].job = queue[n].job
    BY <1>3 DEF Redrive, DeadLetter, FenceInv, TypeInv, TypeOK, QueueTypeOK
  <2> QED BY <1>3, <2>1, <1>2 DEF Redrive, workVars
<1>4. ASSUME ChangeAccount PROVE Fence'
  BY <1>4, <1>2 DEF ChangeAccount, queueVars
<1>5. ASSUME NEW j \in Jobs, CatchUpJob(j) PROVE Fence'
  BY <1>5, <1>2 DEF CatchUpJob, queueVars, workVars
<1> QED BY <1>1, <1>3, <1>4, <1>5

LEMMA FenceResume ==
  ASSUME FenceInv, NEW w \in Workers, Resume(w)
  PROVE  Fence'
<1>1. UNCHANGED <<runVars, queue, ttl, held, plan, current>> /\ Owner(w)
  BY DEF Resume, workVars, queueVars, localVars, Owner
<1>2. \A v \in Workers : ((pc')[v] \in {"execute", "retrying"} /\ v = w) \/ (pc')[v] = pc[v]
  BY DEF Resume, Goto, FenceInv, TypeInv, TypeOK, LocalTypeOK
<1> QED BY <1>1, <1>2, FenceFrame DEF Owner

\* A plan made from a stale row is outdated; one made from the row itself is allowed.
LEMMA FenceClaimRead ==
  ASSUME FenceInv, NEW w \in Workers, ClaimRead(w)
  PROVE  Fence'
<1> DEFINE k == RunKey(w)
<1>1. k \in RunKeys /\ runs[k] \in RunRecord /\ pc[w] = "claimRead"
  BY RunKeyType DEF ClaimRead, FenceInv
<1>2. PICK run \in {runs[k], runsReplica[k]} :
        \/ /\ StageProofRequiresExecutionClaim(run)
           /\ plan' = [plan EXCEPT ![w] = PlanStageRunExecutionClaim(run)]
           /\ Goto(w, "claimWrite")
        \/ Goto(w, "retrying") /\ UNCHANGED plan
  BY DEF ClaimRead, GetRun, RunKey
<1>3. UNCHANGED <<runVars, queue, ttl, held, current>>
  BY DEF ClaimRead, workVars, queueVars
<1>4. CASE Goto(w, "retrying") /\ UNCHANGED plan
  BY <1>3, <1>4, FenceMove
<1>5. CASE /\ StageProofRequiresExecutionClaim(run)
           /\ plan' = [plan EXCEPT ![w] = PlanStageRunExecutionClaim(run)]
           /\ Goto(w, "claimWrite")
  <2>1. /\ (pc')[w] = "claimWrite" /\ (plan')[w] = PlanStageRunExecutionClaim(run)
        /\ \A v \in Workers \ {w} : (pc')[v] = pc[v] /\ (plan')[v] = plan[v]
    BY <1>5 DEF Goto, FenceInv, TypeInv, TypeOK, LocalTypeOK
  <2>2. \A v \in Workers : RunKey(v)' = RunKey(v)
    BY <1>3 DEF RunKey, JobOf
  <2>3. OwnerIsFenced' /\ OneOwner'
    BY <2>1, <2>2, <1>3 DEF FenceInv, Fence, OwnerIsFenced, OneOwner, Owner, runVars
  <2>4. PlanIsSafe'
    <3>1. /\ run.version <= runs[k].version
          /\ run.version = runs[k].version => run = runs[k]
      BY <1>1, <1>2 DEF FenceInv, Fence, ReplicaLags, TypeInv, TypeOK, RunTableTypeOK, RunRecord
    <3>2. ttl[w] < Lease
      BY ConsumerAssumption, LeaseAssumption DEF FenceInv, TypeInv, TypeOK, LocalTypeOK
    <3>3. /\ (plan')[w].lease > ttl[w]
          /\ (plan')[w].expectedVersion <= runs[k].version
          /\ (plan')[w].expectedVersion = runs[k].version => StageProofRequiresExecutionClaim(runs[k])
      BY <2>1, <3>1, <3>2, <1>5 DEF PlanStageRunExecutionClaim
    <3> QED BY <3>3, <2>1, <2>2, <1>3 DEF FenceInv, Fence, PlanIsSafe, runVars
  <2>5. ReplicaLags' /\ CompleteHasNoLease'
    BY <1>3 DEF FenceInv, Fence, ReplicaLags, CompleteHasNoLease, runVars
  <2> QED BY <2>3, <2>4, <2>5 DEF Fence
<1> QED BY <1>2, <1>4, <1>5

\* A row owned by an invocation is no row a claim can be planned for.
LEMMA OwnedIsNotClaimable ==
  ASSUME FenceInv, NEW v \in Workers, Owner(v)
  PROVE  /\ RunKey(v) \in RunKeys
         /\ ~StageProofRequiresExecutionClaim(runs[RunKey(v)])
         /\ ~StageProofIsComplete(runs[RunKey(v)])
<1>1. RunKey(v) \in RunKeys /\ runs[RunKey(v)] \in RunRecord
  BY RunKeyType DEF FenceInv, Owner
<1>2. runs[RunKey(v)].status = "RUNNING" /\ runs[RunKey(v)].lease > 0
  BY <1>1, ConsumerAssumption
     DEF FenceInv, Fence, OwnerIsFenced, TypeInv, TypeOK, LocalTypeOK, RunRecord
<1> QED BY <1>1, <1>2
        DEF StageProofRequiresExecutionClaim, StageProofIsComplete, ClassifyRun, Claimable,
            CompleteStatuses, IsStageExecutionLeaseActive

LEMMA FenceClaimWrite ==
  ASSUME FenceInv, NEW w \in Workers, ClaimWrite(w)
  PROVE  Fence'
<1> DEFINE k == RunKey(w)
           row == ClaimedRun(runs[k], plan[w])
<1>1. k \in RunKeys /\ runs[k] \in RunRecord /\ pc[w] = "claimWrite" /\ plan[w] \in ClaimPlan
  BY RunKeyType DEF ClaimWrite, FenceInv, TypeInv, TypeOK, LocalTypeOK
<1>2. UNCHANGED <<runsReplica, queue, ttl, held, plan, current>>
  BY DEF ClaimWrite, queueVars
<1>3. \A v \in Workers : RunKey(v)' = RunKey(v)
  BY <1>2 DEF RunKey, JobOf
<1>4. CASE UNCHANGED runs /\ Goto(w, "retrying")
  BY <1>2, <1>4, FenceMove DEF runVars
<1>5. CASE /\ runs[k].version = plan[w].expectedVersion
           /\ runs' = [runs EXCEPT ![k] = row]
           /\ Goto(w, "resume") \/ Goto(w, "retrying")
  <2>1. \A v \in Workers : Owner(v) => RunKey(v) # k
    BY <1>1, <1>5, OwnedIsNotClaimable DEF FenceInv, Fence, PlanIsSafe
  <2>2. /\ (runs')[k] = row /\ \A i \in RunKeys \ {k} : (runs')[i] = runs[i]
        /\ row.status = "RUNNING" /\ row.lease = plan[w].lease /\ row.version = runs[k].version + 1
    BY <1>1, <1>5 DEF FenceInv, TypeInv, TypeOK, RunTableTypeOK, ClaimedRun
  <2>3. /\ (pc')[w] \in {"resume", "retrying"}
        /\ \A v \in Workers \ {w} : (pc')[v] = pc[v]
    BY <1>5 DEF Goto, FenceInv, TypeInv, TypeOK, LocalTypeOK
  <2>4. \A v \in Workers : pc[v] \in {"claimWrite", "resume", "execute"} => RunKey(v) \in RunKeys
    BY RunKeyType DEF FenceInv
  <2>5. OwnerIsFenced'
    <3>1. ASSUME NEW v \in Workers, Owner(v)'
          PROVE  (runs')[RunKey(v)].status = "RUNNING" /\ (runs')[RunKey(v)].lease > ttl[v]
      <4>1. CASE v = w
        BY <4>1, <2>2, <1>1 DEF FenceInv, Fence, PlanIsSafe
      <4>2. CASE v # w
        BY <4>2, <3>1, <2>1, <2>2, <2>3, <2>4 DEF FenceInv, Fence, OwnerIsFenced, Owner
      <4> QED BY <4>1, <4>2
    <3> QED BY <3>1, <1>2, <1>3 DEF OwnerIsFenced
  <2>6. OneOwner'
    BY <2>1, <2>3, <1>3 DEF FenceInv, Fence, OneOwner, Owner
  <2>7. PlanIsSafe'
    <3>1. ASSUME NEW v \in Workers, (pc')[v] = "claimWrite"
          PROVE  /\ plan[v].lease > ttl[v]
                 /\ plan[v].expectedVersion <= (runs')[RunKey(v)].version
                 /\ plan[v].expectedVersion = (runs')[RunKey(v)].version =>
                      StageProofRequiresExecutionClaim((runs')[RunKey(v)])
      <4>1. v # w /\ pc[v] = "claimWrite" /\ RunKey(v) \in RunKeys
        BY <3>1, <2>3, <2>4
      <4>2. plan[v].expectedVersion \in Nat /\ runs[k].version \in Nat
        BY <1>1 DEF FenceInv, TypeInv, TypeOK, LocalTypeOK, ClaimPlan, RunRecord
      <4>3. CASE RunKey(v) = k
        BY <4>1, <4>2, <4>3, <2>2 DEF FenceInv, Fence, PlanIsSafe
      <4>4. CASE RunKey(v) # k
        BY <4>1, <4>4, <2>2 DEF FenceInv, Fence, PlanIsSafe
      <4> QED BY <4>3, <4>4
    <3> QED BY <3>1, <1>2, <1>3 DEF PlanIsSafe
  <2>8. ReplicaLags'
    BY <1>1, <1>2, <2>2
       DEF FenceInv, Fence, ReplicaLags, TypeInv, TypeOK, RunTableTypeOK, RunRecord
  <2>9. CompleteHasNoLease'
    BY <1>1, <2>2
       DEF FenceInv, Fence, CompleteHasNoLease, StageProofIsComplete, ClassifyRun, CompleteStatuses
  <2> QED BY <2>5, <2>6, <2>7, <2>8, <2>9 DEF Fence
<1>6. \/ UNCHANGED runs /\ Goto(w, "retrying")
      \/ /\ runs[k].version = plan[w].expectedVersion
         /\ runs' = [runs EXCEPT ![k] = row]
         /\ Goto(w, "resume") \/ Goto(w, "retrying")
  BY DEF ClaimWrite
<1> QED BY <1>4, <1>5, <1>6

LEMMA FenceExecute ==
  ASSUME FenceInv, NEW w \in Workers, Execute(w)
  PROVE  Fence'
<1> DEFINE k == RunKey(w)
<1>1. k \in RunKeys /\ runs[k] \in RunRecord /\ Owner(w)
  BY RunKeyType DEF Execute, FenceInv, Owner
<1>2. UNCHANGED <<runsReplica, queue, ttl, held, plan, current>>
  BY DEF Execute, queueVars, localVars
<1>3. \A v \in Workers : RunKey(v)' = RunKey(v)
  BY <1>2 DEF RunKey, JobOf
<1>4. PICK label \in {"retrying", "after"} : Goto(w, label)
  BY DEF Execute
<1>5. CASE UNCHANGED runs
  BY <1>2, <1>4, <1>5, FenceMove DEF runVars
<1>6. ASSUME NEW end \in EngineOutcomes(current[w].stage),
             runs' = [runs EXCEPT ![k] = CompletedRun(@, end[1], end[2])]
      PROVE  Fence'
  <2> DEFINE row == CompletedRun(runs[k], end[1], end[2])
  <2>1. row.version = runs[k].version + 1 /\ row.lease = 0
    BY DEF CompletedRun
  <2>2. (runs')[k] = row /\ \A i \in RunKeys \ {k} : (runs')[i] = runs[i]
    BY <1>1, <1>6 DEF FenceInv, TypeInv, TypeOK, RunTableTypeOK
  <2>3. (pc')[w] = label /\ \A v \in Workers \ {w} : (pc')[v] = pc[v]
    BY <1>4 DEF Goto, FenceInv, TypeInv, TypeOK, LocalTypeOK
  <2>4. \A v \in Workers : pc[v] \in {"claimWrite", "resume", "execute"} => RunKey(v) \in RunKeys
    BY RunKeyType DEF FenceInv
  <2> HIDE DEF row
  <2>5. \A v \in Workers : Owner(v)' => v # w /\ Owner(v) /\ RunKey(v) # k
    BY <1>1, <2>3 DEF FenceInv, Fence, OneOwner, Owner
  <2>6. OwnerIsFenced'
    BY <1>2, <1>3, <2>2, <2>4, <2>5 DEF FenceInv, Fence, OwnerIsFenced, Owner
  <2>7. OneOwner'
    BY <1>3, <2>5 DEF FenceInv, Fence, OneOwner
  <2>8. PlanIsSafe'
    <3>1. ASSUME NEW v \in Workers, (pc')[v] = "claimWrite"
          PROVE  /\ plan[v].lease > ttl[v]
                 /\ plan[v].expectedVersion <= (runs')[RunKey(v)].version
                 /\ plan[v].expectedVersion = (runs')[RunKey(v)].version =>
                      StageProofRequiresExecutionClaim((runs')[RunKey(v)])
      <4>1. pc[v] = "claimWrite" /\ RunKey(v) \in RunKeys
        BY <3>1, <1>4, <2>3, <2>4
      <4>2. plan[v].expectedVersion \in Nat /\ runs[k].version \in Nat
        BY <1>1 DEF FenceInv, TypeInv, TypeOK, LocalTypeOK, ClaimPlan, RunRecord
      <4>3. CASE RunKey(v) = k
        BY <4>1, <4>2, <4>3, <2>1, <2>2 DEF FenceInv, Fence, PlanIsSafe
      <4>4. CASE RunKey(v) # k
        BY <4>1, <4>4, <2>2 DEF FenceInv, Fence, PlanIsSafe
      <4> QED BY <4>3, <4>4
    <3> QED BY <3>1, <1>2, <1>3 DEF PlanIsSafe
  <2>9. ReplicaLags'
    BY <1>1, <1>2, <2>1, <2>2
       DEF FenceInv, Fence, ReplicaLags, TypeInv, TypeOK, RunTableTypeOK, RunRecord
  <2>10. CompleteHasNoLease'
    BY <2>1, <2>2 DEF FenceInv, Fence, CompleteHasNoLease
  <2> QED BY <2>6, <2>7, <2>8, <2>9, <2>10 DEF Fence
<1> QED BY <1>5, <1>6 DEF Execute

LEMMA FenceCatchUpRun ==
  ASSUME FenceInv, NEW i \in RunKeys, CatchUpRun(i)
  PROVE  Fence'
<1>1. UNCHANGED <<runs, queue, pc, ttl, held, plan, current>>
  BY DEF CatchUpRun, ReplicateRun, queueVars, localVars
<1>2. \A v \in Workers : RunKey(v)' = RunKey(v)
  BY <1>1 DEF RunKey, JobOf
<1>3. OwnerIsFenced' /\ OneOwner' /\ PlanIsSafe' /\ CompleteHasNoLease'
  BY <1>1, <1>2
     DEF FenceInv, Fence, OwnerIsFenced, OneOwner, PlanIsSafe, CompleteHasNoLease, Owner
<1>4. ReplicaLags'
  BY <1>1 DEF CatchUpRun, ReplicateRun, FenceInv, Fence, ReplicaLags, TypeInv, TypeOK,
              RunTableTypeOK, RunRecord
<1> QED BY <1>3, <1>4 DEF Fence

\* Time takes from a lease what it takes from its owner, and opens no closed run.
LEMMA FenceTick ==
  ASSUME FenceInv, Tick
  PROVE  Fence'
<1>1. \A w \in Workers :
        /\ (pc')[w] = pc[w] /\ RunKey(w)' = RunKey(w)
        /\ pc[w] \in {"claimWrite", "resume", "execute"} => RunKey(w) \in RunKeys
  <2>1. \A w \in Workers : JobOf(w)' = JobOf(w)
    BY DEF Tick, AgedQueue, JobOf, FenceInv, TypeInv, TypeOK, LocalTypeOK, QueueTypeOK
  <2> QED BY <2>1, RunKeyType DEF Tick, RunKey, FenceInv
<1>2. \A i \in RunKeys : (runs')[i] = AgedRun(runs[i]) /\ (runsReplica')[i] = AgedRun(runsReplica[i])
  BY DEF Tick, AgeRuns
<1>3. \A r \in RunRecord :
        /\ AgedRun(r).status = r.status /\ AgedRun(r).version = r.version
        /\ AgedRun(r).retryable = r.retryable
        /\ AgedRun(r).lease = IF r.lease > 0 THEN r.lease - 1 ELSE 0
  BY DEF RunRecord, AgedRun
<1>4. \A p \in ClaimPlan :
        /\ AgedRun(p).expectedVersion = p.expectedVersion
        /\ AgedRun(p).lease = IF p.lease > 0 THEN p.lease - 1 ELSE 0
  BY DEF ClaimPlan, AgedRun
<1>5. \A w \in Workers : pc[w] # "idle" =>
        ttl[w] > 0 /\ ttl[w] \in Nat /\ (ttl')[w] = ttl[w] - 1
  BY ConsumerAssumption DEF Tick, Live, FenceInv, TypeInv, TypeOK, LocalTypeOK
<1>6. \A i \in RunKeys : runs[i] \in RunRecord /\ runsReplica[i] \in RunRecord
  BY DEF FenceInv, TypeInv, TypeOK, RunTableTypeOK
<1>7. \A r \in RunRecord : r.lease \in Nat /\ r.version \in Nat
  BY LeaseAssumption DEF RunRecord
<1>8. OwnerIsFenced'
  <2>1. ASSUME NEW w \in Workers, Owner(w)
        PROVE  /\ (runs')[RunKey(w)].status = "RUNNING"
               /\ (runs')[RunKey(w)].lease > (ttl')[w]
    <3>1. RunKey(w) \in RunKeys /\ pc[w] # "idle"
      BY <2>1, <1>1 DEF Owner
    <3>2. runs[RunKey(w)].status = "RUNNING" /\ runs[RunKey(w)].lease > ttl[w]
      BY <2>1 DEF FenceInv, Fence, OwnerIsFenced
    <3> QED BY <3>1, <3>2, <1>2, <1>3, <1>5, <1>6, <1>7
  <2> QED BY <2>1, <1>1 DEF OwnerIsFenced, Owner
<1>9. OneOwner'
  BY <1>1 DEF FenceInv, Fence, OneOwner, Owner
<1>10. PlanIsSafe'
  <2>1. \A r \in RunRecord : StageProofRequiresExecutionClaim(r) =>
          StageProofRequiresExecutionClaim(AgedRun(r))
    <3>1. ASSUME NEW r \in RunRecord, StageProofRequiresExecutionClaim(r)
          PROVE  StageProofRequiresExecutionClaim(AgedRun(r))
      <4>1. r.lease \in Nat /\ r.retryable \in BOOLEAN
        BY <1>7 DEF RunRecord
      <4>2. \/ r.status = "MISSING"
            \/ r.status = "RUNNING" /\ r.lease = 0
            \/ r.status = "FAILED" /\ r.retryable
        BY <3>1, <4>1
           DEF StageProofRequiresExecutionClaim, ClassifyRun, Claimable, CompleteStatuses,
               IsStageExecutionLeaseActive, RunRecord, RunStatuses
      <4> QED BY <4>1, <4>2, <1>3
              DEF StageProofRequiresExecutionClaim, ClassifyRun, Claimable, CompleteStatuses,
                  IsStageExecutionLeaseActive
    <3> QED BY <3>1
  <2>2. ASSUME NEW w \in Workers, pc[w] = "claimWrite"
        PROVE  /\ (plan')[w].lease > (ttl')[w]
               /\ (plan')[w].expectedVersion <= (runs')[RunKey(w)].version
               /\ (plan')[w].expectedVersion = (runs')[RunKey(w)].version =>
                    StageProofRequiresExecutionClaim((runs')[RunKey(w)])
    <3>1. RunKey(w) \in RunKeys /\ plan[w] \in ClaimPlan /\ (plan')[w] = AgedRun(plan[w])
      BY <2>2, <1>1 DEF Tick, FenceInv, TypeInv, TypeOK, LocalTypeOK
    <3>2. plan[w].lease \in Nat
      BY <3>1, LeaseAssumption DEF ClaimPlan
    <3> QED BY <2>1, <2>2, <3>1, <3>2, <1>2, <1>3, <1>4, <1>5, <1>6 DEF FenceInv, Fence, PlanIsSafe
  <2> QED BY <2>2, <1>1 DEF PlanIsSafe
<1>11. ReplicaLags'
  BY <1>2, <1>3, <1>6 DEF FenceInv, Fence, ReplicaLags
<1>12. CompleteHasNoLease'
  <2>1. \A r \in RunRecord : StageProofIsComplete(AgedRun(r)) => StageProofIsComplete(r)
    BY <1>3, <1>7
       DEF StageProofIsComplete, ClassifyRun, CompleteStatuses, IsStageExecutionLeaseActive,
           RunRecord, RunStatuses
  <2> QED BY <2>1, <1>2, <1>3, <1>6 DEF FenceInv, Fence, CompleteHasNoLease
<1> QED BY <1>8, <1>9, <1>10, <1>11, <1>12 DEF Fence

LEMMA FenceInit == Init => Fence
<1> SUFFICES ASSUME Init PROVE Fence
  OBVIOUS
<1>1. \A w \in Workers : pc[w] = "idle"
  BY DEF Init, WorkerInit
<1>2. runs = [k \in RunKeys |-> NoRun] /\ runsReplica = runs
  BY DEF Init, WorkInit, RunTableInit
<1>3. OwnerIsFenced /\ OneOwner /\ PlanIsSafe
  BY <1>1 DEF OwnerIsFenced, OneOwner, PlanIsSafe, Owner
<1>4. ReplicaLags
  BY <1>2 DEF ReplicaLags, NoRun
<1>5. CompleteHasNoLease
  BY <1>2 DEF CompleteHasNoLease, NoRun
<1> QED BY <1>3, <1>4, <1>5 DEF Fence

LEMMA FenceNext == FenceInv /\ [Next]_vars => FenceInv'
<1> SUFFICES ASSUME FenceInv, [Next]_vars PROVE Fence'
  BY TypeNext DEF FenceInv
<1>1. CASE UNCHANGED vars
  BY <1>1, FenceFrame
     DEF vars, tableVars, queueVars, workVars, runVars, localVars, Owner
<1>2. ASSUME NEW w \in Workers, WorkerStep(w) \/ RepositoryFault(w) \/ Die(w) PROVE Fence'
  <2>1. CASE ClaimRead(w)
    BY <2>1, FenceClaimRead
  <2>2. CASE ClaimWrite(w)
    BY <2>2, FenceClaimWrite
  <2>3. CASE Resume(w)
    BY <2>3, FenceResume
  <2>4. CASE Execute(w)
    BY <2>4, FenceExecute
  <2> QED BY <1>2, <2>1, <2>2, <2>3, <2>4, FenceOutside DEF WorkerStep
<1>3. CASE \/ \E w \in Workers, m \in Messages : Receive(w, m)
           \/ \E m \in Messages : Redrive(m)
           \/ ChangeAccount
           \/ \E j \in Jobs : CatchUpJob(j)
  BY <1>3, FenceEnvironment
<1>4. ASSUME NEW k \in RunKeys, CatchUpRun(k) PROVE Fence'
  BY <1>4, FenceCatchUpRun
<1>5. CASE Tick
  BY <1>5, FenceTick
<1> QED BY <1>1, <1>2, <1>3, <1>4, <1>5 DEF Next

LEMMA FenceHolds == Spec => []FenceInv
<1>1. Init => FenceInv
  BY TypeInit, FenceInit DEF FenceInv
<1>2. FenceInv /\ [Next]_vars => FenceInv'
  BY FenceNext
<1> QED BY <1>1, <1>2, PTL DEF Spec

\* However many invocations a message, its redeliveries and its duplicates start, no two
\* execute the same stage run: claimExecution's lease outlives every invocation.
THEOREM StageRunsExclude == Spec => []StageExclusion
<1>1. FenceInv => StageExclusion
  BY DEF FenceInv, Fence, OneOwner, Owner, StageExclusion, Executes
<1> QED BY <1>1, FenceHolds, PTL

LEMMA CompletedRunStays ==
  ASSUME FenceInv, [Next]_vars, NEW k \in RunKeys, StageProofIsComplete(runs[k])
  PROVE  (runs')[k] = runs[k]
<1>1. CASE UNCHANGED runs
  BY <1>1
<1>2. ASSUME NEW w \in Workers, ClaimWrite(w) PROVE (runs')[k] = runs[k]
  <2>1. RunKey(w) # k \/ runs[k].version # plan[w].expectedVersion
    BY <1>2 DEF ClaimWrite, FenceInv, Fence, PlanIsSafe, StageProofIsComplete,
                StageProofRequiresExecutionClaim, Claimable
  <2> QED BY <1>2, <2>1 DEF ClaimWrite, FenceInv, TypeInv, TypeOK, RunTableTypeOK
<1>3. ASSUME NEW w \in Workers, Execute(w) PROVE (runs')[k] = runs[k]
  <2>1. RunKey(w) # k
    BY <1>3, OwnedIsNotClaimable DEF Execute, Owner
  <2> QED BY <1>3, <2>1 DEF Execute, FenceInv, TypeInv, TypeOK, RunTableTypeOK
<1>4. CASE Tick
  <2>1. runs[k] \in RunRecord /\ runs[k].lease = 0 /\ (runs')[k] = AgedRun(runs[k])
    BY <1>4 DEF Tick, AgeRuns, FenceInv, Fence, CompleteHasNoLease, TypeInv, TypeOK, RunTableTypeOK
  <2> QED BY <2>1 DEF AgedRun, RunRecord
<1>5. \/ UNCHANGED runs
      \/ \E w \in Workers : ClaimWrite(w) \/ Execute(w)
      \/ Tick
  BY DEF Next, vars, workVars, runVars, WorkerStep, Load, Verify, Reject, Claim, Reload, Latest,
         Stage, ClaimRead, Resume, After, Advance, Project, Build, Save, Finish, Retrying,
         Exhaust, Fail, Ack, RepositoryFault, Die, MarkTerminalFailure, Receive, Redrive,
         ChangeAccount, CatchUpJob, CatchUpRun, ReplicateRun
<1> QED BY <1>1, <1>2, <1>3, <1>4, <1>5

\* A run that is complete keeps its row for ever: no stale read, late completeRun or
\* takeover after an expired lease reopens it.
THEOREM CompletedRunsAreFinal == Spec => CompletedRunIsFinal
<1>1. FenceInv /\ [Next]_vars =>
        [\A k \in RunKeys : StageProofIsComplete(runs[k]) => runs'[k] = runs[k]]_vars
  BY CompletedRunStays
<1> QED BY <1>1, FenceHolds, PTL DEF Spec, CompletedRunIsFinal
-----------------------------------------------------------------------------
(* The job row: what is left of a row that was read, and what backs it.    *)

Started == {"RUNNING", "SUCCEEDED", "FAILED"}

\* A row that was read some time ago, as far as it still tells of the row there is now.
IsCopy(row, latest) ==
  /\ row.version <= latest.version
  /\ row.version = latest.version => row = latest
  /\ StageIndex(row.stage) <= StageIndex(latest.stage)
  /\ IsTerminal(row) => IsTerminal(latest)
  /\ row.status \in Started => latest.status \in Started

\* One write of a row.
Advances(old, new) ==
  \/ new = old
  \/ /\ new.version = old.version + 1
     /\ StageIndex(old.stage) <= StageIndex(new.stage)
     /\ IsTerminal(old) => IsTerminal(new)
     /\ old.status \in Started => new.status \in Started

LEMMA StageIndexes ==
  /\ \A stage \in JobStages : StageIndex(stage) \in 0 .. 6
  /\ StageIndex("ENQUEUE") = 0 /\ StageIndex("DISCOVERY") = 1 /\ StageIndex("COST_ANALYSIS") = 2
  /\ StageIndex("SECURITY_ANALYSIS") = 3 /\ StageIndex("GOVERNANCE_ANALYSIS") = 4
  /\ StageIndex("FINALIZING") = 5 /\ StageIndex("COMPLETE") = 6
BY DEF JobStages, StageIndex

LEMMA CopyOfItself ==
  ASSUME NEW row \in JobRecord
  PROVE  IsCopy(row, row)
BY StageIndexes DEF IsCopy, JobRecord

LEMMA CopyStays ==
  ASSUME NEW row \in JobRecord, NEW old \in JobRecord, NEW new \in JobRecord,
         IsCopy(row, old), Advances(old, new)
  PROVE  IsCopy(row, new)
<1>1. /\ StageIndex(row.stage) \in Nat /\ StageIndex(old.stage) \in Nat
      /\ StageIndex(new.stage) \in Nat
      /\ row.version \in Nat /\ old.version \in Nat
  BY StageIndexes DEF JobRecord
<1> QED BY <1>1 DEF IsCopy, Advances

\* A job row that does not exist is empty, and one that no worker has claimed has run no
\* stage.
RowShape ==
  \A j \in Jobs :
    /\ jobs[j].version = 0 => jobs[j] = NoJob
    /\ jobs[j].status \in {"NONE", "QUEUED"} => jobs[j].stage = "ENQUEUE"

\* Every row an invocation or a replica holds is a copy.
Copies ==
  /\ \A j \in Jobs : IsCopy(jobsReplica[j], jobs[j])
  /\ \A w \in Workers :
       /\ Live(w) => IsCopy(mine[w], jobs[JobOf(w)]) /\ IsCopy(current[w], jobs[JobOf(w)])
       /\ ~Live(w) => mine[w] = NoJob /\ current[w] = NoJob

PipelineLabels ==
  {"stage", "claimRead", "claimWrite", "resume", "execute", "after", "advance", "project",
   "build", "save", "finish"}

\* What an invocation knows at the accesses of the pipeline.
PipelineOK ==
  \A w \in Workers :
    /\ pc[w] \in PipelineLabels => current[w].status = "RUNNING"
    /\ pc[w] = "advance" /\ current[w].stage \in RunStages => StageProofIsComplete(runs[RunKey(w)])
    /\ pc[w] = "finish" => reports[JobOf(w)].saved

JobInv == FenceInv /\ RowShape /\ Copies /\ PipelineOK /\ StageHasEvidence

(* The five writes of a job row. *)

Written(j, row) == (jobs')[j] = [row EXCEPT !.version = @ + 1]

RowClaimed(w, j) ==
  /\ pc[w] = "claim" /\ jobs[j] = mine[w] /\ jobs[j].status = "QUEUED"
  /\ Written(j, [jobs[j] EXCEPT !.status = "RUNNING", !.stage = "DISCOVERY"])

RowFailed(w, j) ==
  /\ pc[w] \in {"reject", "fail", "exhaust"} /\ jobs[j] = mine[w]
  /\ Written(j, [jobs[j] EXCEPT !.status = "FAILED"])

RowAdvanced(w, j) ==
  /\ pc[w] = "advance" /\ jobs[j] = current[w]
  /\ Written(j, [jobs[j] EXCEPT !.stage = NextStage(@)])

RowFinished(w, j) ==
  /\ pc[w] = "finish" /\ jobs[j] = current[w]
  /\ Written(j, [jobs[j] EXCEPT !.status = "SUCCEEDED", !.stage = "COMPLETE"])

RowRetried(w, j) ==
  /\ pc[w] = "retrying" /\ jobs[j] = mine[w]
  /\ Written(j, [jobs[j] EXCEPT !.retryCount = @ + 1])

RowWritten(w, j) ==
  \/ RowClaimed(w, j) \/ RowFailed(w, j) \/ RowAdvanced(w, j) \/ RowFinished(w, j)
  \/ RowRetried(w, j)

Writes(w) ==
  Reject(w) \/ Fail(w) \/ Exhaust(w) \/ Claim(w) \/ Advance(w) \/ Finish(w) \/ Retrying(w)

LEMMA LiveJob ==
  ASSUME JobInv, NEW w \in Workers
  PROVE  /\ JobOf(w) \in Jobs /\ jobs[JobOf(w)] \in JobRecord
         /\ mine[w] \in JobRecord /\ current[w] \in JobRecord
BY ReadTypes DEF JobInv, FenceInv, TypeInv, TypeOK, LocalTypeOK

\* A write whose version matches is made on the row that was read.
LEMMA WorkerWrites ==
  ASSUME JobInv, NEW w \in Workers, Writes(w)
  PROVE  /\ \A j \in Jobs \ {JobOf(w)} : (jobs')[j] = jobs[j]
         /\ (jobs')[JobOf(w)] = jobs[JobOf(w)] \/ RowWritten(w, JobOf(w))
<1> DEFINE j == JobOf(w)
<1>1. j \in Jobs /\ jobs[j] \in JobRecord /\ mine[w] \in JobRecord /\ current[w] \in JobRecord
  BY LiveJob
<1>2. jobs \in [Jobs -> JobRecord]
  BY DEF JobInv, FenceInv, TypeInv, TypeOK, TableTypeOK
<1>3. Live(w) /\ (VersionMatches(j, mine[w]) => jobs[j] = mine[w])
      /\ (VersionMatches(j, current[w]) => jobs[j] = current[w])
  BY DEF JobInv, Copies, IsCopy, VersionMatches, Live, Writes, Reject, Fail, Exhaust,
         MarkTerminalFailure, Claim, Advance, Finish, Retrying
<1>4. CASE Reject(w) \/ Fail(w) \/ Exhaust(w)
  <2>1. CASE UNCHANGED jobs
    BY <2>1
  <2>2. CASE VersionMatches(j, mine[w])
             /\ UpdateJob(j, [jobs[j] EXCEPT !.status = "FAILED", !.stage = mine[w].stage])
    <3>1. [jobs[j] EXCEPT !.status = "FAILED", !.stage = mine[w].stage] =
            [jobs[j] EXCEPT !.status = "FAILED"]
      BY <1>1, <1>3, <2>2 DEF JobRecord
    <3> QED BY <1>1, <1>2, <1>3, <1>4, <2>2, <3>1
            DEF UpdateJob, Reject, Fail, Exhaust, MarkTerminalFailure, RowWritten, RowFailed, Written
  <2> QED BY <1>4, <2>1, <2>2 DEF Reject, Fail, Exhaust, MarkTerminalFailure, tableVars
<1>5. CASE Claim(w)
  <2>1. CASE UNCHANGED jobs
    BY <2>1
  <2>2. CASE /\ VersionMatches(j, mine[w]) /\ mine[w].status = "QUEUED"
             /\ UpdateJob(j, [jobs[j] EXCEPT !.status = "RUNNING", !.stage = "DISCOVERY"])
    BY <1>1, <1>2, <1>3, <1>5, <2>2 DEF UpdateJob, Claim, RowWritten, RowClaimed, Written
  <2> QED BY <1>5, <2>1, <2>2 DEF Claim, tableVars
<1>6. CASE Advance(w)
  <2>1. CASE UNCHANGED jobs
    BY <2>1
  <2>2. CASE VersionMatches(j, current[w])
             /\ UpdateJob(j, [jobs[j] EXCEPT !.stage = NextStage(current[w].stage),
                                             !.status = current[w].status])
    <3>1. [jobs[j] EXCEPT !.stage = NextStage(current[w].stage), !.status = current[w].status] =
            [jobs[j] EXCEPT !.stage = NextStage(@)]
      BY <1>1, <1>3, <2>2 DEF JobRecord
    <3> QED BY <1>1, <1>2, <1>3, <1>6, <2>2, <3>1
            DEF UpdateJob, Advance, RowWritten, RowAdvanced, Written
  <2> QED BY <1>6, <2>1, <2>2 DEF Advance, tableVars
<1>7. CASE Finish(w)
  <2>1. CASE UNCHANGED jobs
    BY <2>1
  <2>2. CASE VersionMatches(j, current[w])
             /\ UpdateJob(j, [jobs[j] EXCEPT !.status = "SUCCEEDED", !.stage = "COMPLETE"])
    BY <1>1, <1>2, <1>3, <1>7, <2>2 DEF UpdateJob, Finish, RowWritten, RowFinished, Written
  <2> QED BY <1>7, <2>1, <2>2 DEF Finish, tableVars
<1>8. CASE Retrying(w)
  <2>1. CASE UNCHANGED jobs
    BY <2>1
  <2>2. CASE VersionMatches(j, mine[w])
             /\ UpdateJob(j, [jobs[j] EXCEPT !.retryCount = mine[w].retryCount + 1])
    <3>1. [jobs[j] EXCEPT !.retryCount = mine[w].retryCount + 1] =
            [jobs[j] EXCEPT !.retryCount = @ + 1]
      BY <1>1, <1>3, <2>2 DEF JobRecord
    <3> QED BY <1>1, <1>2, <1>3, <1>8, <2>2, <3>1
            DEF UpdateJob, Retrying, RowWritten, RowRetried, Written
  <2> QED BY <1>8, <2>1, <2>2 DEF Retrying, tableVars
<1> QED BY <1>4, <1>5, <1>6, <1>7, <1>8 DEF Writes

\* A row changes in one of the five ways only, and one row at a time.
LEMMA RowsAreWritten ==
  ASSUME JobInv, [Next]_vars, NEW j \in Jobs
  PROVE  (jobs')[j] = jobs[j] \/ \E w \in Workers : JobOf(w) = j /\ RowWritten(w, j)
<1>1. CASE UNCHANGED jobs
  BY <1>1
<1>2. CASE \E w \in Workers : Writes(w)
  BY <1>2, WorkerWrites
<1>3. UNCHANGED jobs \/ \E w \in Workers : Writes(w)
  BY DEF Next, vars, tableVars, WorkerStep, Writes, Load, Verify, Reload, Latest, Stage,
         ClaimRead, ClaimWrite, Resume, Execute, After, Project, Build, Save, Ack,
         RepositoryFault, Die, Receive, Redrive, ChangeAccount, CatchUpJob, ReplicateJob,
         CatchUpRun, Tick
<1> QED BY <1>1, <1>2, <1>3

LEMMA RowsAdvance ==
  ASSUME JobInv, [Next]_vars, NEW j \in Jobs
  PROVE  Advances(jobs[j], (jobs')[j])
<1>1. CASE (jobs')[j] = jobs[j]
  BY <1>1 DEF Advances
<1>2. ASSUME NEW w \in Workers, JobOf(w) = j, RowWritten(w, j)
      PROVE  Advances(jobs[j], (jobs')[j])
  <2>1. jobs[j] \in JobRecord
    BY DEF JobInv, FenceInv, TypeInv, TypeOK, TableTypeOK
  <2> DEFINE old == jobs[j]
             new == (jobs')[j]
  <2>2. StageIndex(old.stage) \in 0 .. 6 /\ old.version \in Nat
    BY <2>1, StageIndexes DEF JobRecord
  <2>3. CASE RowClaimed(w, j)
    <3>1. old.stage = "ENQUEUE" /\ old.status = "QUEUED"
      BY <2>3 DEF RowClaimed, JobInv, RowShape
    <3>2. new.status = "RUNNING" /\ new.stage = "DISCOVERY" /\ new.version = old.version + 1
      BY <2>1, <2>3 DEF RowClaimed, Written, JobRecord
    <3> QED BY <3>1, <3>2, StageIndexes DEF Advances, IsTerminal, Started
  <2>4. CASE RowFailed(w, j)
    <3>1. new.status = "FAILED" /\ new.stage = old.stage /\ new.version = old.version + 1
      BY <2>1, <2>4 DEF RowFailed, Written, JobRecord
    <3> QED BY <3>1, <2>2 DEF Advances, IsTerminal, Started
  <2>5. CASE RowAdvanced(w, j)
    <3>1. /\ new.status = old.status /\ new.stage = NextStage(old.stage)
          /\ new.version = old.version + 1
      BY <2>1, <2>5 DEF RowAdvanced, Written, JobRecord
    <3>2. old.stage \in RunStages \union {"GOVERNANCE_ANALYSIS"}
      BY <2>5 DEF RowAdvanced, JobInv, FenceInv, TypeInv, PcOK
    <3>3. StageIndex(old.stage) <= StageIndex(NextStage(old.stage))
      BY <3>2, StageIndexes DEF NextStage, RunStages
    <3> QED BY <3>1, <3>3 DEF Advances, IsTerminal
  <2>6. CASE RowFinished(w, j)
    <3>1. new.status = "SUCCEEDED" /\ new.stage = "COMPLETE" /\ new.version = old.version + 1
      BY <2>1, <2>6 DEF RowFinished, Written, JobRecord
    <3> QED BY <3>1, <2>2, StageIndexes DEF Advances, IsTerminal, Started
  <2>7. CASE RowRetried(w, j)
    <3>1. new.status = old.status /\ new.stage = old.stage /\ new.version = old.version + 1
      BY <2>1, <2>7 DEF RowRetried, Written, JobRecord
    <3> QED BY <3>1, <2>2 DEF Advances, IsTerminal
  <2> QED BY <1>2, <2>3, <2>4, <2>5, <2>6, <2>7 DEF RowWritten
<1> QED BY <1>1, <1>2, RowsAreWritten

-----------------------------------------------------------------------------
(* What a step leaves alone.                                               *)

Acts(w) ==
  WorkerStep(w) \/ RepositoryFault(w) \/ Die(w) \/ \E m \in Messages : Receive(w, m)

Environment ==
  \/ \E m \in Messages : Redrive(m)
  \/ ChangeAccount \/ (\E j \in Jobs : CatchUpJob(j)) \/ (\E k \in RunKeys : CatchUpRun(k))
  \/ Tick \/ UNCHANGED vars

LEMMA Actors ==
  ASSUME [Next]_vars
  PROVE  Environment \/ \E w \in Workers : Acts(w)
BY DEF Next, Environment, Acts

LEMMA ActsFrame ==
  ASSUME NEW w \in Workers, Acts(w)
  PROVE  /\ UNCHANGED queue \/ Ack(w) \/ \E m \in Messages : Receive(w, m)
         /\ UNCHANGED reports \/ Save(w)
         /\ UNCHANGED runs \/ ClaimWrite(w) \/ Execute(w)
         /\ UNCHANGED jobsReplica
         /\ UNCHANGED verified
<1>1. CASE Load(w) \/ Verify(w) \/ Claim(w) \/ Reload(w) \/ Latest(w)
  BY <1>1 DEF Load, Verify, Claim, Reload, Latest, UpdateJob, tableVars, queueVars, workVars, runVars
<1>2. CASE Reject(w) \/ Exhaust(w) \/ Fail(w)
  BY <1>2 DEF Reject, Exhaust, Fail, MarkTerminalFailure, UpdateJob, tableVars, queueVars, workVars, runVars
<1>3. CASE Stage(w) \/ ClaimRead(w) \/ ClaimWrite(w) \/ Resume(w) \/ Execute(w) \/ After(w)
  BY <1>3 DEF Stage, ClaimRead, ClaimWrite, Resume, Execute, After, tableVars, queueVars, workVars, runVars
<1>4. CASE Advance(w) \/ Project(w) \/ Build(w) \/ Save(w) \/ Finish(w)
  BY <1>4 DEF Advance, Project, Build, Save, Finish, UpdateJob, tableVars, queueVars, workVars, runVars
<1>5. CASE Retrying(w)
  BY <1>5 DEF Retrying, UpdateJob, tableVars, queueVars, workVars, runVars
<1>6. CASE Ack(w) \/ RepositoryFault(w) \/ Die(w) \/ \E m \in Messages : Receive(w, m)
  BY <1>6 DEF Ack, RepositoryFault, Die, Receive, tableVars, queueVars, workVars, runVars
<1> QED BY <1>1, <1>2, <1>3, <1>4, <1>5, <1>6 DEF Acts, WorkerStep

LEMMA EnvironmentFrame ==
  ASSUME Environment
  PROVE  /\ UNCHANGED <<jobs, reports, pc, held, mine, current, resume, snapshot>>
         /\ UNCHANGED queue \/ Tick \/ \E m \in Messages : Redrive(m)
         /\ \/ UNCHANGED jobsReplica
            \/ \E j \in Jobs : jobsReplica' = [jobsReplica EXCEPT ![j] = jobs[j]]
         /\ UNCHANGED runs \/ Tick
         /\ UNCHANGED verified \/ AccountChanges
BY DEF Environment, Redrive, ChangeAccount, CatchUpJob, ReplicateJob, CatchUpRun, ReplicateRun, Tick,
       vars, tableVars, queueVars, workVars, runVars, localVars

\* The job of a message never changes, and the reports that are saved stay.
LEMMA QueueJobsStay ==
  ASSUME TypeInv, [Next]_vars
  PROVE  \A m \in Messages : (queue')[m].job = queue[m].job
<1>1. CASE UNCHANGED queue
  BY <1>1
<1>2. CASE \E w \in Workers, m \in Messages : Receive(w, m)
  BY <1>2 DEF Receive, ReceiveMessage, ReceiveVisible, ReceiveDuplicate, Delivered, TypeInv, TypeOK,
              QueueTypeOK
<1>3. CASE \E m \in Messages : Redrive(m)
  BY <1>3 DEF Redrive, DeadLetter, TypeInv, TypeOK, QueueTypeOK
<1>4. CASE Tick
  BY <1>4 DEF Tick, AgedQueue, TypeInv, TypeOK, QueueTypeOK
<1>5. CASE \E w \in Workers : Ack(w)
  BY <1>5 DEF Ack, DeleteMessage, TypeInv, TypeOK, QueueTypeOK, LocalTypeOK
<1>6. \/ UNCHANGED queue \/ Tick \/ \E m \in Messages : Redrive(m)
      \/ \E w \in Workers, m \in Messages : Receive(w, m)
      \/ \E w \in Workers : Ack(w)
  BY Actors, ActsFrame, EnvironmentFrame
<1> QED BY <1>1, <1>2, <1>3, <1>4, <1>5, <1>6

LEMMA ReportsStay ==
  ASSUME TypeInv, [Next]_vars, NEW j \in Jobs
  PROVE  \/ (reports')[j] = reports[j]
         \/ /\ ~reports[j].saved
            /\ \E w \in Workers : /\ pc[w] = "save" /\ JobOf(w) = j
                                  /\ (reports')[j] = [saved |-> TRUE, saw |-> snapshot[w]]
<1>1. CASE UNCHANGED reports
  BY <1>1
<1>2. CASE \E w \in Workers : Save(w)
  BY <1>2, ReadTypes DEF Save, TypeInv, TypeOK
<1>3. UNCHANGED reports \/ \E w \in Workers : Save(w)
  BY Actors, ActsFrame, EnvironmentFrame
<1> QED BY <1>1, <1>2, <1>3

\* The memory of the invocations that do not act.
SameMemory(v) ==
  /\ (pc')[v] = pc[v] /\ (held')[v] = held[v]
  /\ (mine')[v] = mine[v] /\ (current')[v] = current[v]
  /\ (resume')[v] = resume[v] /\ (snapshot')[v] = snapshot[v]

LEMMA LeaveMemory ==
  ASSUME TypeInv, NEW w \in Workers, Leave(w)
  PROVE  /\ (pc')[w] = "idle" /\ (mine')[w] = NoJob /\ (current')[w] = NoJob
         /\ \A v \in Workers \ {w} : SameMemory(v)
BY DEF Leave, Goto, TypeInv, TypeOK, LocalTypeOK, SameMemory

LEMMA GotoMoves ==
  ASSUME TypeInv, NEW w \in Workers, NEW label, Goto(w, label)
  PROVE  (pc')[w] = label /\ \A v \in Workers \ {w} : (pc')[v] = pc[v]
BY DEF Goto, TypeInv, TypeOK, LocalTypeOK

LEMMA OthersKeepMemory ==
  ASSUME TypeInv, NEW w \in Workers, Acts(w), NEW v \in Workers \ {w}
  PROVE  SameMemory(v)
<1>1. CASE Leave(w)
  BY <1>1, LeaveMemory
<1>2. CASE /\ \E label : Goto(w, label)
           /\ UNCHANGED held \/ \E m : held' = [held EXCEPT ![w] = m]
           /\ UNCHANGED mine \/ \E row : mine' = [mine EXCEPT ![w] = row]
           /\ UNCHANGED current \/ \E row : current' = [current EXCEPT ![w] = row]
           /\ UNCHANGED resume \/ \E n : resume' = [resume EXCEPT ![w] = n]
           /\ UNCHANGED snapshot \/ \E s : snapshot' = [snapshot EXCEPT ![w] = s]
  BY <1>2, GotoMoves DEF SameMemory, TypeInv, TypeOK, LocalTypeOK
<1>3. CASE Leave(w) \/ Load(w) \/ Verify(w) \/ Reject(w) \/ Exhaust(w) \/ Fail(w) \/ Claim(w)
           \/ Reload(w) \/ Latest(w)
  BY <1>1, <1>2, <1>3
     DEF Load, Verify, Reject, Exhaust, Fail, MarkTerminalFailure, Claim, Reload, Latest, localVars
<1>4. CASE Stage(w) \/ ClaimRead(w) \/ ClaimWrite(w) \/ Resume(w) \/ Execute(w) \/ After(w)
  BY <1>1, <1>2, <1>4 DEF Stage, ClaimRead, ClaimWrite, Resume, Execute, After, localVars
<1>5. CASE Advance(w) \/ Project(w) \/ Build(w) \/ Save(w) \/ Finish(w)
  BY <1>1, <1>2, <1>5 DEF Advance, Project, Build, Save, Finish, localVars
<1>6. CASE Retrying(w) \/ Ack(w) \/ RepositoryFault(w) \/ Die(w)
           \/ \E m \in Messages : Receive(w, m)
  BY <1>1, <1>2, <1>6 DEF Retrying, Ack, RepositoryFault, Die, Receive, localVars
<1> QED BY <1>3, <1>4, <1>5, <1>6 DEF Acts, WorkerStep

LEMMA SomeoneActs ==
  ASSUME TypeInv, [Next]_vars
  PROVE  (\A v \in Workers : SameMemory(v)) \/ \E w \in Workers : Acts(w)
BY Actors, EnvironmentFrame DEF SameMemory

\* An invocation holds no row but those it held and those that a read or a write gives it.
RowsOf(v) == {mine[v], current[v], jobs[JobOf(v)], jobsReplica[JobOf(v)], (jobs')[JobOf(v)]}

LEMMA LocalSources ==
  ASSUME JobInv, [Next]_vars, NEW v \in Workers
  PROVE  \/ (pc')[v] = "idle" /\ (mine')[v] = NoJob /\ (current')[v] = NoJob
         \/ /\ pc[v] = "idle" /\ (pc')[v] # "idle"
            /\ (mine')[v] = NoJob /\ (current')[v] = NoJob
         \/ /\ pc[v] # "idle" /\ (pc')[v] # "idle" /\ (held')[v] = held[v]
            /\ (mine')[v] \in RowsOf(v) /\ (current')[v] \in RowsOf(v)
<1> USE DEF RowsOf
<1>0. TypeInv
  BY DEF JobInv, FenceInv
<1>1. CASE SameMemory(v)
  BY <1>1 DEF SameMemory, JobInv, Copies, Live
<1>2. CASE Acts(v)
  <2>0. /\ mine \in [Workers -> JobRecord] /\ current \in [Workers -> JobRecord]
        /\ held \in [Workers -> Messages]
    BY <1>0 DEF TypeInv, TypeOK, LocalTypeOK
  <2>1. CASE Leave(v)
    BY <2>1, <1>0, LeaveMemory
  <2>2. CASE \E m \in Messages : Receive(v, m)
    BY <2>2, <1>0, GotoMoves DEF Receive, JobInv, Copies, Live
  <2>3. CASE /\ \E label \in Labels \ {"idle"} : pc[v] # "idle" /\ Goto(v, label)
             /\ UNCHANGED held
             /\ UNCHANGED mine \/ \E row \in RowsOf(v) : mine' = [mine EXCEPT ![v] = row]
             /\ UNCHANGED current \/ \E row \in RowsOf(v) : current' = [current EXCEPT ![v] = row]
    BY <2>3, <2>0, <1>0, GotoMoves
  <2>4. CASE Load(v) \/ Verify(v) \/ Reject(v) \/ Exhaust(v) \/ Fail(v) \/ Claim(v)
             \/ Reload(v) \/ Latest(v)
    BY <2>1, <2>3, <2>4
       DEF Load, Verify, Reject, Exhaust, Fail, MarkTerminalFailure, Claim, Reload, Latest,
           localVars, GetJob, Labels
  <2>5. CASE Stage(v) \/ ClaimRead(v) \/ ClaimWrite(v) \/ Resume(v) \/ Execute(v) \/ After(v)
    BY <2>1, <2>3, <2>5
       DEF Stage, ClaimRead, ClaimWrite, Resume, Execute, After, localVars, Labels
  <2>6. CASE Advance(v) \/ Project(v) \/ Build(v) \/ Save(v) \/ Finish(v)
    BY <2>1, <2>3, <2>6 DEF Advance, AfterWrite, Project, Build, Save, Finish, localVars, Labels
  <2>7. CASE Retrying(v) \/ Ack(v) \/ RepositoryFault(v) \/ Die(v)
    BY <2>1, <2>3, <2>7 DEF Retrying, Ack, RepositoryFault, Die, localVars, Labels
  <2> QED BY <1>2, <2>2, <2>4, <2>5, <2>6, <2>7 DEF Acts, WorkerStep
<1> QED BY <1>0, <1>1, <1>2, SomeoneActs, OthersKeepMemory

LEMMA CopiesNext ==
  ASSUME JobInv, [Next]_vars
  PROVE  Copies'
<1>0. TypeInv /\ TypeInv'
  BY TypeNext DEF JobInv, FenceInv
<1>1. /\ jobs \in [Jobs -> JobRecord] /\ jobsReplica \in [Jobs -> JobRecord]
      /\ jobs' \in [Jobs -> JobRecord]
  BY <1>0 DEF TypeInv, TypeOK, TableTypeOK
<1>2. ASSUME NEW row \in JobRecord, NEW j \in Jobs, IsCopy(row, jobs[j])
      PROVE  IsCopy(row, (jobs')[j])
  BY <1>1, <1>2, RowsAdvance, CopyStays
<1>3. ASSUME NEW j \in Jobs PROVE IsCopy((jobsReplica')[j], (jobs')[j])
  <2>1. (jobsReplica')[j] = jobsReplica[j] \/ (jobsReplica')[j] = jobs[j]
    <3>1. \/ UNCHANGED jobsReplica
          \/ \E i \in Jobs : jobsReplica' = [jobsReplica EXCEPT ![i] = jobs[i]]
      BY Actors, ActsFrame, EnvironmentFrame
    <3> QED BY <3>1, <1>1
  <2>2. IsCopy(jobsReplica[j], jobs[j]) /\ IsCopy(jobs[j], jobs[j])
    BY <1>1, CopyOfItself DEF JobInv, Copies
  <2> QED BY <2>1, <2>2, <1>1, <1>2
<1>4. ASSUME NEW w \in Workers
      PROVE  /\ Live(w)' => /\ IsCopy((mine')[w], (jobs')[JobOf(w)'])
                            /\ IsCopy((current')[w], (jobs')[JobOf(w)'])
             /\ ~Live(w)' => (mine')[w] = NoJob /\ (current')[w] = NoJob
  <2>1. CASE (pc')[w] = "idle" /\ (mine')[w] = NoJob /\ (current')[w] = NoJob
    BY <2>1 DEF Live
  <2>2. CASE /\ pc[w] = "idle" /\ (pc')[w] # "idle"
             /\ (mine')[w] = NoJob /\ (current')[w] = NoJob
    <3>1. JobOf(w)' \in Jobs
      BY <1>0, ReadTypes DEF TypeInv, TypeOK, LocalTypeOK, QueueTypeOK, JobOf
    <3>2. \A j \in Jobs : IsCopy(NoJob, jobs[j])
      <4>1. ASSUME NEW j \in Jobs PROVE IsCopy(NoJob, jobs[j])
        <5>1. jobs[j] \in JobRecord /\ (jobs[j].version = 0 => jobs[j] = NoJob)
          BY <1>1 DEF JobInv, RowShape
        <5> QED BY <5>1, StageIndexes DEF IsCopy, NoJob, JobRecord, IsTerminal, Started
      <4> QED BY <4>1
    <3> QED BY <2>2, <3>1, <3>2, <1>2, InitialValues DEF Live
  <2>3. CASE /\ pc[w] # "idle" /\ (pc')[w] # "idle" /\ (held')[w] = held[w]
             /\ (mine')[w] \in RowsOf(w) /\ (current')[w] \in RowsOf(w)
    <3>1. JobOf(w)' = JobOf(w) /\ JobOf(w) \in Jobs
      BY <2>3, <1>0, QueueJobsStay, ReadTypes DEF JobOf, TypeInv, TypeOK, LocalTypeOK
    <3>2. ASSUME NEW row \in RowsOf(w) PROVE IsCopy(row, (jobs')[JobOf(w)])
      <4>1. /\ IsCopy(mine[w], jobs[JobOf(w)]) /\ IsCopy(current[w], jobs[JobOf(w)])
            /\ IsCopy(jobsReplica[JobOf(w)], jobs[JobOf(w)])
        BY <2>3, <3>1 DEF JobInv, Copies, Live
      <4>2. mine[w] \in JobRecord /\ current[w] \in JobRecord
        BY <1>0 DEF TypeInv, TypeOK, LocalTypeOK
      <4> QED BY <3>1, <3>2, <4>1, <4>2, <1>1, <1>2, CopyOfItself DEF RowsOf
    <3> QED BY <2>3, <3>1, <3>2 DEF Live
  <2> QED BY <2>1, <2>2, <2>3, LocalSources
<1> QED BY <1>3, <1>4 DEF Copies

-----------------------------------------------------------------------------
(* What backs the stage of a job.                                          *)

\* How a run row moves: it ages, is claimed, or is completed by its owner.
LEMMA RunsMove ==
  ASSUME FenceInv, [Next]_vars, NEW k \in RunKeys
  PROVE  \/ (runs')[k] \in {runs[k], AgedRun(runs[k])}
         \/ StageProofRequiresExecutionClaim(runs[k]) /\ (runs')[k].status = "RUNNING"
         \/ /\ runs[k].status = "RUNNING"
            /\ \E w \in Workers : Execute(w) /\ RunKey(w) = k
<1>0. runs \in [RunKeys -> RunRecord]
  BY DEF FenceInv, TypeInv, TypeOK, RunTableTypeOK
<1>1. CASE UNCHANGED runs
  BY <1>1
<1>2. ASSUME NEW w \in Workers, ClaimWrite(w)
      PROVE  \/ (runs')[k] = runs[k]
             \/ StageProofRequiresExecutionClaim(runs[k]) /\ (runs')[k].status = "RUNNING"
  <2>1. /\ UNCHANGED runs \/ runs' = [runs EXCEPT ![RunKey(w)] = ClaimedRun(@, plan[w])]
        /\ UNCHANGED runs \/ StageProofRequiresExecutionClaim(runs[RunKey(w)])
    BY <1>2 DEF ClaimWrite, FenceInv, Fence, PlanIsSafe
  <2> QED BY <2>1, <1>0 DEF ClaimedRun
<1>3. ASSUME NEW w \in Workers, Execute(w)
      PROVE  \/ (runs')[k] = runs[k]
             \/ RunKey(w) = k /\ runs[k].status = "RUNNING"
  <2>1. runs[RunKey(w)].status = "RUNNING"
    BY <1>3 DEF Execute, Owner, FenceInv, Fence, OwnerIsFenced
  <2>2. UNCHANGED runs \/ \E row : runs' = [runs EXCEPT ![RunKey(w)] = row]
    BY <1>3 DEF Execute
  <2> QED BY <2>1, <2>2, <1>0
<1>4. CASE Tick
  BY <1>4 DEF Tick, AgeRuns
<1>5. \/ UNCHANGED runs
      \/ \E w \in Workers : ClaimWrite(w) \/ Execute(w)
      \/ Tick
  BY Actors, ActsFrame, EnvironmentFrame
<1> QED BY <1>1, <1>2, <1>3, <1>4, <1>5

\* A run that is complete or failed for good stays so.
LEMMA SettledRunsStay ==
  ASSUME FenceInv, [Next]_vars, NEW k \in RunKeys,
         ClassifyRun(runs[k]) \in {"complete", "failed_permanent"}
  PROVE  ClassifyRun((runs')[k]) = ClassifyRun(runs[k])
<1>1. runs[k] \in RunRecord
  BY DEF FenceInv, TypeInv, TypeOK, RunTableTypeOK
<1>2. runs[k].status # "RUNNING" /\ ~StageProofRequiresExecutionClaim(runs[k])
  BY <1>1 DEF ClassifyRun, RunRecord, RunStatuses, CompleteStatuses, StageProofRequiresExecutionClaim,
              Claimable
<1>3. (runs')[k] \in {runs[k], AgedRun(runs[k])}
  BY <1>2, RunsMove
<1>4. AgedRun(runs[k]).status = runs[k].status /\ AgedRun(runs[k]).retryable = runs[k].retryable
  BY <1>1 DEF AgedRun, RunRecord
<1> QED BY <1>1, <1>2, <1>3, <1>4 DEF ClassifyRun, RunRecord, RunStatuses, CompleteStatuses

\* How an invocation comes to the accesses of the pipeline.
LEMMA PipelineMoves ==
  ASSUME JobInv, NEW w \in Workers, Acts(w), (pc')[w] \in PipelineLabels
  PROVE  /\ \/ pc[w] \in PipelineLabels /\ (current')[w] = current[w]
            \/ (pc')[w] = "stage" /\ (current')[w].status = "RUNNING"
         /\ (pc')[w] = "advance" =>
              /\ UNCHANGED <<runs, queue, held, current>>
              /\ current[w].stage \in RunStages => StageProofIsComplete(runs[RunKey(w)])
         /\ (pc')[w] = "finish" => UNCHANGED <<queue, held>> /\ (reports')[JobOf(w)].saved
<1>0. /\ TypeInv /\ (pc')[w] # "idle"
      /\ current \in [Workers -> JobRecord]
      /\ reports \in [Jobs -> Reports] /\ JobOf(w) \in Jobs
  BY ReadTypes DEF JobInv, FenceInv, TypeInv, TypeOK, LocalTypeOK, PipelineLabels
<1>1. CASE Load(w) \/ Verify(w) \/ Reject(w) \/ Exhaust(w) \/ Fail(w) \/ Claim(w) \/ Reload(w)
           \/ Retrying(w) \/ Ack(w) \/ RepositoryFault(w) \/ Die(w)
           \/ \E m \in Messages : Receive(w, m)
  <2>1. \E label \in Labels \ PipelineLabels : Goto(w, label)
    BY <1>1 DEF Load, Verify, Reject, Exhaust, Fail, MarkTerminalFailure, Claim, Reload, Retrying,
                Ack, RepositoryFault, Die, Receive, Leave, Labels, PipelineLabels
  <2> QED BY <2>1, <1>0, GotoMoves
<1>2. CASE Latest(w)
  BY <1>0, <1>2, GotoMoves DEF Latest, PipelineLabels
<1>3. CASE Stage(w)
  BY <1>0, <1>3, GotoMoves
     DEF Stage, StageProof, StageProofIsComplete, RunKey, PipelineLabels, queueVars, workVars, runVars,
         localVars
<1>4. CASE ClaimRead(w) \/ ClaimWrite(w) \/ Resume(w) \/ Execute(w)
  <2>1. pc[w] \in PipelineLabels /\ UNCHANGED current
    BY <1>4 DEF ClaimRead, ClaimWrite, Resume, Execute, PipelineLabels, localVars
  <2>2. \E label \in Labels \ {"advance", "finish"} : Goto(w, label)
    BY <1>4 DEF ClaimRead, ClaimWrite, Resume, Execute, Labels
  <2> QED BY <1>0, <2>1, <2>2, GotoMoves
<1>5. CASE After(w)
  BY <1>0, <1>5, GotoMoves DEF After, PipelineLabels, queueVars, workVars, runVars, localVars
<1>6. CASE Advance(w)
  <2>1. pc[w] = "advance" /\ current[w].status = "RUNNING"
    BY <1>6 DEF Advance, JobInv, PipelineOK, PipelineLabels
  <2>2. (pc')[w] = "stage"
    BY <1>0, <1>6, GotoMoves DEF Advance, AfterWrite, PipelineLabels
  <2>3. current' = [current EXCEPT ![w] = (jobs')[JobOf(w)]]
    BY <1>0, <1>6, <2>2, GotoMoves DEF Advance
  <2>4. (jobs')[JobOf(w)] =
          [[jobs[JobOf(w)] EXCEPT !.stage = NextStage(current[w].stage),
                                  !.status = current[w].status] EXCEPT !.version = @ + 1]
    BY <1>0, <1>6, <2>2, GotoMoves DEF Advance, UpdateJob, TypeInv, TypeOK, TableTypeOK
  <2>5. jobs[JobOf(w)] \in JobRecord
    BY <1>0 DEF TypeInv, TypeOK, TableTypeOK
  <2> QED BY <1>0, <2>1, <2>2, <2>3, <2>4, <2>5 DEF JobRecord
<1>7. CASE Project(w) \/ Save(w)
  BY <1>0, <1>7, GotoMoves DEF Project, Save, PipelineLabels, queueVars, workVars, localVars, Reports
<1>8. CASE Build(w) \/ Finish(w)
  BY <1>0, <1>8, GotoMoves DEF Build, Finish, AfterWrite, PipelineLabels, localVars
<1> QED BY <1>1, <1>2, <1>3, <1>4, <1>5, <1>6, <1>7, <1>8 DEF Acts, WorkerStep

LEMMA PipelineNext ==
  ASSUME JobInv, [Next]_vars
  PROVE  PipelineOK'
<1>0. TypeInv /\ FenceInv
  BY DEF JobInv, FenceInv
<1>1. ASSUME NEW w \in Workers
      PROVE  /\ (pc')[w] \in PipelineLabels => (current')[w].status = "RUNNING"
             /\ (pc')[w] = "advance" /\ (current')[w].stage \in RunStages =>
                  StageProofIsComplete((runs')[RunKey(w)'])
             /\ (pc')[w] = "finish" => (reports')[JobOf(w)'].saved
  <2>1. CASE SameMemory(w)
    <3>1. JobOf(w)' = JobOf(w) /\ RunKey(w)' = RunKey(w) /\ JobOf(w) \in Jobs
      BY <2>1, <1>0, QueueJobsStay, ReadTypes
         DEF SameMemory, JobOf, RunKey, TypeInv, TypeOK, LocalTypeOK
    <3>2. (reports)[JobOf(w)].saved => (reports')[JobOf(w)].saved
      BY <1>0, <3>1, ReportsStay
    <3>3. current[w].stage \in RunStages => RunKey(w) \in RunKeys
      BY <3>1 DEF RunKey, RunKeys
    <3> QED BY <2>1, <1>0, <3>1, <3>2, <3>3, CompletedRunStays DEF SameMemory, JobInv, PipelineOK
  <2>2. CASE Acts(w) /\ (pc')[w] \in PipelineLabels
    <3>1. (current')[w].status = "RUNNING"
      BY <2>2, PipelineMoves DEF JobInv, PipelineOK
    <3>2. ASSUME (pc')[w] = "advance", (current')[w].stage \in RunStages
          PROVE  StageProofIsComplete((runs')[RunKey(w)'])
      BY <2>2, <3>2, PipelineMoves DEF RunKey, JobOf
    <3>3. ASSUME (pc')[w] = "finish" PROVE (reports')[JobOf(w)'].saved
      BY <2>2, <3>3, PipelineMoves DEF JobOf
    <3> QED BY <3>1, <3>2, <3>3
  <2>3. CASE (pc')[w] \notin PipelineLabels
    BY <2>3 DEF PipelineLabels
  <2> QED BY <1>0, <2>1, <2>2, <2>3, SomeoneActs, OthersKeepMemory
<1> QED BY <1>1 DEF PipelineOK

LEMMA RowShapeNext ==
  ASSUME JobInv, [Next]_vars
  PROVE  RowShape'
<1>1. ASSUME NEW j \in Jobs
      PROVE  /\ (jobs')[j].version = 0 => (jobs')[j] = NoJob
             /\ (jobs')[j].status \in {"NONE", "QUEUED"} => (jobs')[j].stage = "ENQUEUE"
  <2>1. CASE (jobs')[j] = jobs[j]
    BY <2>1 DEF JobInv, RowShape
  <2>2. ASSUME NEW w \in Workers, RowWritten(w, j)
        PROVE  /\ (jobs')[j].version = 0 => (jobs')[j] = NoJob
               /\ (jobs')[j].status \in {"NONE", "QUEUED"} => (jobs')[j].stage = "ENQUEUE"
    <3>1. jobs[j] \in JobRecord
      BY DEF JobInv, FenceInv, TypeInv, TypeOK, TableTypeOK
    <3>2. RowAdvanced(w, j) => jobs[j].status = "RUNNING"
      BY DEF RowAdvanced, JobInv, PipelineOK, PipelineLabels
    <3>3. (jobs')[j].version = jobs[j].version + 1
      BY <2>2, <3>1
         DEF RowWritten, RowClaimed, RowFailed, RowAdvanced, RowFinished, RowRetried, Written, JobRecord
    <3>4. \/ (jobs')[j].status \in Started
          \/ (jobs')[j].status = jobs[j].status /\ (jobs')[j].stage = jobs[j].stage
      BY <2>2, <3>1, <3>2
         DEF RowWritten, RowClaimed, RowFailed, RowAdvanced, RowFinished, RowRetried, Written,
             JobRecord, Started
    <3> QED BY <3>1, <3>3, <3>4 DEF JobInv, RowShape, JobRecord, Started
  <2> QED BY <2>1, <2>2, RowsAreWritten
<1> QED BY <1>1 DEF RowShape

LEMMA EvidenceNext ==
  ASSUME JobInv, [Next]_vars
  PROVE  StageHasEvidence'
<1> DEFINE Backed(j, row) ==
      /\ row.status = "SUCCEEDED" => row.stage = "COMPLETE"
      /\ row.stage = "COMPLETE" => (reports')[j].saved
      /\ \A s \in RunStages :
           StageIndex(row.stage) > StageIndex(s) => StageProofIsComplete((runs')[<<j, s>>])
<1>0. TypeInv /\ FenceInv
  BY DEF JobInv, FenceInv
<1>1. ASSUME NEW j \in Jobs PROVE Backed(j, jobs[j])
  <2>1. \A s \in RunStages : StageProofIsComplete(runs[<<j, s>>]) =>
          StageProofIsComplete((runs')[<<j, s>>])
    BY <1>0, CompletedRunStays DEF RunKeys
  <2>2. reports[j].saved => (reports')[j].saved
    BY <1>0, ReportsStay
  <2> QED BY <2>1, <2>2 DEF JobInv, StageHasEvidence
<1>2. ASSUME NEW j \in Jobs, NEW w \in Workers, JobOf(w) = j, RowWritten(w, j)
      PROVE  Backed(j, (jobs')[j])
  <2>0. jobs[j] \in JobRecord
    BY <1>0 DEF TypeInv, TypeOK, TableTypeOK
  <2>1. CASE RowClaimed(w, j)
    <3>1. (jobs')[j].status = "RUNNING" /\ (jobs')[j].stage = "DISCOVERY"
      BY <2>0, <2>1 DEF RowClaimed, Written, JobRecord
    <3> QED BY <3>1, StageIndexes DEF RunStages
  <2>2. CASE RowFailed(w, j) \/ RowRetried(w, j)
    <3>1. /\ (jobs')[j].status \in {"FAILED", jobs[j].status}
          /\ (jobs')[j].stage = jobs[j].stage
      BY <2>0, <2>2 DEF RowFailed, RowRetried, Written, JobRecord
    <3> QED BY <3>1, <1>1
  <2>3. CASE RowAdvanced(w, j)
    <3>1. /\ (jobs')[j].status = jobs[j].status /\ (jobs')[j].stage = NextStage(jobs[j].stage)
      BY <2>0, <2>3 DEF RowAdvanced, Written, JobRecord
    <3>2. /\ pc[w] = "advance" /\ jobs[j] = current[w] /\ jobs[j].status = "RUNNING"
          /\ jobs[j].stage \in RunStages \union {"GOVERNANCE_ANALYSIS"}
      BY <2>3 DEF RowAdvanced, JobInv, PipelineOK, PipelineLabels, FenceInv, TypeInv, PcOK
    <3>3. jobs[j].stage \in RunStages => StageProofIsComplete((runs')[<<j, jobs[j].stage>>])
      <4>1. jobs[j].stage \in RunStages => StageProofIsComplete(runs[<<j, jobs[j].stage>>])
        BY <1>2, <3>2 DEF JobInv, PipelineOK, RunKey
      <4> QED BY <4>1, <1>0, CompletedRunStays DEF RunKeys
    <3>4. ASSUME NEW s \in RunStages, StageIndex((jobs')[j].stage) > StageIndex(s)
          PROVE  StageProofIsComplete((runs')[<<j, s>>])
      <4>1. StageIndex(jobs[j].stage) > StageIndex(s) \/ s = jobs[j].stage
        BY <3>1, <3>2, <3>4, StageIndexes DEF NextStage, RunStages
      <4> QED BY <4>1, <3>3, <1>1
    <3>5. (jobs')[j].stage # "COMPLETE" /\ (jobs')[j].status # "SUCCEEDED"
      BY <3>1, <3>2 DEF NextStage, RunStages
    <3> QED BY <3>4, <3>5
  <2>4. CASE RowFinished(w, j)
    <3>1. (jobs')[j].status = "SUCCEEDED" /\ (jobs')[j].stage = "COMPLETE"
      BY <2>0, <2>4 DEF RowFinished, Written, JobRecord
    <3>2. reports[j].saved /\ jobs[j].stage = "FINALIZING"
      BY <1>2, <2>4 DEF RowFinished, JobInv, PipelineOK, FenceInv, TypeInv, PcOK
    <3>3. (reports')[j].saved
      BY <3>2, <1>0, ReportsStay
    <3>4. \A s \in RunStages : StageProofIsComplete((runs')[<<j, s>>])
      <4>1. \A s \in RunStages : StageIndex("FINALIZING") > StageIndex(s)
        BY StageIndexes DEF RunStages
      <4> QED BY <4>1, <3>2, <1>1
    <3> QED BY <3>1, <3>3, <3>4
  <2> QED BY <1>2, <2>1, <2>2, <2>3, <2>4 DEF RowWritten
<1>3. \A j \in Jobs : Backed(j, (jobs')[j])
  <2> HIDE DEF Backed
  <2> QED BY <1>1, <1>2, RowsAreWritten
<1> QED BY <1>3 DEF StageHasEvidence

LEMMA JobInvInit == Init => JobInv
<1> SUFFICES ASSUME Init PROVE JobInv
  OBVIOUS
<1>1. FenceInv
  BY TypeInit, FenceInit DEF FenceInv
<1>2. ASSUME NEW j \in Jobs
      PROVE  /\ jobs[j] \in JobRecord /\ jobs[j].version # 0 /\ jobs[j].status = "QUEUED"
             /\ jobs[j].stage = "ENQUEUE" /\ jobsReplica[j] = jobs[j]
  <2>1. /\ jobs[j] = [CreatedJob EXCEPT !.queueStatus = "ENQUEUED", !.version = 2]
        /\ jobsReplica[j] = jobs[j]
    BY DEF Init
  <2>2. jobs[j] \in JobRecord
    BY <1>1 DEF FenceInv, TypeInv, TypeOK, TableTypeOK
  <2> QED BY <2>1, <2>2 DEF CreatedJob
<1>3. \A w \in Workers : pc[w] = "idle" /\ mine[w] = NoJob /\ current[w] = NoJob
  BY DEF Init, WorkerInit
<1>4. RowShape
  <2>1. \A j \in Jobs : jobs[j].version # 0 /\ jobs[j].stage = "ENQUEUE"
    BY <1>2
  <2> QED BY <2>1 DEF RowShape
<1>5. Copies
  BY <1>1, <1>2, <1>3, CopyOfItself DEF Copies, Live, FenceInv, TypeInv, TypeOK, TableTypeOK
<1>6. PipelineOK
  BY <1>3 DEF PipelineOK, PipelineLabels
<1>7. StageHasEvidence
  <2>1. \A s \in RunStages : ~(StageIndex("ENQUEUE") > StageIndex(s))
    BY StageIndexes DEF RunStages
  <2> QED BY <1>2, <2>1 DEF StageHasEvidence
<1> QED BY <1>1, <1>4, <1>5, <1>6, <1>7 DEF JobInv

LEMMA JobInvNext == JobInv /\ [Next]_vars => JobInv'
<1> SUFFICES ASSUME JobInv, [Next]_vars PROVE JobInv'
  OBVIOUS
<1>1. FenceInv'
  BY FenceNext DEF JobInv
<1> QED BY <1>1, RowShapeNext, CopiesNext, PipelineNext, EvidenceNext DEF JobInv

LEMMA JobInvHolds == Spec => []JobInv
<1>1. Init => JobInv
  BY JobInvInit
<1>2. JobInv /\ [Next]_vars => JobInv'
  BY JobInvNext
<1> QED BY <1>1, <1>2, PTL DEF Spec

\* Whatever interleaving, retry or takeover led there, a job's stage says no more than its
\* rows prove: processValidatedMessage and advanceStage write a stage only over the row
\* they read, after the stage's proof and, at the end, the report.
THEOREM StagesHaveEvidence == Spec => []StageHasEvidence
<1>1. JobInv => StageHasEvidence
  BY DEF JobInv
<1> QED BY <1>1, JobInvHolds, PTL

\* No conditional update made from an old copy of a job moves its stage back or revives a
\* settled job.
THEOREM JobsNeverRestart == Spec => JobNeverRestarts
<1>1. JobInv /\ [Next]_vars =>
        [\A j \in Jobs :
           /\ StageIndex(jobs'[j].stage) >= StageIndex(jobs[j].stage)
           /\ IsTerminal(jobs[j]) => IsTerminal(jobs'[j])]_vars
  <2> SUFFICES ASSUME JobInv, [Next]_vars, NEW j \in Jobs
               PROVE  /\ StageIndex(jobs'[j].stage) >= StageIndex(jobs[j].stage)
                      /\ IsTerminal(jobs[j]) => IsTerminal(jobs'[j])
    OBVIOUS
  <2>1. jobs[j] \in JobRecord
    BY DEF JobInv, FenceInv, TypeInv, TypeOK, TableTypeOK
  <2> QED BY <2>1, RowsAdvance, StageIndexes DEF Advances, JobRecord
<1> QED BY <1>1, JobInvHolds, PTL DEF Spec, JobNeverRestarts

-----------------------------------------------------------------------------
(* Reports.                                                                *)

\* The report that is built while the job is FINALIZING shows every run.
ReportInv ==
  /\ JobInv
  /\ ReportShowsEveryRun
  /\ \A w \in Workers : pc[w] = "save" => snapshot[w] = RunStages

LEMMA FinalizingHasRuns ==
  ASSUME JobInv, NEW w \in Workers, pc[w] \in {"project", "build", "save", "finish"}
  PROVE  \A s \in RunStages : StageProofIsComplete(runs[<<JobOf(w), s>>])
<1>1. current[w].stage = "FINALIZING" /\ IsCopy(current[w], jobs[JobOf(w)])
  BY DEF JobInv, Copies, Live, FenceInv, TypeInv, PcOK
<1>2. JobOf(w) \in Jobs /\ StageIndex(jobs[JobOf(w)].stage) >= 5
  BY <1>1, LiveJob, StageIndexes DEF IsCopy, JobRecord
<1>3. \A s \in RunStages : StageIndex(s) \in 1 .. 3
  BY StageIndexes DEF RunStages
<1>4. StageIndex(jobs[JobOf(w)].stage) \in Nat
  BY LiveJob, StageIndexes DEF JobRecord
<1> QED BY <1>2, <1>3, <1>4 DEF JobInv, StageHasEvidence

LEMMA ReportInvNext ==
  ASSUME "runs" \notin StaleTables, ReportInv, [Next]_vars
  PROVE  ReportInv'
<1>0. JobInv /\ TypeInv /\ snapshot \in [Workers -> SUBSET RunStages]
  BY DEF ReportInv, JobInv, FenceInv, TypeInv, TypeOK, LocalTypeOK
<1>1. JobInv'
  BY <1>0, JobInvNext
<1>2. ReportShowsEveryRun'
  <2>1. ASSUME NEW j \in Jobs, (reports')[j].saved PROVE (reports')[j].saw = RunStages
    <3>1. CASE (reports')[j] = reports[j]
      BY <2>1, <3>1 DEF ReportInv, ReportShowsEveryRun
    <3>2. ASSUME NEW w \in Workers, pc[w] = "save",
                 (reports')[j] = [saved |-> TRUE, saw |-> snapshot[w]]
          PROVE  (reports')[j].saw = RunStages
      BY <3>2 DEF ReportInv
    <3> QED BY <1>0, <3>1, <3>2, ReportsStay
  <2> QED BY <2>1 DEF ReportShowsEveryRun
<1>3. ASSUME NEW w \in Workers, (pc')[w] = "save" PROVE (snapshot')[w] = RunStages
  <2>1. CASE SameMemory(w)
    BY <2>1, <1>3 DEF SameMemory, ReportInv
  <2>2. CASE Acts(w)
    <3>1. Build(w)
      <4>1. Build(w) \/ \E label \in Labels \ {"save"} : Goto(w, label)
        <5>1. CASE Load(w) \/ Verify(w) \/ Reject(w) \/ Exhaust(w) \/ Fail(w) \/ Claim(w)
                   \/ Reload(w) \/ Latest(w)
          BY <5>1 DEF Load, Verify, Reject, Exhaust, Fail, MarkTerminalFailure, Claim, Reload,
                      Latest, Leave, Labels
        <5>2. CASE Stage(w) \/ ClaimRead(w) \/ ClaimWrite(w) \/ Resume(w) \/ Execute(w) \/ After(w)
          BY <5>2 DEF Stage, ClaimRead, ClaimWrite, Resume, Execute, After, Labels
        <5>3. CASE Advance(w) \/ Project(w) \/ Save(w) \/ Finish(w)
          BY <5>3 DEF Advance, AfterWrite, Project, Save, Finish, Labels
        <5>4. CASE Retrying(w) \/ Ack(w) \/ RepositoryFault(w) \/ Die(w)
                   \/ \E m \in Messages : Receive(w, m)
          BY <5>4 DEF Retrying, Ack, RepositoryFault, Die, Receive, Leave, Labels
        <5> QED BY <2>2, <5>1, <5>2, <5>3, <5>4 DEF Acts, WorkerStep
      <4> QED BY <4>1, <1>0, <1>3, GotoMoves
    <3>2. \A s \in RunStages : StageProofIsComplete(runs[<<JobOf(w), s>>])
      BY <3>1, <1>0, FinalizingHasRuns DEF Build
    <3>3. (snapshot')[w] = {s \in RunStages : StageProofIsComplete(runs[<<JobOf(w), s>>])}
      BY <3>1, <1>0 DEF Build
    <3> QED BY <3>2, <3>3
  <2> QED BY <1>0, <2>1, <2>2, SomeoneActs, OthersKeepMemory
<1> QED BY <1>1, <1>2, <1>3 DEF ReportInv

\* When the reads of the run tables do not lag, the one report of a job is built from
\* complete runs only: no interleaving lets buildReport run before the last stage.
THEOREM ReportsShowEveryRun ==
  ASSUME "runs" \notin StaleTables
  PROVE  Spec => []ReportShowsEveryRun
<1>1. Init => ReportInv
  <2> SUFFICES ASSUME Init PROVE ReportInv
    OBVIOUS
  <2>1. \A w \in Workers : pc[w] = "idle"
    BY DEF Init, WorkerInit
  <2>2. ReportShowsEveryRun
    BY DEF Init, WorkInit, NoReport, ReportShowsEveryRun
  <2> QED BY <2>1, <2>2, JobInvInit DEF ReportInv
<1>2. ReportInv /\ [Next]_vars => ReportInv'
  BY ReportInvNext
<1>3. ReportInv => ReportShowsEveryRun
  BY DEF ReportInv
<1> QED BY <1>1, <1>2, <1>3, PTL DEF Spec

-----------------------------------------------------------------------------
(* Causes of a failure.                                                    *)

\* What is assumed of the environment: the account connection stays VERIFIED, and every
\* table access and appendEvent succeeds in the end.
Steady == ~AccountMayChange /\ "repository" \notin Faults

\* A row of a job that was enqueued.
Real(row) == row.version >= 2 /\ row.status # "NONE"

RowsAreReal ==
  \A j \in Jobs :
    /\ Real(jobs[j]) /\ Real(jobsReplica[j])
    /\ jobs[j].status = "QUEUED" => jobs[j].version = 2

\* Why an invocation is where it is.
CauseOf(w) ==
  /\ pc[w] \notin {"idle", "load"} => Real(mine[w])
  /\ pc[w] # "reject"
  /\ pc[w] \in PipelineLabels \union {"retrying", "exhaust"} => mine[w].status = "RUNNING"
  /\ pc[w] \in PipelineLabels \union {"latest", "fail", "reload"} =>
       jobs[JobOf(w)].status \in Started
  /\ pc[w] = "fail" =>
       /\ mine[w].status \in {"QUEUED", "RUNNING"}
       /\ mine[w].status = "RUNNING" =>
            \E s \in RunStages : ClassifyRun(runs[<<JobOf(w), s>>]) = "failed_permanent"
  /\ pc[w] = "exhaust" => mine[w].retryCount >= MaxReceiveCount

CauseInv ==
  /\ JobInv
  /\ verified
  /\ RowsAreReal
  /\ \A w \in Workers : CauseOf(w)
  /\ FailureIsJustified

LEMMA RowsAreRealNext ==
  ASSUME Steady, CauseInv, [Next]_vars
  PROVE  RowsAreReal'
<1>0. JobInv /\ jobs \in [Jobs -> JobRecord] /\ jobsReplica \in [Jobs -> JobRecord]
  BY DEF CauseInv, JobInv, FenceInv, TypeInv, TypeOK, TableTypeOK
<1>1. ASSUME NEW j \in Jobs
      PROVE  /\ Real((jobs')[j])
             /\ (jobs')[j].status = "QUEUED" => (jobs')[j].version = 2
  <2>1. CASE (jobs')[j] = jobs[j]
    BY <2>1 DEF CauseInv, RowsAreReal
  <2>2. ASSUME NEW w \in Workers, RowWritten(w, j)
        PROVE  Real((jobs')[j]) /\ (jobs')[j].status # "QUEUED"
    <3>1. RowAdvanced(w, j) \/ RowRetried(w, j) => jobs[j].status = "RUNNING"
      BY DEF RowAdvanced, RowRetried, JobInv, PipelineOK, PipelineLabels, CauseInv, CauseOf
    <3>2. CASE RowClaimed(w, j) \/ RowFailed(w, j) \/ RowFinished(w, j)
      <4>1. /\ (jobs')[j].version = jobs[j].version + 1
            /\ (jobs')[j].status \in {"RUNNING", "FAILED", "SUCCEEDED"}
        BY <1>0, <3>2 DEF RowClaimed, RowFailed, RowFinished, Written, JobRecord
      <4> QED BY <1>0, <4>1 DEF CauseInv, RowsAreReal, Real, JobRecord
    <3>3. CASE RowAdvanced(w, j) \/ RowRetried(w, j)
      <4>1. (jobs')[j].version = jobs[j].version + 1 /\ (jobs')[j].status = jobs[j].status
        BY <1>0, <3>3 DEF RowAdvanced, RowRetried, Written, JobRecord
      <4> QED BY <1>0, <3>1, <3>3, <4>1 DEF CauseInv, RowsAreReal, Real, JobRecord
    <3> QED BY <2>2, <3>2, <3>3 DEF RowWritten
  <2> QED BY <1>0, <2>1, <2>2, RowsAreWritten
<1>2. ASSUME NEW j \in Jobs PROVE Real((jobsReplica')[j])
  <2>1. \/ UNCHANGED jobsReplica
        \/ \E i \in Jobs : jobsReplica' = [jobsReplica EXCEPT ![i] = jobs[i]]
    BY Actors, ActsFrame, EnvironmentFrame
  <2> QED BY <2>1, <1>0 DEF CauseInv, RowsAreReal
<1> QED BY <1>1, <1>2 DEF RowsAreReal

\* A cause that is there stays.
LEMMA CauseStays ==
  ASSUME Steady, CauseInv, [Next]_vars, NEW w \in Workers, SameMemory(w)
  PROVE  CauseOf(w)'
<1>0. JobInv /\ FenceInv /\ TypeInv /\ CauseOf(w)
  BY DEF CauseInv, JobInv, FenceInv
<1>1. JobOf(w)' = JobOf(w) /\ JobOf(w) \in Jobs
  BY <1>0, QueueJobsStay, ReadTypes DEF SameMemory, JobOf, TypeInv, TypeOK, LocalTypeOK
<1>2. jobs[JobOf(w)].status \in Started => (jobs')[JobOf(w)].status \in Started
  BY <1>0, <1>1, RowsAdvance DEF Advances
<1>3. \A s \in RunStages : ClassifyRun(runs[<<JobOf(w), s>>]) = "failed_permanent" =>
                           ClassifyRun((runs')[<<JobOf(w), s>>]) = "failed_permanent"
  BY <1>0, <1>1, SettledRunsStay DEF RunKeys
<1> QED BY <1>0, <1>1, <1>2, <1>3 DEF CauseOf, SameMemory

LEMMA CauseOutside ==
  ASSUME Steady, CauseInv, [Next]_vars, NEW w \in Workers,
         \/ Load(w) \/ Verify(w) \/ Reject(w) \/ Exhaust(w) \/ Fail(w) \/ Claim(w) \/ Reload(w)
         \/ Latest(w)
  PROVE  CauseOf(w)'
<1> DEFINE j == JobOf(w)
<1>0. /\ JobInv /\ FenceInv /\ TypeInv /\ CauseOf(w)
      /\ mine \in [Workers -> JobRecord] /\ j \in Jobs /\ jobs \in [Jobs -> JobRecord]
      /\ \A row \in GetJob(j) : Real(row) /\ Exists(row)
      /\ Real(jobs[j])
  <2>1. /\ JobInv /\ FenceInv /\ TypeInv /\ CauseOf(w)
        /\ mine \in [Workers -> JobRecord] /\ j \in Jobs /\ jobs \in [Jobs -> JobRecord]
        /\ jobsReplica \in [Jobs -> JobRecord]
    BY LiveJob DEF CauseInv, JobInv, FenceInv, TypeInv, TypeOK, LocalTypeOK, TableTypeOK
  <2>2. \A row \in JobRecord : Real(row) => Exists(row)
    BY DEF Real, Exists, JobRecord
  <2> QED BY <2>1, <2>2 DEF GetJob, RowsAreReal, CauseInv
<1>1. CASE Leave(w)
  BY <1>0, <1>1, LeaveMemory DEF CauseOf, PipelineLabels
<1>2. CASE Goto(w, "ack") /\ UNCHANGED mine /\ pc[w] \notin {"idle", "load"}
  BY <1>0, <1>2, GotoMoves DEF CauseOf, PipelineLabels
<1>3. CASE Load(w)
  <2>1. PICK row \in GetJob(j) : Exists(row) /\ Goto(w, "verify") /\ mine' = [mine EXCEPT ![w] = row]
    BY <1>0, <1>3 DEF Load
  <2> QED BY <1>0, <2>1, GotoMoves DEF CauseOf, PipelineLabels
<1>4. CASE Verify(w)
  BY <1>0, <1>2, <1>4, GotoMoves DEF Verify, CauseOf, PipelineLabels, CauseInv, localVars
<1>5. CASE Reject(w) \/ Exhaust(w) \/ Fail(w)
  BY <1>1, <1>2, <1>5 DEF Reject, Exhaust, Fail, MarkTerminalFailure, localVars
<1>6. CASE Claim(w)
  <2>1. pc[w] = "claim" /\ JobOf(w)' = j /\ IsCopy(mine[w], jobs[j]) /\ Real(mine[w])
    BY <1>0, <1>6 DEF Claim, JobOf, queueVars, JobInv, Copies, Live, CauseOf
  <2>2. CASE mine[w].status # "QUEUED"
    <3>1. (pc')[w] = "latest" /\ UNCHANGED <<jobs, mine>>
      BY <1>0, <1>6, <2>2, GotoMoves DEF Claim, tableVars
    <3>2. jobs[j].status \in Started
      BY <1>0, <2>1, <2>2 DEF IsCopy, Real, Started, JobRecord, JobStatuses
    <3> QED BY <2>1, <3>1, <3>2 DEF CauseOf, PipelineLabels
  <2>3. CASE mine[w].status = "QUEUED" /\ VersionMatches(j, mine[w])
    <3>1. (jobs')[j] = [[jobs[j] EXCEPT !.status = "RUNNING", !.stage = "DISCOVERY"]
                          EXCEPT !.version = @ + 1]
      BY <1>0, <1>6, <2>3 DEF Claim, UpdateJob
    <3>2. (jobs')[j].status = "RUNNING" /\ Real((jobs')[j])
      BY <1>0, <3>1 DEF JobRecord, Real
    <3>3. (pc')[w] = "latest" /\ (mine')[w] = (jobs')[j]
      BY <1>0, <1>6, <2>3, GotoMoves DEF Claim, Steady
    <3> QED BY <2>1, <3>2, <3>3 DEF CauseOf, PipelineLabels, Started
  <2>4. CASE mine[w].status = "QUEUED" /\ ~VersionMatches(j, mine[w])
    <3>1. (pc')[w] = "reload" /\ UNCHANGED <<jobs, mine>>
      BY <1>0, <1>6, <2>4, GotoMoves DEF Claim, tableVars
    <3>2. jobs[j].status # "QUEUED"
      BY <1>0, <2>1, <2>4 DEF IsCopy, Real, VersionMatches, CauseInv, RowsAreReal, JobRecord
    <3>3. jobs[j].status \in Started
      BY <1>0, <3>2 DEF Started, JobRecord, JobStatuses, Real
    <3> QED BY <2>1, <3>1, <3>3 DEF CauseOf, PipelineLabels
  <2> QED BY <2>2, <2>3, <2>4
<1>7. CASE Reload(w)
  <2>1. PICK row \in GetJob(j) : Exists(row) /\ Goto(w, "latest") /\ mine' = [mine EXCEPT ![w] = row]
    BY <1>0, <1>7 DEF Reload
  <2>2. JobOf(w)' = j /\ UNCHANGED jobs /\ jobs[j].status \in Started
    BY <1>0, <1>7 DEF Reload, JobOf, queueVars, tableVars, CauseOf
  <2> QED BY <1>0, <2>1, <2>2, GotoMoves DEF CauseOf, PipelineLabels
<1>8. CASE Latest(w)
  <2>1. PICK row \in GetJob(j) :
          /\ mine' = [mine EXCEPT ![w] = row]
          /\ \/ Goto(w, "ack")
             \/ row.status = "QUEUED" /\ Goto(w, "fail")
             \/ row.status = "RUNNING" /\ Goto(w, "stage")
    BY <1>0, <1>8 DEF Latest, Steady
  <2>2. JobOf(w)' = j /\ UNCHANGED jobs /\ jobs[j].status \in Started
    BY <1>0, <1>8 DEF Latest, JobOf, queueVars, tableVars, CauseOf
  <2> QED BY <1>0, <2>1, <2>2, GotoMoves DEF CauseOf, PipelineLabels, Started
<1> QED BY <1>3, <1>4, <1>5, <1>6, <1>7, <1>8

\* Where an invocation goes from the accesses of the pipeline.
LEMMA PipelineExits ==
  ASSUME TypeInv, NEW w \in Workers,
         \/ Stage(w) \/ ClaimRead(w) \/ ClaimWrite(w) \/ Resume(w) \/ Execute(w) \/ After(w)
         \/ Advance(w) \/ Project(w) \/ Build(w) \/ Save(w) \/ Finish(w)
  PROVE  \/ Stage(w) /\ (pc')[w] = "fail"
         \/ (pc')[w] \in PipelineLabels \union {"retrying", "ack"}
<1>1. \/ Stage(w) /\ Goto(w, "fail")
      \/ \E label \in PipelineLabels \union {"retrying", "ack"} : Goto(w, label)
  <2>1. CASE Stage(w) \/ ClaimRead(w) \/ ClaimWrite(w) \/ Resume(w) \/ Execute(w) \/ After(w)
    BY <2>1 DEF Stage, ClaimRead, ClaimWrite, Resume, Execute, After, PipelineLabels
  <2>2. CASE Advance(w) \/ Project(w) \/ Build(w) \/ Save(w) \/ Finish(w)
    BY <2>2 DEF Advance, AfterWrite, Project, Build, Save, Finish, PipelineLabels
  <2> QED BY <2>1, <2>2
<1> QED BY <1>1, GotoMoves

LEMMA CauseInside ==
  ASSUME Steady, CauseInv, [Next]_vars, NEW w \in Workers,
         \/ Stage(w) \/ ClaimRead(w) \/ ClaimWrite(w) \/ Resume(w) \/ Execute(w) \/ After(w)
         \/ Advance(w) \/ Project(w) \/ Build(w) \/ Save(w) \/ Finish(w)
  PROVE  CauseOf(w)'
<1> DEFINE j == JobOf(w)
<1>0. /\ JobInv /\ FenceInv /\ TypeInv /\ CauseOf(w) /\ j \in Jobs /\ pc[w] \in PipelineLabels
  BY LiveJob
     DEF CauseInv, JobInv, FenceInv, Stage, ClaimRead, ClaimWrite, Resume, Execute, After, Advance,
         Project, Build, Save, Finish, PipelineLabels
<1>1. JobOf(w)' = j /\ UNCHANGED mine
  BY DEF Stage, ClaimRead, ClaimWrite, Resume, Execute, After, Advance, Project, Build, Save, Finish,
         JobOf, queueVars, localVars
<1>2. (jobs')[j].status \in Started /\ mine[w].status = "RUNNING" /\ Real(mine[w])
  BY <1>0, RowsAdvance DEF CauseOf, Advances, PipelineLabels
<1>3. CASE (pc')[w] \in PipelineLabels \union {"retrying", "ack"}
  BY <1>1, <1>2, <1>3 DEF CauseOf, PipelineLabels
<1>4. CASE Stage(w) /\ (pc')[w] = "fail"
  <2>1. current[w].stage \in RunStages \union {"GOVERNANCE_ANALYSIS"} /\ UNCHANGED runs
    BY <1>0, <1>4, GotoMoves DEF Stage, workVars, runVars
  <2>2. \E s \in RunStages : ClassifyRun(runs[<<j, s>>]) = "failed_permanent"
    <3>1. StageProof(j, IF current[w].stage \in RunStages THEN current[w].stage
                                                           ELSE "SECURITY_ANALYSIS")
            = "failed_permanent"
      BY <1>0, <1>4, GotoMoves DEF Stage
    <3> QED BY <3>1 DEF StageProof, RunStages
  <2> QED BY <1>1, <1>2, <1>4, <2>1, <2>2 DEF CauseOf, PipelineLabels
<1>5. \/ Stage(w) /\ (pc')[w] = "fail"
      \/ (pc')[w] \in PipelineLabels \union {"retrying", "ack"}
  BY <1>0, PipelineExits
<1> QED BY <1>3, <1>4, <1>5

LEMMA CauseEnd ==
  ASSUME Steady, CauseInv, [Next]_vars, NEW w \in Workers,
         Retrying(w) \/ Ack(w) \/ RepositoryFault(w) \/ Die(w) \/ \E m \in Messages : Receive(w, m)
  PROVE  CauseOf(w)'
<1> DEFINE j == JobOf(w)
<1>0. /\ JobInv /\ FenceInv /\ TypeInv /\ CauseOf(w) /\ j \in Jobs /\ jobs \in [Jobs -> JobRecord]
      /\ mine \in [Workers -> JobRecord]
  BY LiveJob DEF CauseInv, JobInv, FenceInv, TypeInv, TypeOK, TableTypeOK, LocalTypeOK
<1>1. CASE Leave(w)
  BY <1>0, <1>1, LeaveMemory DEF CauseOf, PipelineLabels
<1>2. CASE \E m \in Messages : Receive(w, m)
  BY <1>0, <1>2, GotoMoves DEF Receive, CauseOf, PipelineLabels
<1>3. CASE Retrying(w) /\ ~Leave(w)
  <2>1. /\ pc[w] = "retrying" /\ VersionMatches(j, mine[w])
        /\ UpdateJob(j, [jobs[j] EXCEPT !.retryCount = mine[w].retryCount + 1])
        /\ (jobs')[j].retryCount >= MaxReceiveCount
        /\ Goto(w, "exhaust") /\ mine' = [mine EXCEPT ![w] = (jobs')[j]]
    BY <1>3 DEF Retrying
  <2>2. jobs[j] = mine[w] /\ mine[w].status = "RUNNING" /\ Real(mine[w])
    BY <1>0, <2>1 DEF VersionMatches, JobInv, Copies, Live, IsCopy, CauseOf
  <2>3. (jobs')[j] = [[jobs[j] EXCEPT !.retryCount = mine[w].retryCount + 1] EXCEPT !.version = @ + 1]
    BY <1>0, <2>1 DEF UpdateJob
  <2>4. (jobs')[j].status = "RUNNING" /\ Real((jobs')[j])
    BY <1>0, <2>2, <2>3 DEF JobRecord, Real
  <2>5. (pc')[w] = "exhaust" /\ (mine')[w] = (jobs')[j]
    BY <1>0, <2>1, GotoMoves
  <2> QED BY <2>1, <2>4, <2>5 DEF CauseOf, PipelineLabels
<1> QED BY <1>1, <1>2, <1>3 DEF Ack, RepositoryFault, Die, Steady

LEMMA FailuresNext ==
  ASSUME Steady, CauseInv, [Next]_vars
  PROVE  FailureIsJustified'
<1>0. JobInv /\ FenceInv /\ jobs \in [Jobs -> JobRecord] /\ MaxReceiveCount \in Nat
  BY QueueAssumption DEF CauseInv, JobInv, FenceInv, TypeInv, TypeOK, TableTypeOK
<1>1. ASSUME NEW j \in Jobs, (jobs')[j].status = "FAILED"
      PROVE  \/ (jobs')[j].retryCount >= MaxReceiveCount
             \/ \E s \in RunStages : ClassifyRun((runs')[<<j, s>>]) = "failed_permanent"
  <2>1. \A s \in RunStages : ClassifyRun(runs[<<j, s>>]) = "failed_permanent" =>
                             ClassifyRun((runs')[<<j, s>>]) = "failed_permanent"
    BY <1>0, SettledRunsStay DEF RunKeys
  <2>2. CASE (jobs')[j] = jobs[j]
    BY <1>1, <2>1, <2>2 DEF CauseInv, FailureIsJustified
  <2>3. ASSUME NEW w \in Workers, JobOf(w) = j, RowWritten(w, j)
        PROVE  \/ (jobs')[j].retryCount >= MaxReceiveCount
               \/ \E s \in RunStages : ClassifyRun((runs')[<<j, s>>]) = "failed_permanent"
    <3>1. RowAdvanced(w, j) \/ RowRetried(w, j) => jobs[j].status = "RUNNING"
      BY DEF RowAdvanced, RowRetried, JobInv, PipelineOK, PipelineLabels, CauseInv, CauseOf
    <3>2. RowFailed(w, j)
      BY <1>0, <1>1, <2>3, <3>1
         DEF RowWritten, RowClaimed, RowFailed, RowAdvanced, RowFinished, RowRetried, Written, JobRecord
    <3>3. CauseOf(w) /\ pc[w] \in {"fail", "exhaust"} /\ jobs[j] = mine[w]
      BY <3>2 DEF RowFailed, CauseInv, CauseOf
    <3>4. CASE pc[w] = "exhaust"
      <4>1. (jobs')[j].retryCount = jobs[j].retryCount
        BY <1>0, <3>2 DEF RowFailed, Written, JobRecord
      <4> QED BY <3>3, <3>4, <4>1 DEF CauseOf
    <3>5. CASE pc[w] = "fail"
      BY <2>1, <2>3, <3>3, <3>5 DEF CauseOf, PipelineLabels, Started
    <3> QED BY <3>3, <3>4, <3>5
  <2> QED BY <1>0, <2>2, <2>3, RowsAreWritten
<1> QED BY <1>1 DEF FailureIsJustified

LEMMA CauseInvNext ==
  ASSUME Steady, CauseInv, [Next]_vars
  PROVE  CauseInv'
<1>0. TypeInv /\ JobInv
  BY DEF CauseInv, JobInv, FenceInv
<1>1. JobInv'
  BY JobInvNext DEF CauseInv
<1>2. verified'
  BY Actors, ActsFrame, EnvironmentFrame DEF CauseInv, AccountChanges, Steady
<1>3. \A w \in Workers : CauseOf(w)'
  BY <1>0, SomeoneActs, OthersKeepMemory, CauseStays, CauseOutside, CauseInside, CauseEnd
     DEF Acts, WorkerStep
<1> QED BY <1>1, <1>2, <1>3, RowsAreRealNext, FailuresNext DEF CauseInv

LEMMA CauseInvHolds ==
  ASSUME Steady
  PROVE  Spec => []CauseInv
<1>1. Init => CauseInv
  <2> SUFFICES ASSUME Init PROVE CauseInv
    OBVIOUS
  <2>1. JobInv /\ verified
    BY JobInvInit DEF Init, WorkInit
  <2>2. \A w \in Workers : CauseOf(w)
    BY DEF Init, WorkerInit, CauseOf, PipelineLabels
  <2>3. ASSUME NEW j \in Jobs
        PROVE  /\ jobs[j].version = 2 /\ jobs[j].version >= 2 /\ jobs[j].status = "QUEUED"
               /\ jobsReplica[j] = jobs[j]
    <3>1. /\ jobs[j] = [CreatedJob EXCEPT !.queueStatus = "ENQUEUED", !.version = 2]
          /\ jobsReplica[j] = jobs[j]
      BY DEF Init
    <3>2. jobs[j] \in JobRecord
      BY <2>1 DEF JobInv, FenceInv, TypeInv, TypeOK, TableTypeOK
    <3> QED BY <3>1, <3>2 DEF CreatedJob
  <2>4. RowsAreReal /\ FailureIsJustified
    BY <2>3 DEF RowsAreReal, Real, FailureIsJustified
  <2> QED BY <2>1, <2>2, <2>4 DEF CauseInv
<1>2. CauseInv /\ [Next]_vars => CauseInv'
  BY CauseInvNext
<1> QED BY <1>1, <1>2, PTL DEF Spec

\* While the account stays VERIFIED and the tables answer, a job fails only for cause: no
\* stale getJob, lost claim or redelivery makes the worker write FAILED over a job whose
\* runs can still succeed.
THEOREM FailuresAreJustified ==
  ASSUME Steady
  PROVE  Spec => []FailureIsJustified
<1>1. CauseInv => FailureIsJustified
  BY DEF CauseInv
<1> QED BY <1>1, CauseInvHolds, PTL

-----------------------------------------------------------------------------
(* Messages.                                                               *)

RowsExist == \A j \in Jobs : Exists(jobs[j]) /\ Exists(jobsReplica[j])

InHand(j) == \E m \in Messages : queue[m].job = j /\ queue[m].state \in {"sent", "dead"}

\* A message is acknowledged only once its job is settled.
DeliveryInv ==
  /\ JobInv
  /\ RowsExist
  /\ \A w \in Workers : pc[w] = "ack" => IsTerminal(jobs[JobOf(w)])
  /\ \A j \in Jobs : ~IsTerminal(jobs[j]) => InHand(j)

LEMMA RowsExistNext ==
  ASSUME DeliveryInv, [Next]_vars
  PROVE  RowsExist'
<1>0. JobInv /\ jobs \in [Jobs -> JobRecord] /\ jobsReplica \in [Jobs -> JobRecord]
  BY DEF DeliveryInv, JobInv, FenceInv, TypeInv, TypeOK, TableTypeOK
<1>1. ASSUME NEW j \in Jobs PROVE Exists((jobs')[j])
  BY <1>0, RowsAdvance DEF DeliveryInv, RowsExist, Exists, Advances, JobRecord
<1>2. ASSUME NEW j \in Jobs PROVE Exists((jobsReplica')[j])
  <2>1. \/ UNCHANGED jobsReplica
        \/ \E i \in Jobs : jobsReplica' = [jobsReplica EXCEPT ![i] = jobs[i]]
    BY Actors, ActsFrame, EnvironmentFrame
  <2> QED BY <2>1, <1>0 DEF DeliveryInv, RowsExist
<1> QED BY <1>1, <1>2 DEF RowsExist

\* An invocation that saw its job acknowledges the message once the job is settled.
LEMMA AcksAreEarned ==
  ASSUME "accountRead" \notin Faults, JobInv, [Next]_vars, NEW w \in Workers,
         pc[w] = "ack" => IsTerminal(jobs[JobOf(w)]),
         Load(w) => \A row \in GetJob(JobOf(w)) : Exists(row),
         (pc')[w] = "ack"
  PROVE  IsTerminal((jobs')[JobOf(w)'])
<1> DEFINE j == JobOf(w)
<1>0. JobInv /\ TypeInv /\ j \in Jobs /\ jobs[j] \in JobRecord /\ jobs \in [Jobs -> JobRecord]
  BY LiveJob DEF JobInv, FenceInv, TypeInv, TypeOK, TableTypeOK
<1>1. IsTerminal(jobs[j]) => IsTerminal((jobs')[j])
  BY <1>0, RowsAdvance DEF Advances
<1>2. CASE SameMemory(w)
  <2>1. JobOf(w)' = j
    BY <1>0, <1>2, QueueJobsStay DEF SameMemory, JobOf, TypeInv, TypeOK, LocalTypeOK
  <2> QED BY <1>1, <1>2, <2>1 DEF SameMemory
<1>3. CASE Acts(w)
  <2>1. ~ \E label \in Labels \ {"ack"} : Goto(w, label)
    BY <1>0, GotoMoves
  <2>2. CASE Load(w)
    <3>1. \A row \in GetJob(j) : Exists(row)
      BY <2>2
    <3> QED BY <2>1, <2>2, <3>1 DEF Load, Labels
  <2>3. CASE Reject(w) \/ Exhaust(w) \/ Fail(w)
    <3>1. /\ UpdateJob(j, [jobs[j] EXCEPT !.status = "FAILED", !.stage = mine[w].stage])
          /\ UNCHANGED <<held, queue>>
      BY <1>0, <1>3, <2>1, <2>3, LeaveMemory
         DEF Reject, Exhaust, Fail, MarkTerminalFailure, localVars, queueVars
    <3>2. (jobs')[j] = [[jobs[j] EXCEPT !.status = "FAILED", !.stage = mine[w].stage]
                          EXCEPT !.version = @ + 1]
      BY <1>0, <3>1 DEF UpdateJob
    <3> QED BY <1>0, <3>1, <3>2 DEF JobOf, IsTerminal, JobRecord
  <2>4. CASE Latest(w)
    <3>1. mine[w] \in JobRecord /\ jobsReplica[j] \in JobRecord /\ IsCopy(mine[w], jobs[j])
          /\ IsCopy(jobsReplica[j], jobs[j]) /\ IsCopy(jobs[j], jobs[j])
      BY <1>0, <2>4, LiveJob, CopyOfItself
         DEF Latest, JobInv, Copies, Live, FenceInv, TypeInv, TypeOK, TableTypeOK
    <3>2. \E row \in GetJob(j) \union {mine[w]} : IsTerminal(row)
      BY <1>0, <2>1, <2>4 DEF Latest, Labels
    <3>3. UNCHANGED <<jobs, held, queue>>
      BY <2>4 DEF Latest, tableVars, queueVars
    <3> QED BY <3>1, <3>2, <3>3 DEF GetJob, IsCopy, JobOf
  <2>5. CASE Finish(w)
    <3>1. UpdateJob(j, [jobs[j] EXCEPT !.status = "SUCCEEDED", !.stage = "COMPLETE"])
          /\ UNCHANGED <<held, queue>>
      BY <2>1, <2>5 DEF Finish, localVars, queueVars, Labels
    <3>2. (jobs')[j] = [[jobs[j] EXCEPT !.status = "SUCCEEDED", !.stage = "COMPLETE"]
                          EXCEPT !.version = @ + 1]
      BY <1>0, <3>1 DEF UpdateJob
    <3> QED BY <1>0, <3>1, <3>2 DEF JobOf, IsTerminal, JobRecord
  <2>6. CASE Verify(w) \/ Claim(w) \/ Reload(w) \/ Retrying(w) \/ Ack(w) \/ RepositoryFault(w)
             \/ Die(w) \/ \E m \in Messages : Receive(w, m)
    BY <2>1, <2>6 DEF Verify, Claim, Reload, Retrying, Ack, RepositoryFault, Die, Receive, Leave, Labels
  <2>7. CASE Stage(w) \/ ClaimRead(w) \/ ClaimWrite(w) \/ Resume(w) \/ Execute(w) \/ After(w)
             \/ Advance(w) \/ Project(w) \/ Build(w) \/ Save(w)
    BY <2>1, <2>7
       DEF Stage, ClaimRead, ClaimWrite, Resume, Execute, After, Advance, AfterWrite, Project, Build,
           Save, Labels
  <2> QED BY <1>3, <2>2, <2>3, <2>4, <2>5, <2>6, <2>7 DEF Acts, WorkerStep
<1> QED BY <1>0, <1>2, <1>3, SomeoneActs, OthersKeepMemory

\* Only the acknowledgement of its own invocation takes a message away.
LEMMA MessagesStay ==
  ASSUME TypeInv, [Next]_vars, NEW m \in Messages, queue[m].state \in {"sent", "dead"}
  PROVE  \/ (queue')[m].state \in {"sent", "dead"}
         \/ \E w \in Workers : pc[w] = "ack" /\ held[w] = m
<1>1. CASE UNCHANGED queue
  BY <1>1
<1>2. CASE \E w \in Workers, i \in Messages : Receive(w, i)
  BY <1>2 DEF Receive, ReceiveMessage, ReceiveVisible, ReceiveDuplicate, Delivered, TypeInv, TypeOK,
              QueueTypeOK
<1>3. CASE \E i \in Messages : Redrive(i)
  BY <1>3 DEF Redrive, DeadLetter, TypeInv, TypeOK, QueueTypeOK
<1>4. CASE Tick
  BY <1>4 DEF Tick, AgedQueue, TypeInv, TypeOK, QueueTypeOK
<1>5. CASE \E w \in Workers : Ack(w)
  BY <1>5 DEF Ack, DeleteMessage, TypeInv, TypeOK, QueueTypeOK, LocalTypeOK
<1> QED BY <1>1, <1>2, <1>3, <1>4, <1>5, Actors, ActsFrame, EnvironmentFrame

LEMMA DeliveryInvNext ==
  ASSUME "accountRead" \notin Faults, DeliveryInv, [Next]_vars
  PROVE  DeliveryInv'
<1>0. JobInv /\ TypeInv
  BY DEF DeliveryInv, JobInv, FenceInv
<1>1. ASSUME NEW j \in Jobs, ~IsTerminal((jobs')[j]) PROVE InHand(j)'
  <2>1. ~IsTerminal(jobs[j])
    BY <1>0, <1>1, RowsAdvance DEF Advances
  <2>2. PICK m \in Messages : queue[m].job = j /\ queue[m].state \in {"sent", "dead"}
    BY <2>1 DEF DeliveryInv, InHand
  <2>3. \A w \in Workers : pc[w] = "ack" => held[w] # m
    BY <2>1, <2>2 DEF DeliveryInv, JobOf
  <2> QED BY <1>0, <2>2, <2>3, MessagesStay, QueueJobsStay DEF InHand
<1>2. JobInv'
  BY <1>0, JobInvNext
<1>3. ASSUME NEW w \in Workers, (pc')[w] = "ack" PROVE IsTerminal((jobs')[JobOf(w)'])
  <2>1. \A row \in GetJob(JobOf(w)) : Exists(row)
    BY <1>0, LiveJob DEF GetJob, DeliveryInv, RowsExist
  <2> QED BY <1>0, <1>3, <2>1, AcksAreEarned DEF DeliveryInv
<1> QED BY <1>1, <1>2, <1>3, RowsExistNext DEF DeliveryInv

LEMMA DeliveryInvInit == Init => DeliveryInv
<1> SUFFICES ASSUME Init PROVE DeliveryInv
  OBVIOUS
<1>1. JobInv
  BY JobInvInit
<1>2. RowsExist
  <2>1. ASSUME NEW j \in Jobs PROVE jobs[j].version > 0 /\ jobsReplica[j] = jobs[j]
    <3>1. /\ jobs[j] = [CreatedJob EXCEPT !.queueStatus = "ENQUEUED", !.version = 2]
          /\ jobsReplica[j] = jobs[j]
      BY DEF Init
    <3>2. jobs[j] \in JobRecord
      BY <1>1 DEF JobInv, FenceInv, TypeInv, TypeOK, TableTypeOK
    <3> QED BY <3>1, <3>2 DEF CreatedJob
  <2> QED BY <2>1 DEF RowsExist, Exists
<1>3. \A w \in Workers : pc[w] # "ack"
  BY DEF Init, WorkerInit
<1>4. \A j \in Jobs : InHand(j)
  <2>1. PICK job \in [Messages -> Jobs] :
          /\ \A j \in Jobs : \E m \in Messages : job[m] = j
          /\ queue = [m \in Messages |-> SentMessage(job[m])]
    BY DEF Init
  <2>2. ASSUME NEW j \in Jobs PROVE InHand(j)
    <3>1. PICK m \in Messages : job[m] = j
      BY <2>1
    <3>2. queue[m].job = j /\ queue[m].state = "sent"
      BY <2>1, <3>1 DEF SentMessage
    <3> QED BY <3>2 DEF InHand
  <2> QED BY <2>2
<1> QED BY <1>1, <1>2, <1>3, <1>4 DEF DeliveryInv

\* A job that is not settled keeps a message in the queue or in the dead-letter queue: no
\* crash, conflict or stale read makes a batch acknowledge it early, as long as the account
\* read, whose transient errors the code does acknowledge, answers.
THEOREM NoJobIsLost ==
  ASSUME "accountRead" \notin Faults
  PROVE  Spec => []NoJobLost
<1>1. DeliveryInv /\ [Next]_vars => DeliveryInv'
  BY DeliveryInvNext
<1>2. DeliveryInv => NoJobLost
  BY DEF DeliveryInv, InHand, NoJobLost
<1> QED BY <1>1, <1>2, DeliveryInvInit, PTL DEF Spec

-----------------------------------------------------------------------------
(* The worker implements the lifecycle of a job.                           *)

Status == [j \in Jobs |-> jobs[j].status]
Done == [j \in Jobs |-> {s \in RunStages : StageProofIsComplete(runs[<<j, s>>])}]
Reported == [j \in Jobs |-> reports[j].saved]

LEMMA CompleteRows ==
  \A run \in RunRecord : StageProofIsComplete(run) <=> run.status \in CompleteStatuses
BY DEF StageProofIsComplete, ClassifyRun, RunRecord, RunStatuses, CompleteStatuses,
       IsStageExecutionLeaseActive

LEMMA LifecycleInit == Init => Lifecycle!Init
<1> SUFFICES ASSUME Init PROVE Lifecycle!Init
  OBVIOUS
<1>1. Status \in [Jobs -> {"NONE", "QUEUED"}]
  <2>1. \A j \in Jobs : jobs[j] = [CreatedJob EXCEPT !.queueStatus = "ENQUEUED", !.version = 2]
    BY DEF Init
  <2>2. [CreatedJob EXCEPT !.queueStatus = "ENQUEUED", !.version = 2].status = "QUEUED"
    BY DEF CreatedJob
  <2> QED BY <2>1, <2>2 DEF Status
<1>2. Done = [j \in Jobs |-> {}]
  <2>1. \A j \in Jobs, s \in RunStages : runs[<<j, s>>] = NoRun
    BY DEF Init, WorkInit, RunTableInit, RunKeys
  <2>2. ~StageProofIsComplete(NoRun)
    BY InitialValues, CompleteRows DEF CompleteStatuses, NoRun
  <2> QED BY <2>1, <2>2 DEF Done
<1>3. Reported = [j \in Jobs |-> FALSE]
  BY DEF Init, WorkInit, NoReport, Reported
<1> QED BY <1>1, <1>2, <1>3 DEF Lifecycle!Init, Status, Done, Reported

\* All that the lifecycle needs to know of a failure: no job is rejected, and only a job
\* that is not settled is failed.
RunnableJobsFail ==
  \A w \in Workers :
    /\ pc[w] # "reject"
    /\ pc[w] \in {"fail", "exhaust"} => mine[w].status \in {"QUEUED", "RUNNING"}

\* A write of the job row moves the lifecycle, or leaves it where it is.
LEMMA LifecycleWrite ==
  ASSUME JobInv, RunnableJobsFail, NEW w \in Workers, Writes(w)
  PROVE  Lifecycle!Next \/ UNCHANGED <<Status, Done, Reported>>
<1> PICK j \in Jobs : j = JobOf(w)
  BY LiveJob
<1>0. jobs[j] \in JobRecord
  BY LiveJob
<1>1. UNCHANGED <<Done, Reported>>
  <2>1. UNCHANGED <<runs, reports>>
    BY DEF Writes, Reject, Fail, Exhaust, MarkTerminalFailure, Claim, Advance, Finish, Retrying, workVars,
           runVars
  <2> QED BY <2>1 DEF Done, Reported
<1>2. \A i \in Jobs \ {j} : (jobs')[i] = jobs[i]
  BY <1>0, WorkerWrites
<1>3. CASE (jobs')[j].status = jobs[j].status
  <2>1. UNCHANGED Status
    BY <1>2, <1>3 DEF Status
  <2> QED BY <1>1, <2>1
<1>4. Status' = [Status EXCEPT ![j] = (jobs')[j].status] /\ Status[j] = jobs[j].status
  BY <1>0, <1>2 DEF Status
<1>5. CASE RowClaimed(w, j)
  <2>1. jobs[j].status = "QUEUED" /\ (jobs')[j].status = "RUNNING"
    BY <1>0, <1>5 DEF RowClaimed, Written, JobRecord
  <2>2. Lifecycle!Start(j)
    BY <1>1, <1>4, <2>1 DEF Lifecycle!Start, Lifecycle!Move, Status, Done, Reported
  <2> QED BY <1>0, <2>2 DEF Lifecycle!Next
<1>6. CASE RowFailed(w, j)
  <2>1. (jobs')[j].status = "FAILED"
    BY <1>0, <1>6 DEF RowFailed, Written, JobRecord
  <2>2. jobs[j].status \in {"QUEUED", "RUNNING"}
    BY <1>6 DEF RowFailed, RunnableJobsFail
  <2>3. Lifecycle!FailJob(j)
    BY <1>1, <1>4, <2>1, <2>2 DEF Lifecycle!FailJob, Lifecycle!Move, Status, Done, Reported
  <2> QED BY <1>0, <2>3 DEF Lifecycle!Next
<1>7. CASE RowAdvanced(w, j) \/ RowRetried(w, j)
  BY <1>0, <1>3, <1>7 DEF RowAdvanced, RowRetried, Written, JobRecord
<1>8. CASE RowFinished(w, j)
  <2>1. (jobs')[j].status = "SUCCEEDED"
    BY <1>0, <1>8 DEF RowFinished, Written, JobRecord
  <2>2. jobs[j].status = "RUNNING" /\ reports[j].saved
    BY <1>8 DEF RowFinished, JobInv, PipelineOK, PipelineLabels
  <2>3. Lifecycle!Succeed(j)
    BY <1>0, <1>1, <1>4, <2>1, <2>2 DEF Lifecycle!Succeed, Lifecycle!Move, Status, Done, Reported
  <2> QED BY <1>0, <2>3 DEF Lifecycle!Next
<1> QED BY <1>0, <1>3, <1>5, <1>6, <1>7, <1>8, WorkerWrites DEF RowWritten

\* The row of a job that an invocation works on, while a run of it is not complete.
LEMMA NotSucceeded ==
  ASSUME JobInv, NEW w \in Workers, pc[w] \in PipelineLabels,
         ~reports[JobOf(w)].saved \/ \E s \in RunStages : ~StageProofIsComplete(runs[<<JobOf(w), s>>])
  PROVE  jobs[JobOf(w)].status \in {"RUNNING", "FAILED"}
<1>1. JobOf(w) \in Jobs /\ jobs[JobOf(w)].status \in Started
  <2>1. current[w].status = "RUNNING" /\ IsCopy(current[w], jobs[JobOf(w)])
    BY DEF JobInv, PipelineOK, Copies, Live, PipelineLabels
  <2> QED BY <2>1, LiveJob DEF IsCopy, Started
<1>2. \A s \in RunStages : StageIndex("COMPLETE") > StageIndex(s)
  BY StageIndexes DEF RunStages
<1>3. jobs[JobOf(w)].status # "SUCCEEDED"
  BY <1>1, <1>2 DEF JobInv, StageHasEvidence
<1> QED BY <1>1, <1>3 DEF Started

LEMMA LifecycleExecute ==
  ASSUME JobInv, [Next]_vars, NEW w \in Workers, Execute(w)
  PROVE  Lifecycle!Next \/ UNCHANGED <<Status, Done, Reported>>
<1> PICK j \in Jobs, s \in RunStages : j = JobOf(w) /\ s = current[w].stage
  BY LiveJob DEF JobInv, FenceInv, TypeInv, PcOK, Execute
<1>0. /\ FenceInv /\ j \in Jobs /\ s \in RunStages /\ <<j, s>> \in RunKeys
      /\ RunKey(w) = <<j, s>> /\ runs \in [RunKeys -> RunRecord]
  BY LiveJob
     DEF JobInv, FenceInv, TypeInv, PcOK, TypeOK, RunTableTypeOK, Execute, RunKeys, RunKey
<1>1. UNCHANGED <<Status, Reported>>
  <2>1. UNCHANGED <<jobs, reports>>
    BY DEF Execute, tableVars
  <2> QED BY <2>1 DEF Status, Reported
<1>2. \A k \in RunKeys \ {<<j, s>>} : (runs')[k] = runs[k]
  BY <1>0 DEF Execute
<1>3. ~StageProofIsComplete(runs[<<j, s>>])
  <2>1. runs[<<j, s>>].status = "RUNNING"
    BY <1>0 DEF Execute, Owner, FenceInv, Fence, OwnerIsFenced
  <2> QED BY <1>0, <2>1, CompleteRows DEF CompleteStatuses
<1>4. CASE StageProofIsComplete((runs')[<<j, s>>])
  <2>1. Done' = [Done EXCEPT ![j] = @ \union {s}]
    <3>1. ASSUME NEW i \in Jobs
          PROVE  (Done')[i] = IF i = j THEN Done[i] \union {s} ELSE Done[i]
      <4>1. \A r \in RunStages : <<i, r>> # <<j, s>> => (runs')[<<i, r>>] = runs[<<i, r>>]
        BY <1>2 DEF RunKeys
      <4> QED BY <1>0, <1>4, <4>1 DEF Done
    <3>2. Done = [i \in Jobs |-> Done[i]] /\ Done' = [i \in Jobs |-> (Done')[i]]
      BY DEF Done
    <3> QED BY <3>1, <3>2
  <2>2. s \notin Done[j]
    BY <1>0, <1>3 DEF Done
  <2>3. Lifecycle!Before[s] \subseteq Done[j]
    <3>1. IsCopy(current[w], jobs[j]) /\ current[w] \in JobRecord /\ jobs[j] \in JobRecord
      BY <1>0, LiveJob DEF JobInv, Copies, Live, Execute
    <3>2. \A r \in RunStages : StageIndex(s) > StageIndex(r) => StageProofIsComplete(runs[<<j, r>>])
      <4>1. /\ StageIndex(s) <= StageIndex(jobs[j].stage)
            /\ StageIndex(s) \in Nat /\ StageIndex(jobs[j].stage) \in Nat
            /\ \A r \in RunStages : StageIndex(r) \in Nat
        BY <3>1, <1>0, StageIndexes DEF IsCopy, JobRecord, RunStages
      <4>2. \A r \in RunStages : StageIndex(jobs[j].stage) > StageIndex(r) =>
                                   StageProofIsComplete(runs[<<j, r>>])
        BY <1>0 DEF JobInv, StageHasEvidence
      <4> QED BY <4>1, <4>2
    <3>3. \A r \in Lifecycle!Before[s] : r \in RunStages /\ StageIndex(s) > StageIndex(r)
      BY <1>0, StageIndexes DEF Lifecycle!Before, RunStages
    <3> QED BY <1>0, <3>2, <3>3 DEF Done
  <2>4. Status[j] \in {"RUNNING", "FAILED"}
    BY <1>0, <1>3, NotSucceeded DEF Status, Execute, PipelineLabels
  <2>5. Lifecycle!CompleteRun(j, s)
    BY <1>1, <2>1, <2>2, <2>3, <2>4 DEF Lifecycle!CompleteRun, Status, Done, Reported
  <2> QED BY <1>0, <2>5 DEF Lifecycle!Next, Lifecycle!StageRuns, RunStages
<1>5. CASE ~StageProofIsComplete((runs')[<<j, s>>])
  <2>1. \A i \in Jobs, r \in RunStages :
          StageProofIsComplete((runs')[<<i, r>>]) <=> StageProofIsComplete(runs[<<i, r>>])
    <3>1. ASSUME NEW i \in Jobs, NEW r \in RunStages
          PROVE  StageProofIsComplete((runs')[<<i, r>>]) <=> StageProofIsComplete(runs[<<i, r>>])
      <4>1. CASE <<i, r>> = <<j, s>>
        BY <1>3, <1>5, <4>1
      <4>2. CASE <<i, r>> # <<j, s>>
        BY <1>2, <4>2 DEF RunKeys
      <4> QED BY <4>1, <4>2
    <3> QED BY <3>1
  <2>2. UNCHANGED Done
    BY <2>1 DEF Done
  <2> QED BY <1>1, <2>2
<1> QED BY <1>4, <1>5

LEMMA LifecycleSave ==
  ASSUME JobInv, NEW w \in Workers, Save(w)
  PROVE  Lifecycle!Next \/ UNCHANGED <<Status, Done, Reported>>
<1> PICK j \in Jobs : j = JobOf(w)
  BY LiveJob
<1>0. reports \in [Jobs -> Reports]
  BY LiveJob DEF JobInv, FenceInv, TypeInv, TypeOK
<1>1. UNCHANGED <<Status, Done>>
  <2>1. UNCHANGED <<jobs, runs>>
    BY DEF Save, tableVars
  <2> QED BY <2>1 DEF Status, Done
<1>2. CASE UNCHANGED reports
  BY <1>1, <1>2 DEF Reported
<1>3. CASE ~reports[j].saved /\ reports' = [reports EXCEPT ![j] = [saved |-> TRUE, saw |-> snapshot[w]]]
  <2>1. Reported' = [Reported EXCEPT ![j] = TRUE] /\ ~Reported[j]
    BY <1>0, <1>3 DEF Reported
  <2>2. Done[j] = Lifecycle!StageRuns
    <3>1. \A s \in RunStages : StageProofIsComplete(runs[<<j, s>>])
      BY <1>0, FinalizingHasRuns DEF Save
    <3> QED BY <1>0, <3>1 DEF Done, Lifecycle!StageRuns, RunStages
  <2>3. Status[j] \in {"RUNNING", "FAILED"}
    BY <1>0, <1>3, NotSucceeded DEF Status, Save, PipelineLabels
  <2>4. Lifecycle!SaveReport(j)
    BY <1>1, <2>1, <2>2, <2>3 DEF Lifecycle!SaveReport, Status, Done, Reported
  <2> QED BY <1>0, <2>4 DEF Lifecycle!Next
<1> QED BY <1>2, <1>3 DEF Save

LEMMA LifecycleStep ==
  ASSUME JobInv, RunnableJobsFail, [Next]_vars
  PROVE  [Lifecycle!Next]_<<Status, Done, Reported>>
<1>0. FenceInv /\ TypeInv /\ runs \in [RunKeys -> RunRecord]
  BY DEF JobInv, FenceInv, TypeInv, TypeOK, RunTableTypeOK
<1>1. CASE \E w \in Workers : Writes(w) \/ Execute(w) \/ Save(w)
  BY <1>1, LifecycleWrite, LifecycleExecute, LifecycleSave
<1>2. CASE UNCHANGED <<jobs, reports>> /\ ~ \E w \in Workers : Execute(w)
  <2>1. ASSUME NEW k \in RunKeys
        PROVE  StageProofIsComplete((runs')[k]) <=> StageProofIsComplete(runs[k])
    <3>1. CASE StageProofIsComplete(runs[k])
      BY <1>0, <3>1, CompletedRunStays
    <3>2. CASE (runs')[k] \in {runs[k], AgedRun(runs[k])}
      <4>1. AgedRun(runs[k]).status = runs[k].status
        BY <1>0 DEF AgedRun, RunRecord
      <4> QED BY <1>0, <3>2, <4>1, AgedTypes, CompleteRows
    <3>3. CASE (runs')[k].status = "RUNNING" /\ ~StageProofIsComplete(runs[k])
      <4>1. (runs')[k] \in RunRecord
        BY <1>0, TypeNext DEF TypeInv, TypeOK, RunTableTypeOK
      <4> QED BY <3>3, <4>1, CompleteRows DEF CompleteStatuses
    <3> QED BY <1>0, <1>2, <3>1, <3>2, <3>3, RunsMove
  <2>2. UNCHANGED <<Status, Done, Reported>>
    BY <1>2, <2>1 DEF Status, Done, Reported, RunKeys
  <2> QED BY <2>2
<1>3. \/ \E w \in Workers : Writes(w) \/ Execute(w) \/ Save(w)
      \/ UNCHANGED <<jobs, reports>>
  <2>1. ASSUME NEW w \in Workers, Acts(w)
        PROVE  Writes(w) \/ Save(w) \/ UNCHANGED <<jobs, reports>>
    BY <2>1, ActsFrame
       DEF Acts, WorkerStep, Writes, Load, Verify, Reload, Latest, Stage, ClaimRead, ClaimWrite,
           Resume, Execute, After, Project, Build, Ack, RepositoryFault, Die, Receive, tableVars
  <2> QED BY <2>1, Actors, EnvironmentFrame
<1> QED BY <1>1, <1>2, <1>3

\* The worker, with all its messages, leases and retries, implements the lifecycle a job is
\* promised, while the account stays VERIFIED and the tables answer.
THEOREM WorkerImplementsLifecycle ==
  ASSUME Steady
  PROVE  Spec => ImplementsLifecycle
<1>1. CauseInv /\ [Next]_vars => [Lifecycle!Next]_<<Status, Done, Reported>>
  <2>1. CauseInv => JobInv /\ RunnableJobsFail
    BY DEF CauseInv, CauseOf, RunnableJobsFail, PipelineLabels
  <2> QED BY <2>1, LifecycleStep
<1> QED
  BY <1>1, LifecycleInit, CauseInvHolds, PTL
     DEF Spec, ImplementsLifecycle, Lifecycle!Spec, Lifecycle!lifecycleVars, Status, Done, Reported
=============================================================================
