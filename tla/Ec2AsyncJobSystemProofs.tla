----------------------- MODULE Ec2AsyncJobSystemProofs -----------------------
(***************************************************************************)
(* What holds of requests and workers together, for every number of each:  *)
(* the worker's own invariant survives the producer, and what a client is  *)
(* told of its job is true and stays true.                                 *)
(***************************************************************************)
EXTENDS Ec2AsyncJobSystem, Ec2AsyncJobConsumerProofs, WellFoundedInduction

-----------------------------------------------------------------------------
(* The invariant.                                                          *)

\* Job j exists and is of scope sc.
Known(j, sc) == Exists(jobs[j]) /\ scope[j] = sc

\* The job that a request has in hand, or has answered, is of the scope it asks for.
RequestIsSound(r) ==
  /\ rpc[r] = "proof" => Known(ractive[r], rscope[r])
  /\ rpc[r] \in {"queueCheck", "send", "markEnqueued", "markFailed"} => Known(rkey[r], rscope[r])
  /\ answer[r].kind \in {"accepted", "enqueueFailed"} => Known(answer[r].job, rscope[r])

\* An invocation works on a message that was sent, and only jobs that exist are sent.
HeldWereSent == \A w \in Workers : Live(w) => queue[held[w]].state # "unsent"
SentAreReal == \A m \in Messages : queue[m].state # "unsent" => Exists(jobs[queue[m].job])

SystemInv ==
  /\ JobInv /\ ProducerTypeOK
  /\ HeldWereSent /\ SentAreReal
  /\ \A r \in Requests : RequestIsSound(r)

LEMMA SystemTypes ==
  SystemInv =>
    /\ TypeInv /\ jobs \in [Jobs -> JobRecord] /\ jobsReplica \in [Jobs -> JobRecord]
    /\ \A m \in Messages : queue[m].job \in Jobs
    /\ \A j \in Jobs : GetJob(j) \subseteq JobRecord
BY DEF SystemInv, JobInv, FenceInv, TypeInv, TypeOK, TableTypeOK, QueueTypeOK, GetJob

-----------------------------------------------------------------------------
(* The steps of the requests, as the workers see them.                     *)

RequestActs(r) == (RequestStep(r) \/ DieRequest(r)) /\ UNCHANGED workerVars

\* The accesses that write neither a row nor a message.
Quiet(r) ==
  \/ ResolveAccount(r) \/ FindActive(r) \/ Proof(r) \/ Lookup(r) \/ Replay(r) \/ QueueCheck(r)
  \/ DieRequest(r)

LEMMA QuietSteps ==
  ASSUME NEW r \in Requests, Quiet(r)
  PROVE  UNCHANGED <<tableVars, queueVars, scope, listing, requestVars>>
BY DEF Quiet, ResolveAccount, FindActive, Proof, Lookup, Replay, QueueCheck, DieRequest

\* What a request makes of a job row: it creates it, or changes its queue status.
RowRequested(j) ==
  \/ (jobs')[j] = jobs[j]
  \/ jobs[j].version = 0 /\ (jobs')[j] = CreatedJob
  \/ /\ Exists(jobs[j]) /\ (jobs')[j].version = jobs[j].version + 1
     /\ (jobs')[j].stage = jobs[j].stage /\ (jobs')[j].status = jobs[j].status
     /\ (jobs')[j].retryCount = jobs[j].retryCount

LEMMA MarkRow ==
  ASSUME SystemInv, NEW r \in Requests, NEW label \in {"markEnqueued", "markFailed"},
         NEW queueStatus \in QueueStatuses, NEW kind, NEW enqueued, Mark(r, label, queueStatus, kind, enqueued)
  PROVE  /\ jobs' \in [Jobs -> JobRecord] /\ \A j \in Jobs : RowRequested(j)
         /\ \A j \in Jobs : (jobs')[j].queueStatus \in {jobs[j].queueStatus}
              \union (IF j = rkey[r] THEN {queueStatus} ELSE {})
<1>0. jobs \in [Jobs -> JobRecord] /\ rkey[r] \in Jobs
  BY SystemTypes DEF SystemInv, ProducerTypeOK
<1>1. CASE UNCHANGED jobs
  BY <1>0, <1>1 DEF RowRequested
<1>2. CASE UpdateJob(rkey[r], [jobs[rkey[r]] EXCEPT !.queueStatus = queueStatus])
  <2>1. PICK old : old = jobs[rkey[r]]
    OBVIOUS
  <2>2. PICK new : new = [[old EXCEPT !.queueStatus = queueStatus] EXCEPT !.version = @ + 1]
    OBVIOUS
  <2>3. old \in JobRecord
    BY <1>0, <2>1
  <2>4. /\ new \in JobRecord /\ new.version = old.version + 1
        /\ new.stage = old.stage /\ new.status = old.status /\ new.queueStatus = queueStatus
        /\ new.retryCount = old.retryCount
    <3>1. PICK mid : mid = [old EXCEPT !.queueStatus = queueStatus]
      OBVIOUS
    <3>2. /\ mid \in JobRecord /\ mid.version = old.version /\ mid.queueStatus = queueStatus
          /\ mid.stage = old.stage /\ mid.status = old.status /\ mid.retryCount = old.retryCount
      BY <2>3, <3>1 DEF JobRecord
    <3>3. PICK version : version = mid.version + 1
      OBVIOUS
    <3>4. version \in Nat /\ new = [mid EXCEPT !.version = version]
      BY <2>2, <3>1, <3>2, <3>3 DEF JobRecord
    <3>5. /\ new \in JobRecord /\ new.version = version /\ new.queueStatus = mid.queueStatus
          /\ new.stage = mid.stage /\ new.status = mid.status /\ new.retryCount = mid.retryCount
      BY <3>2, <3>4 DEF JobRecord
    <3> QED BY <3>2, <3>3, <3>5
  <2>5. jobs' = [jobs EXCEPT ![rkey[r]] = new]
    BY <1>2, <2>1, <2>2 DEF UpdateJob
  <2>6. /\ (jobs')[rkey[r]] = new
        /\ \A j \in Jobs \ {rkey[r]} : (jobs')[j] = jobs[j]
    BY <1>0, <2>5
  <2>7. Exists(jobs[rkey[r]])
    BY DEF Mark, SystemInv, RequestIsSound, Known
  <2> QED BY <1>0, <2>1, <2>4, <2>5, <2>6, <2>7 DEF RowRequested
<1> QED BY <1>1, <1>2 DEF Mark, tableVars

LEMMA RequestRows ==
  ASSUME SystemInv, NEW r \in Requests, RequestActs(r)
  PROVE  /\ jobs' \in [Jobs -> JobRecord] /\ UNCHANGED jobsReplica
         /\ \A j \in Jobs : RowRequested(j)
<1>0. jobs \in [Jobs -> JobRecord] /\ rkey[r] \in Jobs
  BY SystemTypes DEF SystemInv, ProducerTypeOK
<1>1. CASE Quiet(r) \/ Send(r)
  BY <1>0, <1>1, QuietSteps DEF Send, tableVars, RowRequested
<1>2. CASE Create(r)
  <2>1. UNCHANGED jobsReplica
    BY <1>2 DEF Create
  <2>2. CASE UNCHANGED jobs
    BY <1>0, <2>1, <2>2 DEF RowRequested
  <2>3. CASE ~Exists(jobs[rkey[r]]) /\ jobs' = [jobs EXCEPT ![rkey[r]] = CreatedJob]
    <3>1. jobs[rkey[r]].version = 0
      BY <1>0, <2>3 DEF Exists, JobRecord
    <3> QED BY <1>0, <2>1, <2>3, <3>1, InitialValues DEF RowRequested
  <2> QED BY <1>2, <2>2, <2>3 DEF Create
<1>3. CASE MarkEnqueued(r) \/ MarkFailed(r)
  <2>1. UNCHANGED jobsReplica
    BY <1>3 DEF MarkEnqueued, MarkFailed, Mark, UpdateJob, tableVars
  <2>2. "ENQUEUED" \in QueueStatuses /\ "ENQUEUE_FAILED" \in QueueStatuses
    BY DEF QueueStatuses
  <2> QED BY <1>3, <2>1, <2>2, MarkRow DEF MarkEnqueued, MarkFailed
<1> QED BY <1>1, <1>2, <1>3 DEF RequestActs, RequestStep, Quiet

\* And of the messages: at most one is sent, of the request's own job.
LEMMA RequestMessages ==
  ASSUME SystemInv, NEW r \in Requests, RequestActs(r)
  PROVE  /\ QueueTypeOK(Jobs)'
         /\ \A m \in Messages :
              \/ (queue')[m] = queue[m]
              \/ queue[m].state = "unsent" /\ rpc[r] = "send" /\ (queue')[m] = SentMessage(rkey[r])
<1>0. QueueTypeOK(Jobs) /\ rkey[r] \in Jobs
  BY SystemTypes DEF SystemInv, ProducerTypeOK, TypeInv, TypeOK
<1>1. CASE UNCHANGED queueVars
  BY <1>0, <1>1 DEF queueVars, QueueTypeOK
<1>2. CASE rpc[r] = "send" /\ SendMessage(rkey[r])
  <2>1. PICK unsent : unsent = {m \in Messages : queue[m].state = "unsent"}
    OBVIOUS
  <2>2. PICK n : n = CHOOSE m \in unsent : TRUE
    OBVIOUS
  <2>3. n \in Messages /\ queue[n].state = "unsent"
    BY <1>2, <2>1, <2>2 DEF SendMessage
  <2>4. PICK sent : sent = SentMessage(rkey[r])
    OBVIOUS
  <2>5. queue' = [queue EXCEPT ![n] = sent] /\ UNCHANGED duplicates
    BY <1>2, <2>1, <2>2, <2>4 DEF SendMessage
  <2>6. sent \in [state : MessageStates, job : Jobs, receives : 0 .. MaxReceiveCount,
                  hidden : 0 .. VisibilityTimeout]
    BY <1>0, <2>4, QueueAssumption DEF SentMessage, MessageStates
  <2>7. QueueTypeOK(Jobs)'
    BY <1>0, <2>5, <2>6 DEF QueueTypeOK
  <2>8. \A m \in Messages : (queue')[m] = IF m = n THEN sent ELSE queue[m]
    BY <1>0, <2>5 DEF QueueTypeOK
  <2> QED BY <1>2, <2>3, <2>4, <2>7, <2>8
<1>3. UNCHANGED queueVars \/ (rpc[r] = "send" /\ SendMessage(rkey[r]))
  <2>1. CASE Quiet(r)
    BY <2>1, QuietSteps
  <2>2. CASE Send(r)
    BY <2>2 DEF Send
  <2>3. CASE Create(r) \/ MarkEnqueued(r) \/ MarkFailed(r)
    BY <2>3 DEF Create, MarkEnqueued, MarkFailed, Mark
  <2> QED BY <2>1, <2>2, <2>3 DEF RequestActs, RequestStep, Quiet
<1> QED BY <1>1, <1>2, <1>3

-----------------------------------------------------------------------------
(* The workers' invariant survives the requests.                           *)

LEMMA RequestedRowsAdvance ==
  ASSUME SystemInv, NEW j \in Jobs, RowRequested(j)
  PROVE  Advances(jobs[j], (jobs')[j])
<1>1. jobs[j] \in JobRecord /\ (jobs[j].version = 0 => jobs[j] = NoJob)
  BY SystemTypes DEF SystemInv, JobInv, RowShape
<1>2. CASE jobs[j].version = 0 /\ (jobs')[j] = CreatedJob
  <2>1. jobs[j] = NoJob
    BY <1>1, <1>2
  <2> QED BY <1>2, <2>1, StageIndexes DEF Advances, NoJob, CreatedJob, IsTerminal, Started
<1>3. CASE /\ (jobs')[j].version = jobs[j].version + 1
           /\ (jobs')[j].stage = jobs[j].stage /\ (jobs')[j].status = jobs[j].status
  BY <1>1, <1>3, StageIndexes DEF Advances, IsTerminal, JobRecord
<1> QED BY <1>2, <1>3 DEF RowRequested, Advances

LEMMA LiveJobsStay ==
  ASSUME SystemInv, NEW r \in Requests, RequestActs(r), NEW w \in Workers, Live(w)
  PROVE  JobOf(w)' = JobOf(w) /\ JobOf(w) \in Jobs
<1>1. held[w] \in Messages /\ queue[held[w]].state # "unsent" /\ UNCHANGED held
  BY SystemTypes DEF SystemInv, HeldWereSent, TypeInv, TypeOK, LocalTypeOK, RequestActs, workerVars,
                     localVars
<1>2. (queue')[held[w]] = queue[held[w]]
  BY <1>1, RequestMessages
<1> QED BY <1>1, <1>2, SystemTypes DEF JobOf

LEMMA RequestsKeepTypes ==
  ASSUME SystemInv, NEW r \in Requests, RequestActs(r)
  PROVE  TypeInv'
<1>0. TypeInv
  BY SystemTypes
<1>1. TableTypeOK'
  BY RequestRows, SystemTypes DEF TableTypeOK
<1>2. QueueTypeOK(Jobs)'
  BY RequestMessages
<1>3. RunTableTypeOK' /\ (reports \in [Jobs -> Reports])' /\ (verified \in BOOLEAN)'
      /\ LocalTypeOK' /\ PcOK'
  BY <1>0, UnchangedTypes DEF RequestActs, workerVars, workVars, localVars
<1> QED BY <1>1, <1>2, <1>3 DEF TypeInv, TypeOK

LEMMA RequestsKeepFence ==
  ASSUME SystemInv, NEW r \in Requests, RequestActs(r)
  PROVE  Fence'
<1>0. Fence /\ UNCHANGED <<runs, runsReplica, pc, ttl, held, current, plan>>
  BY DEF SystemInv, JobInv, FenceInv, RequestActs, workerVars, runVars, localVars
<1>1. \A w \in Workers : pc[w] \in {"claimWrite", "resume", "execute"} => RunKey(w)' = RunKey(w)
  BY <1>0, LiveJobsStay DEF RunKey, Live
<1>2. OwnerIsFenced'
  BY <1>0, <1>1 DEF Fence, OwnerIsFenced, Owner
<1>3. OneOwner'
  BY <1>0, <1>1 DEF Fence, OneOwner, Owner
<1>4. PlanIsSafe'
  BY <1>0, <1>1 DEF Fence, PlanIsSafe
<1>5. ReplicaLags' /\ CompleteHasNoLease'
  BY <1>0 DEF Fence, ReplicaLags, CompleteHasNoLease
<1> QED BY <1>2, <1>3, <1>4, <1>5 DEF Fence

LEMMA RequestsKeepRows ==
  ASSUME SystemInv, NEW r \in Requests, RequestActs(r)
  PROVE  RowShape' /\ Copies' /\ StageHasEvidence'
<1>0. jobs \in [Jobs -> JobRecord] /\ jobsReplica \in [Jobs -> JobRecord]
      /\ jobs' \in [Jobs -> JobRecord] /\ UNCHANGED jobsReplica
      /\ \A j \in Jobs : RowRequested(j)
  BY RequestRows, SystemTypes
<1>1. UNCHANGED <<pc, mine, current, reports, runs>>
  BY DEF RequestActs, workerVars, runVars, localVars
<1>2. ASSUME NEW j \in Jobs
      PROVE  /\ (jobs')[j].version = 0 => (jobs')[j] = NoJob
             /\ (jobs')[j].status \in {"NONE", "QUEUED"} => (jobs')[j].stage = "ENQUEUE"
  <2>1. /\ jobs[j] \in JobRecord /\ (jobs[j].version = 0 => jobs[j] = NoJob)
        /\ jobs[j].status \in {"NONE", "QUEUED"} => jobs[j].stage = "ENQUEUE"
    BY <1>0 DEF SystemInv, JobInv, RowShape
  <2>2. RowRequested(j)
    BY <1>0
  <2> QED BY <2>1, <2>2 DEF RowRequested, CreatedJob, JobRecord
<1>3. ASSUME NEW row \in JobRecord, NEW j \in Jobs, IsCopy(row, jobs[j])
      PROVE  IsCopy(row, (jobs')[j])
  <2>1. Advances(jobs[j], (jobs')[j])
    BY <1>0, RequestedRowsAdvance
  <2> QED BY <1>0, <1>3, <2>1, CopyStays
<1>4. \A j \in Jobs : IsCopy((jobsReplica')[j], (jobs')[j])
  BY <1>0, <1>3 DEF SystemInv, JobInv, Copies
<1>5. ASSUME NEW w \in Workers, Live(w)
      PROVE  IsCopy(mine[w], (jobs')[JobOf(w)']) /\ IsCopy(current[w], (jobs')[JobOf(w)'])
  <2>1. JobOf(w)' = JobOf(w) /\ JobOf(w) \in Jobs
    BY <1>5, LiveJobsStay
  <2>2. mine[w] \in JobRecord /\ current[w] \in JobRecord
    BY SystemTypes DEF TypeInv, TypeOK, LocalTypeOK
  <2>3. IsCopy(mine[w], jobs[JobOf(w)]) /\ IsCopy(current[w], jobs[JobOf(w)])
    BY <1>5 DEF SystemInv, JobInv, Copies
  <2> QED BY <1>3, <2>1, <2>2, <2>3
<1>6. Copies'
  BY <1>1, <1>4, <1>5 DEF SystemInv, JobInv, Copies, Live
<1>7. ASSUME NEW j \in Jobs
      PROVE  /\ (jobs')[j].status = "SUCCEEDED" => (jobs')[j].stage = "COMPLETE"
             /\ (jobs')[j].stage = "COMPLETE" => reports[j].saved
             /\ \A s \in RunStages :
                  StageIndex((jobs')[j].stage) > StageIndex(s) => StageProofIsComplete(runs[<<j, s>>])
  <2>1. /\ jobs[j].status = "SUCCEEDED" => jobs[j].stage = "COMPLETE"
        /\ jobs[j].stage = "COMPLETE" => reports[j].saved
        /\ \A s \in RunStages :
             StageIndex(jobs[j].stage) > StageIndex(s) => StageProofIsComplete(runs[<<j, s>>])
    BY DEF SystemInv, JobInv, StageHasEvidence
  <2>2. CASE (jobs')[j] = CreatedJob
    <3>1. \A s \in RunStages : ~(StageIndex("ENQUEUE") > StageIndex(s))
      BY StageIndexes DEF RunStages
    <3> QED BY <2>2, <3>1 DEF CreatedJob
  <2>3. CASE (jobs')[j].stage = jobs[j].stage /\ (jobs')[j].status = jobs[j].status
    BY <2>1, <2>3
  <2>4. RowRequested(j)
    BY <1>0
  <2> QED BY <2>2, <2>3, <2>4 DEF RowRequested
<1>8. StageHasEvidence'
  BY <1>1, <1>7 DEF StageHasEvidence
<1> QED BY <1>2, <1>6, <1>8 DEF RowShape

LEMMA RequestsKeepJobInv ==
  ASSUME SystemInv, NEW r \in Requests, RequestActs(r)
  PROVE  JobInv'
<1>1. UNCHANGED <<pc, current, reports, runs>>
  BY DEF RequestActs, workerVars, runVars, localVars
<1>2. PipelineOK
  BY DEF SystemInv, JobInv
<1>3. \A w \in Workers : pc[w] \in {"advance", "finish"} =>
        JobOf(w)' = JobOf(w) /\ RunKey(w)' = RunKey(w)
  BY <1>1, LiveJobsStay DEF Live, RunKey
<1>4. PipelineOK'
  BY <1>1, <1>2, <1>3 DEF PipelineOK
<1> QED BY <1>4, RequestsKeepTypes, RequestsKeepFence, RequestsKeepRows DEF JobInv, FenceInv

-----------------------------------------------------------------------------
(* What a request does to its own state.                                   *)

Answered(r, kind, j, enqueued) ==
  /\ (rpc')[r] = "done"
  /\ (answer')[r] = [kind |-> kind, job |-> j, enqueued |-> enqueued]

Moved(r, label) == (rpc')[r] = label /\ (answer')[r] = answer[r]

\* A row that a read of job j answers, of a job of the scope that is asked for.
ReadOf(r, j, row) == j \in Jobs /\ row \in GetJob(j) /\ Exists(row) /\ scope[j] = rscope[r]

\* How a request ends,
Ends(r) ==
  \/ (rpc')[r] = "done" /\ (answer')[r] = answer[r]
  \/ \E kind \in {"unverified", "conflict", "error"} : Answered(r, kind, rkey[r], FALSE)
  \/ \E j \in Jobs : \E row \in GetJob(j) :
       ReadOf(r, j, row) /\ Answered(r, "accepted", j, row.queueStatus = "ENQUEUED")
  \/ /\ rpc[r] = "proof"
     /\ Answered(r, "accepted", ractive[r], rjob[r].queueStatus = "ENQUEUED")
  \/ /\ rpc[r] = "queueCheck" /\ rjob[r].queueStatus = "ENQUEUED"
     /\ Answered(r, "accepted", rkey[r], TRUE)
  \/ rpc[r] = "markEnqueued" /\ Answered(r, "accepted", rkey[r], TRUE)
  \/ rpc[r] = "markFailed" /\ Answered(r, "enqueueFailed", rkey[r], FALSE)

\* and how it goes on.
GoesOn(r) ==
  \/ \E label \in {"findActive", "lookup", "create", "replay"} : Moved(r, label)
  \/ \E j \in Jobs : \E row \in GetJob(j) :
       /\ ReadOf(r, j, row) /\ Moved(r, "proof") /\ (rjob')[r] = row /\ (ractive')[r] = j
  \/ \E row \in GetJob(rkey[r]) :
       ReadOf(r, rkey[r], row) /\ Moved(r, "queueCheck") /\ (rjob')[r] = row
  \/ /\ ~Exists(jobs[rkey[r]]) /\ Moved(r, "queueCheck") /\ (rjob')[r] = CreatedJob
     /\ (jobs')[rkey[r]] = CreatedJob /\ (scope')[rkey[r]] = rscope[r]
  \/ rpc[r] = "queueCheck" /\ Moved(r, "send")
  \/ rpc[r] = "send" /\ Moved(r, "markFailed")
  \/ rpc[r] = "send" /\ Moved(r, "markEnqueued") /\ SendMessage(rkey[r])

\* A request writes its own memory only.
OthersWait(r) ==
  \A q \in Requests \ {r} :
    /\ (rpc')[q] = rpc[q] /\ (rjob')[q] = rjob[q] /\ (ractive')[q] = ractive[q]
    /\ (answer')[q] = answer[q]

LEMMA ProducerTypes ==
  SystemInv =>
    /\ scope \in [Jobs -> Scopes] /\ listing \in Seq(Jobs)
    /\ rpc \in [Requests -> RequestLabels] /\ rkey \in [Requests -> Jobs]
    /\ rscope \in [Requests -> Scopes] /\ rjob \in [Requests -> JobRecord]
    /\ ractive \in [Requests -> Jobs] /\ answer \in [Requests -> Answers]
BY DEF SystemInv, ProducerTypeOK

ProducerMemoryOK ==
  /\ rpc \in [Requests -> RequestLabels] /\ rjob \in [Requests -> JobRecord]
  /\ ractive \in [Requests -> Jobs] /\ answer \in [Requests -> Answers]

LEMMA Replies ==
  ASSUME SystemInv, NEW r \in Requests, NEW kind, NEW j \in Jobs, NEW enqueued \in BOOLEAN,
         kind \in {"accepted", "conflict", "unverified", "enqueueFailed", "error"},
         Reply(r, kind, j, enqueued)
  PROVE  Answered(r, kind, j, enqueued) /\ OthersWait(r) /\ ProducerMemoryOK'
BY ProducerTypes, InitialValues
   DEF Reply, Forget, GotoR, Answered, OthersWait, ProducerMemoryOK, RequestLabels, Answers

LEMMA Forgets ==
  ASSUME SystemInv, NEW r \in Requests, Forget(r), UNCHANGED answer
  PROVE  (rpc')[r] = "done" /\ (answer')[r] = answer[r] /\ OthersWait(r) /\ ProducerMemoryOK'
BY ProducerTypes, InitialValues DEF Forget, GotoR, OthersWait, ProducerMemoryOK, RequestLabels

LEMMA GoesTo ==
  ASSUME SystemInv, NEW r \in Requests, NEW label \in RequestLabels, GotoR(r, label),
         NEW row \in JobRecord, NEW j \in Jobs,
         UNCHANGED rjob \/ rjob' = [rjob EXCEPT ![r] = row],
         UNCHANGED ractive \/ ractive' = [ractive EXCEPT ![r] = j],
         UNCHANGED answer
  PROVE  /\ Moved(r, label) /\ OthersWait(r) /\ ProducerMemoryOK'
         /\ rjob' = [rjob EXCEPT ![r] = row] => (rjob')[r] = row
         /\ ractive' = [ractive EXCEPT ![r] = j] => (ractive')[r] = j
BY ProducerTypes DEF GotoR, Moved, OthersWait, ProducerMemoryOK

\* Moving on without remembering a row.
LEMMA GoesBlindly ==
  ASSUME SystemInv, NEW r \in Requests, NEW label \in RequestLabels, GotoR(r, label),
         UNCHANGED <<rjob, ractive, answer>>
  PROVE  Moved(r, label) /\ OthersWait(r) /\ ProducerMemoryOK'
<1>1. NoJob \in JobRecord /\ rkey[r] \in Jobs
  BY InitialValues, ProducerTypes
<1> QED BY <1>1, GoesTo

LEMMA LeastNatural ==
  ASSUME NEW T, T \subseteq Nat, T # {}
  PROVE  \E x \in T : \A y \in T : x <= y
<1> DEFINE R == {ss \in Nat \X Nat : ss[1] < ss[2]}
<1>1. IsWellFoundedOn(R, Nat)
  BY NatLessThanWellFounded DEF OpToRel
<1> HIDE DEF R
<1>2. PICK x \in T : \A y \in T : ~(<<y, x>> \in R)
  BY <1>1, WFMin
<1>3. ASSUME NEW y \in T PROVE x <= y
  <2>1. x \in Nat /\ y \in Nat /\ ~(<<y, x>> \in R)
    BY <1>2
  <2>2. ~(y < x)
    BY <2>1 DEF R
  <2> QED BY <2>1, <2>2
<1> QED BY <1>2, <1>3

\* The newest of the jobs that were found.
LEMMA NewestPosition ==
  ASSUME NEW n \in Nat, NEW S \in SUBSET (1 .. n), S # {}
  PROVE  (CHOOSE i \in S : \A k \in S : k <= i) \in S
<1> DEFINE T == {n - i : i \in S}
<1>0. \A i \in S : i \in Nat /\ i <= n
  OBVIOUS
<1>1. T \subseteq Nat /\ T # {}
  <2>1. ASSUME NEW x \in T PROVE x \in Nat
    <3>1. PICK i \in S : x = n - i
      OBVIOUS
    <3> QED BY <1>0, <3>1
  <2>2. PICK i \in S : TRUE
    OBVIOUS
  <2>3. n - i \in T
    OBVIOUS
  <2> QED BY <2>1, <2>3
<1>2. PICK x \in T : \A y \in T : x <= y
  <2> HIDE DEF T
  <2> QED BY <1>1, LeastNatural
<1>3. PICK i \in S : x = n - i
  OBVIOUS
<1>4. ASSUME NEW k \in S PROVE k <= i
  <2>1. n - i <= n - k
    BY <1>2, <1>3
  <2> QED BY <1>0, <2>1
<1> QED BY <1>4

LEMMA ViewsAreReads ==
  ASSUME SystemInv, NEW view \in Views, NEW j \in Jobs
  PROVE  view[j] \in GetJob(j) /\ view[j] \in JobRecord
BY SystemTypes DEF Views

\* isEc2AsyncJobActive finds a job of the scope.
LEMMA ActiveIsFound ==
  ASSUME SystemInv, NEW r \in Requests, NEW view \in Views, NEW found,
         found = ActiveIn(view, rscope[r]), found # {},
         NEW j, j = listing[CHOOSE i \in found : \A k \in found : k <= i]
  PROVE  ReadOf(r, j, view[j])
<1>1. Len(listing) \in Nat /\ found \in SUBSET (1 .. Len(listing))
  BY ProducerTypes DEF ActiveIn
<1>2. PICK i : i = CHOOSE x \in found : \A k \in found : k <= x
  OBVIOUS
<1>3. i \in found
  BY <1>1, <1>2, NewestPosition
<1>4. j = listing[i] /\ j \in Jobs
  BY <1>1, <1>2, <1>3, ProducerTypes
<1>5. Exists(view[j]) /\ scope[j] = rscope[r]
  BY <1>3, <1>4 DEF ActiveIn
<1> QED BY <1>4, <1>5, ViewsAreReads DEF ReadOf

Effect(r) == (Ends(r) \/ GoesOn(r)) /\ OthersWait(r) /\ ProducerMemoryOK'

LEMMA EffectOfResolve ==
  ASSUME SystemInv, NEW r \in Requests, ResolveAccount(r) \/ QueueCheck(r)
  PROVE  Effect(r)
<1>0. rkey[r] \in Jobs
  BY ProducerTypes
<1>1. CASE GotoR(r, "findActive") /\ UNCHANGED <<rjob, ractive, answer>>
  BY <1>1, GoesBlindly DEF RequestLabels, Effect, GoesOn
<1>2. CASE Reply(r, "unverified", rkey[r], FALSE)
  BY <1>0, <1>2, Replies DEF Effect, Ends
<1>3. CASE rpc[r] = "queueCheck" /\ GotoR(r, "send") /\ UNCHANGED <<rjob, ractive, answer>>
  BY <1>3, GoesBlindly DEF RequestLabels, Effect, GoesOn
<1>4. CASE rpc[r] = "queueCheck" /\ rjob[r].queueStatus = "ENQUEUED" /\ Reply(r, "accepted", rkey[r], TRUE)
  BY <1>0, <1>4, Replies DEF Effect, Ends
<1> QED BY <1>1, <1>2, <1>3, <1>4 DEF ResolveAccount, QueueCheck

LEMMA EffectOfFindActive ==
  ASSUME SystemInv, NEW r \in Requests, FindActive(r)
  PROVE  Effect(r)
<1>1. PICK view \in Views :
       LET found == ActiveIn(view, rscope[r])
           j == listing[CHOOSE i \in found : \A k \in found : k <= i]
       IN  \/ found = {} /\ GotoR(r, "lookup") /\ UNCHANGED <<rjob, ractive, answer>>
           \/ found # {} /\ view[j].status = "QUEUED" /\ ReplyActive(r, j, view[j])
           \/ /\ found # {} /\ view[j].status = "RUNNING"
              /\ GotoR(r, "proof")
              /\ rjob' = [rjob EXCEPT ![r] = view[j]]
              /\ ractive' = [ractive EXCEPT ![r] = j]
              /\ UNCHANGED answer
  BY DEF FindActive
<1>2. PICK found : found = ActiveIn(view, rscope[r])
  OBVIOUS
<1>3. PICK j : j = listing[CHOOSE i \in found : \A k \in found : k <= i]
  OBVIOUS
<1>4. PICK row : row = view[j]
  OBVIOUS
<1>5. CASE GotoR(r, "lookup") /\ UNCHANGED <<rjob, ractive, answer>>
  BY <1>5, GoesBlindly DEF RequestLabels, Effect, GoesOn
<1>6. found # {} => ReadOf(r, j, row) /\ row \in JobRecord /\ j \in Jobs
  <2> SUFFICES ASSUME found # {} PROVE ReadOf(r, j, row) /\ row \in JobRecord /\ j \in Jobs
    OBVIOUS
  <2>1. ReadOf(r, j, row)
    BY <1>2, <1>3, <1>4, ActiveIsFound
  <2> QED BY <1>4, <2>1, ViewsAreReads DEF ReadOf
<1>7. CASE found # {} /\ ReplyActive(r, j, row)
  <2>1. PICK enqueued \in BOOLEAN : enqueued = (row.queueStatus = "ENQUEUED")
    OBVIOUS
  <2>2. Reply(r, "accepted", j, enqueued)
    BY <1>7, <2>1 DEF ReplyActive
  <2>3. Answered(r, "accepted", j, enqueued) /\ OthersWait(r) /\ ProducerMemoryOK'
    BY <1>6, <1>7, <2>2, Replies
  <2> QED BY <1>6, <1>7, <2>1, <2>3 DEF Effect, Ends, ReadOf
<1>8. CASE /\ found # {} /\ GotoR(r, "proof") /\ rjob' = [rjob EXCEPT ![r] = row]
           /\ ractive' = [ractive EXCEPT ![r] = j] /\ UNCHANGED answer
  <2>1. /\ Moved(r, "proof") /\ OthersWait(r) /\ ProducerMemoryOK'
        /\ (rjob')[r] = row /\ (ractive')[r] = j
    BY <1>6, <1>8, GoesTo DEF RequestLabels
  <2> QED BY <1>6, <1>8, <2>1 DEF Effect, GoesOn, ReadOf
<1> QED BY <1>1, <1>2, <1>3, <1>4, <1>5, <1>7, <1>8

LEMMA EffectOfProof ==
  ASSUME SystemInv, NEW r \in Requests, Proof(r)
  PROVE  Effect(r)
<1>1. CASE GotoR(r, "lookup") /\ UNCHANGED <<rjob, ractive, answer>>
  BY <1>1, GoesBlindly DEF RequestLabels, Effect, GoesOn
<1>2. CASE ReplyActive(r, ractive[r], rjob[r])
  <2>1. PICK enqueued \in BOOLEAN : enqueued = (rjob[r].queueStatus = "ENQUEUED")
    OBVIOUS
  <2>2. Reply(r, "accepted", ractive[r], enqueued) /\ ractive[r] \in Jobs
    BY <1>2, <2>1, ProducerTypes DEF ReplyActive
  <2>3. Answered(r, "accepted", ractive[r], enqueued) /\ OthersWait(r) /\ ProducerMemoryOK'
    BY <2>2, Replies
  <2> QED BY <2>1, <2>3 DEF Effect, Ends, Proof
<1> QED BY <1>1, <1>2 DEF Proof

\* A key that was used before.
LEMMA EffectOfReplayed ==
  ASSUME SystemInv, NEW r \in Requests, NEW row \in GetJob(rkey[r]), Replayed(r, row)
  PROVE  Effect(r)
<1>0. rkey[r] \in Jobs /\ ractive[r] \in Jobs /\ row \in JobRecord
  BY ProducerTypes, SystemTypes
<1>1. CASE Reply(r, "conflict", rkey[r], FALSE)
  BY <1>0, <1>1, Replies DEF Effect, Ends
<1>2. CASE /\ Exists(row) /\ scope[rkey[r]] = rscope[r] /\ GotoR(r, "queueCheck")
           /\ rjob' = [rjob EXCEPT ![r] = row] /\ UNCHANGED <<ractive, answer>>
  <2>1. /\ Moved(r, "queueCheck") /\ OthersWait(r) /\ ProducerMemoryOK'
        /\ (rjob')[r] = row
    BY <1>0, <1>2, GoesTo DEF RequestLabels
  <2>2. ReadOf(r, rkey[r], row)
    BY <1>0, <1>2 DEF ReadOf
  <2> QED BY <2>1, <2>2 DEF Effect, GoesOn
<1> QED BY <1>1, <1>2 DEF Replayed

LEMMA EffectOfLookup ==
  ASSUME SystemInv, NEW r \in Requests, Lookup(r) \/ Replay(r)
  PROVE  Effect(r)
<1>0. rkey[r] \in Jobs
  BY ProducerTypes
<1>1. CASE \E row \in GetJob(rkey[r]) : Replayed(r, row)
  BY <1>1, EffectOfReplayed
<1>2. CASE GotoR(r, "create") /\ UNCHANGED <<rjob, ractive, answer>>
  BY <1>2, GoesBlindly DEF RequestLabels, Effect, GoesOn
<1>3. CASE Reply(r, "error", rkey[r], FALSE)
  BY <1>0, <1>3, Replies DEF Effect, Ends
<1> QED BY <1>1, <1>2, <1>3 DEF Lookup, Replay

LEMMA EffectOfCreate ==
  ASSUME SystemInv, NEW r \in Requests, Create(r)
  PROVE  Effect(r)
<1>0. rkey[r] \in Jobs /\ ractive[r] \in Jobs /\ CreatedJob \in JobRecord
  BY ProducerTypes, InitialValues
<1>1. CASE GotoR(r, "replay") /\ UNCHANGED <<rjob, ractive, answer>>
  BY <1>1, GoesBlindly DEF RequestLabels, Effect, GoesOn
<1>2. CASE /\ ~Exists(jobs[rkey[r]]) /\ jobs' = [jobs EXCEPT ![rkey[r]] = CreatedJob]
           /\ scope' = [scope EXCEPT ![rkey[r]] = rscope[r]]
           /\ rjob' = [rjob EXCEPT ![r] = CreatedJob] /\ GotoR(r, "queueCheck")
           /\ UNCHANGED <<ractive, answer>>
  <2>1. /\ Moved(r, "queueCheck") /\ OthersWait(r) /\ ProducerMemoryOK'
        /\ (rjob')[r] = CreatedJob
    BY <1>0, <1>2, GoesTo DEF RequestLabels
  <2>2. (jobs')[rkey[r]] = CreatedJob /\ (scope')[rkey[r]] = rscope[r]
    BY <1>0, <1>2, ProducerTypes, SystemTypes
  <2> QED BY <1>2, <2>1, <2>2 DEF Effect, GoesOn
<1> QED BY <1>1, <1>2 DEF Create

LEMMA EffectOfSend ==
  ASSUME SystemInv, NEW r \in Requests, Send(r)
  PROVE  Effect(r)
<1>1. CASE GotoR(r, "markEnqueued") /\ SendMessage(rkey[r])
  BY <1>1, GoesBlindly DEF RequestLabels, Effect, GoesOn, Send
<1>2. CASE GotoR(r, "markFailed")
  BY <1>2, GoesBlindly DEF RequestLabels, Effect, GoesOn, Send
<1> QED BY <1>1, <1>2 DEF Send

LEMMA EffectOfMark ==
  ASSUME SystemInv, NEW r \in Requests, MarkEnqueued(r) \/ MarkFailed(r)
  PROVE  Effect(r)
<1>0. rkey[r] \in Jobs
  BY ProducerTypes
<1>1. CASE Forget(r) /\ UNCHANGED answer
  BY <1>1, Forgets DEF Effect, Ends
<1>2. CASE Reply(r, "error", rkey[r], FALSE)
  BY <1>0, <1>2, Replies DEF Effect, Ends
<1>3. CASE rpc[r] = "markEnqueued" /\ Reply(r, "accepted", rkey[r], TRUE)
  BY <1>0, <1>3, Replies DEF Effect, Ends
<1>4. CASE rpc[r] = "markFailed" /\ Reply(r, "enqueueFailed", rkey[r], FALSE)
  BY <1>0, <1>4, Replies DEF Effect, Ends
<1> QED BY <1>1, <1>2, <1>3, <1>4 DEF MarkEnqueued, MarkFailed, Mark

LEMMA EffectOfRequest ==
  ASSUME SystemInv, NEW r \in Requests, RequestActs(r)
  PROVE  Effect(r)
<1>1. CASE DieRequest(r)
  BY <1>1, Forgets DEF DieRequest, Effect, Ends
<1> QED BY <1>1, EffectOfResolve, EffectOfFindActive, EffectOfProof, EffectOfLookup, EffectOfCreate,
           EffectOfSend, EffectOfMark DEF RequestActs, RequestStep

-----------------------------------------------------------------------------
(* Scopes.                                                                 *)

\* A row that a read answers, stands for one that exists.
LEMMA ReadsAreOfJobs ==
  ASSUME SystemInv, NEW j \in Jobs, NEW row \in GetJob(j), Exists(row)
  PROVE  Exists(jobs[j])
<1>1. jobs[j] \in JobRecord /\ jobsReplica[j] \in JobRecord /\ IsCopy(jobsReplica[j], jobs[j])
  BY SystemTypes DEF SystemInv, JobInv, Copies
<1> QED BY <1>1 DEF GetJob, Exists, IsCopy, JobRecord

LEMMA RequestedJobsExist ==
  ASSUME SystemInv, NEW j \in Jobs, RowRequested(j), Exists(jobs[j])
  PROVE  Exists((jobs')[j])
<1>1. jobs[j] \in JobRecord
  BY SystemTypes
<1> QED BY <1>1 DEF RowRequested, Exists, JobRecord

\* Only the creation of a job writes its scope.
LEMMA ScopesStay ==
  ASSUME SystemInv, NEW r \in Requests, RequestActs(r)
  PROVE  /\ scope' \in [Jobs -> Scopes] /\ listing' \in Seq(Jobs) /\ UNCHANGED requestVars
         /\ \A j \in Jobs : Exists(jobs[j]) => (scope')[j] = scope[j]
<1>0. /\ scope \in [Jobs -> Scopes] /\ listing \in Seq(Jobs)
      /\ rkey[r] \in Jobs /\ rscope[r] \in Scopes
  BY ProducerTypes
<1>1. CASE UNCHANGED <<scope, listing, requestVars>>
  BY <1>0, <1>1
<1>2. CASE Create(r)
  <2>1. CASE /\ ~Exists(jobs[rkey[r]]) /\ scope' = [scope EXCEPT ![rkey[r]] = rscope[r]]
             /\ listing' = Append(listing, rkey[r])
    BY <1>0, <1>2, <2>1 DEF Create
  <2>2. CASE UNCHANGED <<scope, listing>>
    BY <1>0, <1>2, <2>2 DEF Create
  <2> QED BY <1>2, <2>1, <2>2 DEF Create
<1>3. CASE Send(r) \/ MarkEnqueued(r) \/ MarkFailed(r)
  BY <1>1, <1>3 DEF Send, MarkEnqueued, MarkFailed, Mark
<1> QED BY <1>1, <1>2, <1>3, QuietSteps DEF RequestActs, RequestStep, Quiet

LEMMA KnownStays ==
  ASSUME SystemInv, NEW r \in Requests, RequestActs(r), NEW j \in Jobs, NEW sc, Known(j, sc)
  PROVE  Known(j, sc)'
<1>1. RowRequested(j) /\ (Exists(jobs[j]) => (scope')[j] = scope[j])
  BY RequestRows, ScopesStay
<1> QED BY <1>1, RequestedJobsExist DEF Known

LEMMA RequestsKeepScopes ==
  ASSUME SystemInv, NEW r \in Requests, RequestActs(r)
  PROVE  ProducerTypeOK' /\ \A q \in Requests : RequestIsSound(q)'
<1>0. /\ Effect(r) /\ UNCHANGED requestVars
      /\ rpc \in [Requests -> RequestLabels] /\ answer \in [Requests -> Answers]
      /\ \A q \in Requests : rkey[q] \in Jobs /\ ractive[q] \in Jobs /\ answer[q].job \in Jobs
  BY EffectOfRequest, ScopesStay, ProducerTypes DEF Answers
<1>1. ProducerTypeOK'
  BY <1>0, ScopesStay, ProducerTypes DEF Effect, ProducerMemoryOK, ProducerTypeOK, requestVars
<1>2. ASSUME NEW q \in Requests \ {r} PROVE RequestIsSound(q)'
  <2>1. /\ (rpc')[q] = rpc[q] /\ (ractive')[q] = ractive[q] /\ (answer')[q] = answer[q]
        /\ (rkey')[q] = rkey[q] /\ (rscope')[q] = rscope[q]
    BY <1>0 DEF Effect, OthersWait, requestVars
  <2>2. RequestIsSound(q)
    BY DEF SystemInv
  <2>3. PICK sc : sc = rscope[q]
    OBVIOUS
  <2> QED
    <3>1. \A j \in Jobs : Known(j, sc) => Exists((jobs')[j]) /\ (scope')[j] = sc
      BY KnownStays DEF Known
    <3> QED BY <1>0, <2>1, <2>2, <2>3, <3>1 DEF RequestIsSound, Known
<1>3. RequestIsSound(r)'
  <2>1. /\ (rkey')[r] = rkey[r] /\ (rscope')[r] = rscope[r]
    BY <1>0 DEF requestVars
  <2>2. RequestIsSound(r)
    BY DEF SystemInv
  <2>3. PICK sc : sc = rscope[r]
    OBVIOUS
  <2>4. \A j \in Jobs : Known(j, sc) => Exists((jobs')[j]) /\ (scope')[j] = sc
    BY KnownStays DEF Known
  <2>5. \A j \in Jobs : \A row \in GetJob(j) : ReadOf(r, j, row) => Known(j, sc)
    BY <2>3, ReadsAreOfJobs DEF ReadOf, Known
  <2>6. CASE Ends(r)
    <3>1. (rpc')[r] = "done"
      BY <2>6 DEF Ends, Answered
    <3> DEFINE told == /\ (answer')[r].kind \in {"accepted", "enqueueFailed"}
                       /\ (answer')[r].job \in Jobs
    <3>2. told => Known((answer')[r].job, sc)
      <4>1. CASE (answer')[r] = answer[r]
        BY <2>2, <2>3, <4>1 DEF RequestIsSound
      <4>2. CASE \E kind \in {"unverified", "conflict", "error"} : Answered(r, kind, rkey[r], FALSE)
        BY <4>2 DEF Answered
      <4>3. CASE \E j \in Jobs : \E row \in GetJob(j) :
                   ReadOf(r, j, row) /\ Answered(r, "accepted", j, row.queueStatus = "ENQUEUED")
        BY <2>5, <4>3 DEF Answered
      <4>4. CASE rpc[r] = "proof" /\ Answered(r, "accepted", ractive[r], rjob[r].queueStatus = "ENQUEUED")
        BY <2>2, <2>3, <4>4 DEF Answered, RequestIsSound
      <4>5. CASE \/ rpc[r] = "queueCheck" /\ Answered(r, "accepted", rkey[r], TRUE)
                 \/ rpc[r] = "markEnqueued" /\ Answered(r, "accepted", rkey[r], TRUE)
                 \/ rpc[r] = "markFailed" /\ Answered(r, "enqueueFailed", rkey[r], FALSE)
        BY <2>2, <2>3, <4>5 DEF Answered, RequestIsSound
      <4> QED BY <2>6, <4>1, <4>2, <4>3, <4>4, <4>5 DEF Ends
    <3>3. (answer')[r].job \in Jobs
      BY <1>1 DEF ProducerTypeOK, Answers
    <3> QED BY <2>1, <2>3, <2>4, <3>1, <3>2, <3>3 DEF RequestIsSound, Known
  <2>7. CASE GoesOn(r)
    <3>1. (answer')[r] = answer[r]
      BY <2>7 DEF GoesOn, Moved
    <3>2. (rpc')[r] = "proof" => \E j \in Jobs : (ractive')[r] = j /\ Known(j, sc)
      BY <2>5, <2>7 DEF GoesOn, Moved
    <3>3. (rpc')[r] \in {"queueCheck", "send", "markEnqueued", "markFailed"} =>
            Exists((jobs')[rkey[r]]) /\ (scope')[rkey[r]] = sc
      <4>1. Exists(CreatedJob)
        BY DEF Exists, CreatedJob
      <4>2. \/ (rpc')[r] \notin {"queueCheck", "send", "markEnqueued", "markFailed"}
            \/ Known(rkey[r], sc)
            \/ (jobs')[rkey[r]] = CreatedJob /\ (scope')[rkey[r]] = rscope[r]
        BY <1>0, <2>2, <2>3, <2>5, <2>7 DEF GoesOn, Moved, RequestIsSound
      <4> QED BY <1>0, <2>3, <2>4, <4>1, <4>2
    <3> QED BY <1>0, <2>1, <2>2, <2>3, <2>4, <3>1, <3>2, <3>3 DEF RequestIsSound, Known
  <2> QED BY <1>0, <2>6, <2>7 DEF Effect
<1> QED BY <1>1, <1>2, <1>3

LEMMA RequestsKeepMessages ==
  ASSUME SystemInv, NEW r \in Requests, RequestActs(r)
  PROVE  HeldWereSent' /\ SentAreReal'
<1>1. UNCHANGED <<pc, held>> /\ held \in [Workers -> Messages] /\ rkey[r] \in Jobs
  BY SystemTypes, ProducerTypes DEF RequestActs, workerVars, localVars, TypeInv, TypeOK, LocalTypeOK
<1>2. ASSUME NEW w \in Workers, Live(w) PROVE (queue')[held[w]].state # "unsent"
  <2>1. queue[held[w]].state # "unsent" /\ held[w] \in Messages
    BY <1>1, <1>2 DEF SystemInv, HeldWereSent
  <2> QED BY <2>1, RequestMessages
<1>3. ASSUME NEW m \in Messages, (queue')[m].state # "unsent" PROVE Exists((jobs')[(queue')[m].job])
  <2>1. CASE (queue')[m] = queue[m]
    <3>1. Exists(jobs[queue[m].job]) /\ queue[m].job \in Jobs
      BY <1>3, <2>1, SystemTypes DEF SystemInv, SentAreReal
    <3> QED BY <2>1, <3>1, RequestRows, RequestedJobsExist
  <2>2. CASE rpc[r] = "send" /\ (queue')[m] = SentMessage(rkey[r])
    <3>1. Exists(jobs[rkey[r]])
      BY <2>2 DEF SystemInv, RequestIsSound, Known
    <3> QED BY <1>1, <2>2, <3>1, RequestRows, RequestedJobsExist DEF SentMessage
  <2> QED BY <2>1, <2>2, RequestMessages
<1> QED BY <1>1, <1>2, <1>3 DEF HeldWereSent, SentAreReal, Live

-----------------------------------------------------------------------------
(* The workers keep what the requests rely on.                             *)

WorkersAct == [Next]_vars /\ UNCHANGED producerVars

LEMMA UnsentStays ==
  ASSUME TypeInv, [Next]_vars, NEW m \in Messages
  PROVE  (queue')[m].state = "unsent" <=> queue[m].state = "unsent"
<1>1. CASE UNCHANGED queue
  BY <1>1
<1>2. CASE \E w \in Workers, i \in Messages : Receive(w, i)
  BY <1>2 DEF Receive, ReceiveMessage, ReceiveVisible, ReceiveDuplicate, Delivered, TypeInv, TypeOK,
              QueueTypeOK
<1>3. CASE \E i \in Messages : Redrive(i)
  BY <1>3 DEF Redrive, DeadLetter, InQueue, TypeInv, TypeOK, QueueTypeOK
<1>4. CASE Tick
  BY <1>4 DEF Tick, AgedQueue, TypeInv, TypeOK, QueueTypeOK
<1>5. CASE \E w \in Workers : Ack(w)
  BY <1>5 DEF Ack, DeleteMessage, TypeInv, TypeOK, QueueTypeOK, LocalTypeOK
<1> QED BY <1>1, <1>2, <1>3, <1>4, <1>5, Actors, ActsFrame, EnvironmentFrame

LEMMA WorkersKeepJobs ==
  ASSUME SystemInv, [Next]_vars, NEW j \in Jobs, Exists(jobs[j])
  PROVE  Exists((jobs')[j])
<1>1. jobs[j] \in JobRecord /\ Advances(jobs[j], (jobs')[j])
  BY RowsAdvance, SystemTypes DEF SystemInv
<1> QED BY <1>1 DEF Advances, Exists, JobRecord

LEMMA WorkersKeepMessages ==
  ASSUME SystemInv, [Next]_vars
  PROVE  HeldWereSent' /\ SentAreReal'
<1>0. JobInv /\ TypeInv /\ held \in [Workers -> Messages] /\ pc \in [Workers -> Labels]
  BY SystemTypes DEF SystemInv, TypeInv, TypeOK, LocalTypeOK
<1>1. ASSUME NEW w \in Workers, (pc')[w] # "idle" PROVE (queue')[(held')[w]].state # "unsent"
  <2>1. CASE pc[w] # "idle" /\ (held')[w] = held[w]
    <3>1. queue[held[w]].state # "unsent" /\ held[w] \in Messages
      BY <1>0, <2>1 DEF SystemInv, HeldWereSent, Live
    <3> QED BY <1>0, <2>1, <3>1, UnsentStays
  <2>2. CASE pc[w] = "idle"
    <3>1. Acts(w)
      BY <1>0, <1>1, <2>2, SomeoneActs, OthersKeepMemory DEF SameMemory
    <3>2. PICK m \in Messages : Receive(w, m)
      BY <2>2, <3>1
         DEF Acts, WorkerStep, RepositoryFault, Die, Live, Load, Verify, Reject, Claim, Reload, Latest,
             Stage, ClaimRead, ClaimWrite, Resume, Execute, After, Advance, Project, Build, Save,
             Finish, Retrying, Exhaust, Fail, Ack, MarkTerminalFailure
    <3>3. queue[m].state # "unsent" /\ (held')[w] = m
      BY <1>0, <3>2 DEF Receive, ReceiveMessage, ReceiveVisible, ReceiveDuplicate, InQueue
    <3> QED BY <1>0, <3>3, UnsentStays
  <2> QED BY <1>0, <1>1, <2>1, <2>2, LocalSources
<1>2. ASSUME NEW m \in Messages, (queue')[m].state # "unsent" PROVE Exists((jobs')[(queue')[m].job])
  <2>1. queue[m].state # "unsent" /\ (queue')[m].job = queue[m].job /\ queue[m].job \in Jobs
    BY <1>0, <1>2, UnsentStays, QueueJobsStay, SystemTypes
  <2>2. Exists(jobs[queue[m].job])
    BY <2>1 DEF SystemInv, SentAreReal
  <2> QED BY <2>1, <2>2, WorkersKeepJobs
<1> QED BY <1>1, <1>2 DEF HeldWereSent, SentAreReal, Live

LEMMA WorkersKeepScopes ==
  ASSUME SystemInv, WorkersAct
  PROVE  ProducerTypeOK' /\ \A q \in Requests : RequestIsSound(q)'
<1>1. UNCHANGED <<scope, listing, rpc, rkey, rscope, rjob, ractive, answer>> /\ [Next]_vars
  BY DEF WorkersAct, producerVars
<1>2. ProducerTypeOK'
  BY <1>1, ProducerTypes DEF ProducerTypeOK
<1>3. \A j \in Jobs : Exists(jobs[j]) => Exists((jobs')[j])
  BY <1>1, WorkersKeepJobs
<1>4. ASSUME NEW q \in Requests PROVE RequestIsSound(q)'
  <2>1. RequestIsSound(q) /\ rkey[q] \in Jobs /\ ractive[q] \in Jobs /\ answer[q].job \in Jobs
    BY ProducerTypes DEF SystemInv, Answers
  <2> QED BY <1>1, <1>3, <2>1 DEF RequestIsSound, Known
<1> QED BY <1>2, <1>4

LEMMA SystemStep ==
  ASSUME SystemInv, [SystemNext]_systemVars
  PROVE  SystemInv'
<1>1. ASSUME NEW r \in Requests, RequestActs(r) PROVE SystemInv'
  BY <1>1, RequestsKeepJobInv, RequestsKeepScopes, RequestsKeepMessages DEF SystemInv
<1>2. CASE WorkersAct
  <2>1. JobInv'
    BY <1>2, JobInvNext DEF SystemInv, WorkersAct
  <2> QED BY <1>2, <2>1, WorkersKeepScopes, WorkersKeepMessages DEF SystemInv, WorkersAct
<1> QED BY <1>1, <1>2 DEF SystemNext, systemVars, RequestActs, WorkersAct

LEMMA SystemInitTypes == SystemInit => TypeInv /\ ProducerTypeOK
<1> SUFFICES ASSUME SystemInit PROVE TypeInv /\ ProducerTypeOK
  OBVIOUS
<1>1. TableTypeOK
  BY InitialValues DEF SystemInit, TableTypeOK
<1>2. QueueTypeOK(Jobs)
  <2>1. (CHOOSE any \in Jobs : TRUE) \in Jobs
    BY ProducerAssumption
  <2>2. \A j \in Jobs : UnsentMessage(j) \in
          [state : MessageStates, job : Jobs, receives : 0 .. MaxReceiveCount,
           hidden : 0 .. VisibilityTimeout]
    BY QueueAssumption DEF UnsentMessage, MessageStates
  <2>3. \A j \in Jobs : [m \in Messages |-> UnsentMessage(j)] \in
          [Messages -> [state : MessageStates, job : Jobs, receives : 0 .. MaxReceiveCount,
                        hidden : 0 .. VisibilityTimeout]]
    BY <2>2
  <2>4. queue = [m \in Messages |-> UnsentMessage(CHOOSE any \in Jobs : TRUE)]
    BY DEF SystemInit
  <2>5. queue \in [Messages -> [state : MessageStates, job : Jobs, receives : 0 .. MaxReceiveCount,
                                hidden : 0 .. VisibilityTimeout]]
    BY <2>1, <2>3, <2>4, Zenon
  <2>6. duplicates = 0
    BY DEF SystemInit
  <2> QED BY <2>5, <2>6, QueueAssumption DEF QueueTypeOK
<1>3. RunTableTypeOK /\ reports \in [Jobs -> Reports] /\ verified \in BOOLEAN
  BY InitialValues DEF SystemInit, WorkInit, RunTableInit, RunTableTypeOK
<1>4. LocalTypeOK
  <2>1. WorkerInit
    BY DEF SystemInit
  <2> QED BY <2>1, InitialValues, ConsumerAssumption DEF WorkerInit, LocalTypeOK, Labels
<1>5. PcOK
  BY DEF SystemInit, WorkerInit, PcOK
<1>6. ProducerTypeOK
  <2>1. (CHOOSE s \in Scopes : TRUE) \in Scopes
    BY ProducerAssumption
  <2>2. scope \in [Jobs -> Scopes] /\ listing \in Seq(Jobs)
    <3>1. scope \in [Jobs -> {CHOOSE s \in Scopes : TRUE}] /\ listing = <<>>
      BY DEF SystemInit, ProducerInit
    <3>2. PICK first : first = CHOOSE s \in Scopes : TRUE
      OBVIOUS
    <3>3. scope \in [Jobs -> {first}] /\ first \in Scopes
      BY <2>1, <3>1, <3>2
    <3> QED BY <3>1, <3>3
  <2>3. /\ rpc \in [Requests -> RequestLabels] /\ rkey \in [Requests -> Jobs]
        /\ rscope \in [Requests -> Scopes] /\ rjob \in [Requests -> JobRecord]
        /\ ractive \in [Requests -> Jobs]
    BY InitialValues DEF SystemInit, ProducerInit, RequestLabels
  <2>4. answer \in [Requests -> Answers]
    BY <2>3 DEF SystemInit, ProducerInit, NoAnswer, Answers
  <2> QED BY <2>2, <2>3, <2>4 DEF ProducerTypeOK
<1> QED BY <1>1, <1>2, <1>3, <1>4, <1>5, <1>6 DEF TypeInv, TypeOK

LEMMA SystemInitInv == SystemInit => SystemInv
<1> SUFFICES ASSUME SystemInit PROVE SystemInv
  OBVIOUS
<1>1. TypeInv /\ ProducerTypeOK
  BY SystemInitTypes
<1>2. \A w \in Workers : pc[w] = "idle" /\ mine[w] = NoJob /\ current[w] = NoJob
  BY DEF SystemInit, WorkerInit
<1>3. runs = [k \in RunKeys |-> NoRun] /\ runsReplica = runs
  BY DEF SystemInit, WorkInit, RunTableInit
<1>4. OwnerIsFenced /\ OneOwner /\ PlanIsSafe
  BY <1>2 DEF OwnerIsFenced, OneOwner, PlanIsSafe, Owner
<1>5. ReplicaLags /\ CompleteHasNoLease
  BY <1>3 DEF ReplicaLags, CompleteHasNoLease, NoRun
<1>6. \A j \in Jobs :
        /\ jobs[j] = NoJob /\ jobsReplica[j] = NoJob
        /\ jobs[j].stage = "ENQUEUE" /\ jobs[j].status = "NONE"
  BY DEF SystemInit, NoJob
<1>7. RowShape
  BY <1>6 DEF RowShape
<1>8. Copies
  BY <1>2, <1>6, InitialValues, CopyOfItself DEF Copies, Live
<1>9. PipelineOK
  BY <1>2 DEF PipelineOK, PipelineLabels
<1>10. StageHasEvidence
  <2>1. \A s \in RunStages : ~(StageIndex("ENQUEUE") > StageIndex(s))
    BY StageIndexes DEF RunStages
  <2> QED BY <1>6, <2>1 DEF StageHasEvidence
<1>11. HeldWereSent
  BY <1>2 DEF HeldWereSent, Live
<1>12. SentAreReal
  BY DEF SystemInit, SentAreReal, UnsentMessage
<1>13. \A r \in Requests : RequestIsSound(r)
  BY DEF SystemInit, ProducerInit, RequestIsSound, NoAnswer
<1> QED BY <1>1, <1>4, <1>5, <1>7, <1>8, <1>9, <1>10, <1>11, <1>12, <1>13
        DEF SystemInv, JobInv, FenceInv, Fence

\* The worker's invariant survives the producer, and every request knows what it asked for:
\* startEc2IntelligenceJob and processValidatedMessage over the same tables.
THEOREM SystemInvariant == SystemSpec => []SystemInv
<1>1. SystemInit => SystemInv
  BY SystemInitInv
<1>2. SystemInv /\ [SystemNext]_systemVars => SystemInv'
  BY SystemStep
<1> QED BY <1>1, <1>2, PTL DEF SystemSpec

\* The tables, the queue and the memory of every request and invocation keep their types,
\* whoever of startEc2IntelligenceJob and processValidatedMessage acts.
THEOREM SystemTypesHold == SystemSpec => []SystemTypeOK
<1>1. SystemInv => SystemTypeOK
  BY DEF SystemInv, JobInv, FenceInv, TypeInv, SystemTypeOK
<1> QED BY <1>1, SystemInvariant, PTL

\* A client is only ever given a job of the scope it asked for, whichever replicas its
\* requests read and whoever created the job: findNewestActiveJobByRequestFingerprint and
\* createIdempotentJob never cross fingerprints.
THEOREM AnswersHaveTheirScope == SystemSpec => []AnswerHasRequestedScope
<1>1. SystemInv => AnswerHasRequestedScope
  BY DEF SystemInv, RequestIsSound, Known, AnswerHasRequestedScope
<1> QED BY <1>1, SystemInvariant, PTL

\* The producer gives no worker a way around the leases: while requests create, send and
\* mark jobs, a stage still has at most one owner.
THEOREM StagesExcludeInSystem == SystemSpec => []StageExclusion
<1>1. SystemInv => StageExclusion
  BY DEF SystemInv, JobInv, FenceInv, Fence, OneOwner, Owner, StageExclusion, Executes
<1> QED BY <1>1, SystemInvariant, PTL

\* Nor around the proof of the stages: a job is past a stage only when its run is complete.
THEOREM StagesHaveEvidenceInSystem == SystemSpec => []StageHasEvidence
<1>1. SystemInv => StageHasEvidence
  BY DEF SystemInv, JobInv
<1> QED BY <1>1, SystemInvariant, PTL

-----------------------------------------------------------------------------
(* Messages.                                                               *)

\* The client of job j will see it settle, or find its message in a queue.
SettledOrInHand(j) == IsTerminal(jobs[j]) \/ InHand(j)

AcksAreOfSettledJobs == \A w \in Workers : pc[w] = "ack" => IsTerminal(jobs[JobOf(w)])

\* A row is marked only after the job's message was sent, and so is every copy of it.
RowsInHand ==
  \A j \in Jobs :
    jobs[j].queueStatus = "ENQUEUED" \/ jobsReplica[j].queueStatus = "ENQUEUED" =>
      SettledOrInHand(j)

\* The job a request may call enqueued.
RequestInHand(r) ==
  /\ rpc[r] = "proof" /\ rjob[r].queueStatus = "ENQUEUED" => SettledOrInHand(ractive[r])
  /\ rpc[r] = "queueCheck" /\ rjob[r].queueStatus = "ENQUEUED" => SettledOrInHand(rkey[r])
  /\ rpc[r] = "markEnqueued" => SettledOrInHand(rkey[r])
  /\ answer[r].kind = "accepted" /\ answer[r].enqueued => SettledOrInHand(answer[r].job)

SystemDeliveryInv ==
  /\ SystemInv
  /\ AcksAreOfSettledJobs /\ RowsInHand
  /\ \A r \in Requests : RequestInHand(r)

\* getJob does not miss the job of a message that an invocation received.
LoadsSeeTheJob == \A w \in Workers : Load(w) => \A row \in GetJob(JobOf(w)) : Exists(row)

\* After the step too.
KeptInHand(j) ==
  \/ IsTerminal((jobs')[j])
  \/ \E m \in Messages : (queue')[m].job = j /\ (queue')[m].state \in {"sent", "dead"}

LEMMA RequestsKeepHand ==
  ASSUME SystemInv, NEW r \in Requests, RequestActs(r), NEW j \in Jobs, SettledOrInHand(j)
  PROVE  KeptInHand(j)
<1>1. CASE IsTerminal(jobs[j])
  BY <1>1, RequestRows, RequestedRowsAdvance DEF Advances, KeptInHand
<1>2. ASSUME NEW m \in Messages, queue[m].job = j, queue[m].state \in {"sent", "dead"}
      PROVE  KeptInHand(j)
  BY <1>2, RequestMessages DEF KeptInHand
<1> QED BY <1>1, <1>2 DEF SettledOrInHand, InHand

\* Only markEnqueued, which comes after the send, marks a row.
LEMMA RequestMarks ==
  ASSUME SystemInv, NEW r \in Requests, RequestActs(r), NEW j \in Jobs,
         (jobs')[j].queueStatus = "ENQUEUED"
  PROVE  jobs[j].queueStatus = "ENQUEUED" \/ (rpc[r] = "markEnqueued" /\ j = rkey[r])
<1>0. jobs \in [Jobs -> JobRecord] /\ rkey[r] \in Jobs
  BY SystemTypes, ProducerTypes
<1>1. CASE Quiet(r) \/ Send(r)
  BY <1>1, QuietSteps DEF Send, tableVars
<1>2. CASE Create(r)
  BY <1>0, <1>2 DEF Create, CreatedJob
<1>3. "ENQUEUED" \in QueueStatuses /\ "ENQUEUE_FAILED" \in QueueStatuses
  BY DEF QueueStatuses
<1>4. CASE MarkEnqueued(r)
  <2>1. rpc[r] = "markEnqueued"
    BY <1>4 DEF MarkEnqueued, Mark
  <2>2. (jobs')[j].queueStatus \in {jobs[j].queueStatus}
          \union (IF j = rkey[r] THEN {"ENQUEUED"} ELSE {})
    BY <1>3, <1>4, MarkRow DEF MarkEnqueued
  <2> QED BY <2>1, <2>2
<1>5. CASE MarkFailed(r)
  <2>1. (jobs')[j].queueStatus \in {jobs[j].queueStatus}
          \union (IF j = rkey[r] THEN {"ENQUEUE_FAILED"} ELSE {})
    BY <1>3, <1>5, MarkRow DEF MarkFailed
  <2> QED BY <2>1
<1> QED BY <1>1, <1>2, <1>4, <1>5 DEF RequestActs, RequestStep, Quiet

LEMMA RequestsKeepRowsInHand ==
  ASSUME SystemDeliveryInv, NEW r \in Requests, RequestActs(r)
  PROVE  RowsInHand'
<1>1. SystemInv /\ UNCHANGED jobsReplica /\ rkey[r] \in Jobs
  BY RequestRows, ProducerTypes DEF SystemDeliveryInv
<1>2. ASSUME NEW j \in Jobs,
             (jobs')[j].queueStatus = "ENQUEUED" \/ (jobsReplica')[j].queueStatus = "ENQUEUED"
      PROVE  KeptInHand(j)
  <2>1. SettledOrInHand(j)
    BY <1>1, <1>2, RequestMarks DEF SystemDeliveryInv, RowsInHand, RequestInHand
  <2> QED BY <1>1, <2>1, RequestsKeepHand
<1> QED BY <1>2 DEF RowsInHand, SettledOrInHand, InHand, KeptInHand

LEMMA SentIsInHand ==
  ASSUME SystemInv, NEW j \in Jobs, SendMessage(j)
  PROVE  KeptInHand(j)
<1>1. PICK unsent : unsent = {m \in Messages : queue[m].state = "unsent"}
  OBVIOUS
<1>2. PICK n : n = CHOOSE m \in unsent : TRUE
  OBVIOUS
<1>3. n \in Messages
  BY <1>1, <1>2 DEF SendMessage
<1>4. queue' = [queue EXCEPT ![n] = SentMessage(j)]
  BY <1>1, <1>2 DEF SendMessage
<1>5. (queue')[n] = SentMessage(j)
  BY <1>3, <1>4, SystemTypes DEF TypeInv, TypeOK, QueueTypeOK
<1> QED BY <1>3, <1>5 DEF KeptInHand, SentMessage

\* A row that says the job is enqueued is only read when it is.
LEMMA ReadsAreInHand ==
  ASSUME SystemDeliveryInv, NEW j \in Jobs, NEW row \in GetJob(j), row.queueStatus = "ENQUEUED"
  PROVE  SettledOrInHand(j)
BY DEF SystemDeliveryInv, RowsInHand, GetJob

LEMMA RequestsKeepPromises ==
  ASSUME SystemDeliveryInv, NEW r \in Requests, RequestActs(r), NEW q \in Requests
  PROVE  RequestInHand(q)'
<1>0. /\ SystemInv /\ Effect(r) /\ UNCHANGED requestVars
      /\ rkey[q] \in Jobs /\ ractive[q] \in Jobs /\ answer[q].job \in Jobs
  BY EffectOfRequest, ScopesStay, ProducerTypes DEF Answers, SystemDeliveryInv
<1>1. \A j \in Jobs : SettledOrInHand(j) => KeptInHand(j)
  BY <1>0, RequestsKeepHand
<1>2. RequestInHand(q) /\ (rkey')[q] = rkey[q]
  BY <1>0 DEF SystemDeliveryInv, requestVars
<1>3. CASE q # r
  <2>1. /\ (rpc')[q] = rpc[q] /\ (ractive')[q] = ractive[q] /\ (answer')[q] = answer[q]
        /\ (rjob')[q] = rjob[q]
    BY <1>0, <1>3 DEF Effect, OthersWait
  <2> QED BY <1>0, <1>1, <1>2, <2>1 DEF RequestInHand, SettledOrInHand, InHand, KeptInHand
<1>4. CASE q = r
  <2>0. RequestInHand(r) /\ rkey[r] \in Jobs /\ ractive[r] \in Jobs /\ answer[r].job \in Jobs
        /\ (rkey')[r] = rkey[r]
    BY <1>0, <1>2, <1>4
  <2> DEFINE told == (answer')[r].kind = "accepted" /\ (answer')[r].enqueued
  <2>1. CASE Ends(r)
    <3>1. (rpc')[r] = "done"
      BY <2>1 DEF Ends, Answered
    <3>2. told => KeptInHand((answer')[r].job)
      <4>1. CASE (answer')[r] = answer[r]
        BY <1>1, <2>0, <4>1 DEF RequestInHand
      <4>2. CASE \E kind \in {"unverified", "conflict", "error"} : Answered(r, kind, rkey[r], FALSE)
        BY <4>2 DEF Answered
      <4>3. ASSUME NEW j \in Jobs, NEW row \in GetJob(j),
                   Answered(r, "accepted", j, row.queueStatus = "ENQUEUED")
            PROVE  told => KeptInHand((answer')[r].job)
        <5>0. PICK enqueued \in BOOLEAN : enqueued = (row.queueStatus = "ENQUEUED")
          OBVIOUS
        <5>1. (answer')[r].job = j /\ (answer')[r].enqueued = enqueued
          BY <4>3, <5>0 DEF Answered
        <5>2. row.queueStatus = "ENQUEUED" => SettledOrInHand(j)
          BY ReadsAreInHand
        <5> QED BY <1>1, <5>0, <5>1, <5>2
      <4>4. CASE rpc[r] = "proof" /\ Answered(r, "accepted", ractive[r], rjob[r].queueStatus = "ENQUEUED")
        <5>0. PICK enqueued \in BOOLEAN : enqueued = (rjob[r].queueStatus = "ENQUEUED")
          OBVIOUS
        <5>1. (answer')[r].job = ractive[r] /\ (answer')[r].enqueued = enqueued
          BY <4>4, <5>0 DEF Answered
        <5>2. rjob[r].queueStatus = "ENQUEUED" => SettledOrInHand(ractive[r])
          BY <2>0, <4>4 DEF RequestInHand
        <5> QED BY <1>1, <2>0, <5>0, <5>1, <5>2
      <4>5. CASE \/ /\ rpc[r] = "queueCheck" /\ rjob[r].queueStatus = "ENQUEUED"
                    /\ Answered(r, "accepted", rkey[r], TRUE)
                 \/ rpc[r] = "markEnqueued" /\ Answered(r, "accepted", rkey[r], TRUE)
        BY <1>1, <2>0, <4>5 DEF Answered, RequestInHand
      <4>6. CASE Answered(r, "enqueueFailed", rkey[r], FALSE)
        BY <4>6 DEF Answered
      <4> QED BY <2>1, <4>1, <4>2, <4>3, <4>4, <4>5, <4>6 DEF Ends
    <3> QED BY <1>4, <3>1, <3>2 DEF RequestInHand, SettledOrInHand, InHand, KeptInHand
  <2>2. CASE GoesOn(r)
    <3>1. told => KeptInHand((answer')[r].job)
      BY <1>1, <2>0, <2>2 DEF GoesOn, Moved, RequestInHand
    <3>2. (rpc')[r] = "proof" /\ (rjob')[r].queueStatus = "ENQUEUED" => KeptInHand((ractive')[r])
      BY <1>1, <2>2, ReadsAreInHand DEF GoesOn, Moved
    <3>3. (rpc')[r] = "queueCheck" /\ (rjob')[r].queueStatus = "ENQUEUED" => KeptInHand(rkey[r])
      BY <1>1, <2>0, <2>2, ReadsAreInHand DEF GoesOn, Moved, CreatedJob
    <3>4. (rpc')[r] = "markEnqueued" => KeptInHand(rkey[r])
      BY <1>0, <1>4, <2>2, SentIsInHand DEF GoesOn, Moved
    <3> QED BY <1>4, <2>0, <3>1, <3>2, <3>3, <3>4 DEF RequestInHand, SettledOrInHand, InHand, KeptInHand
  <2> QED BY <1>0, <2>1, <2>2 DEF Effect
<1> QED BY <1>3, <1>4

\* The workers.
LEMMA WorkersKeepHand ==
  ASSUME SystemDeliveryInv, [Next]_vars, NEW j \in Jobs, SettledOrInHand(j)
  PROVE  KeptInHand(j)
<1>1. JobInv /\ TypeInv
  BY SystemTypes DEF SystemDeliveryInv, SystemInv
<1>2. CASE IsTerminal(jobs[j])
  BY <1>1, <1>2, RowsAdvance DEF Advances, KeptInHand
<1>3. ASSUME ~IsTerminal(jobs[j]), NEW m \in Messages, queue[m].job = j,
             queue[m].state \in {"sent", "dead"}
      PROVE  KeptInHand(j)
  <2>1. \A w \in Workers : pc[w] = "ack" => held[w] # m
    BY <1>3 DEF SystemDeliveryInv, AcksAreOfSettledJobs, JobOf
  <2> QED BY <1>1, <1>3, <2>1, MessagesStay, QueueJobsStay DEF KeptInHand
<1> QED BY <1>2, <1>3 DEF SettledOrInHand, InHand

\* A worker never touches the queue status of a row.
LEMMA WorkersLeaveMarks ==
  ASSUME SystemInv, [Next]_vars, NEW j \in Jobs
  PROVE  (jobs')[j].queueStatus = jobs[j].queueStatus
<1>1. JobInv /\ jobs[j] \in JobRecord
  BY SystemTypes DEF SystemInv
<1>2. ASSUME NEW w \in Workers, JobOf(w) = j, RowWritten(w, j)
      PROVE  (jobs')[j].queueStatus = jobs[j].queueStatus
  BY <1>1, <1>2 DEF RowWritten, RowClaimed, RowFailed, RowAdvanced, RowFinished, RowRetried, Written,
                    JobRecord
<1> QED BY <1>1, <1>2, RowsAreWritten

LEMMA WorkersKeepRowsInHand ==
  ASSUME SystemDeliveryInv, [Next]_vars
  PROVE  RowsInHand'
<1>1. /\ SystemInv /\ jobsReplica \in [Jobs -> JobRecord]
      /\ \/ UNCHANGED jobsReplica
         \/ \E i \in Jobs : jobsReplica' = [jobsReplica EXCEPT ![i] = jobs[i]]
  BY Actors, ActsFrame, EnvironmentFrame, SystemTypes DEF SystemDeliveryInv
<1>2. ASSUME NEW j \in Jobs,
             (jobs')[j].queueStatus = "ENQUEUED" \/ (jobsReplica')[j].queueStatus = "ENQUEUED"
      PROVE  KeptInHand(j)
  <2>1. (jobsReplica')[j] \in {jobsReplica[j], jobs[j]}
    BY <1>1
  <2>2. SettledOrInHand(j)
    BY <1>1, <1>2, <2>1, WorkersLeaveMarks DEF SystemDeliveryInv, RowsInHand
  <2> QED BY <2>2, WorkersKeepHand
<1> QED BY <1>2 DEF RowsInHand, SettledOrInHand, InHand, KeptInHand

LEMMA WorkersKeepPromises ==
  ASSUME SystemDeliveryInv, WorkersAct, NEW q \in Requests
  PROVE  RequestInHand(q)'
<1>1. UNCHANGED <<rpc, rkey, rjob, ractive, answer>> /\ [Next]_vars
  BY DEF WorkersAct, producerVars
<1>2. RequestInHand(q) /\ rkey[q] \in Jobs /\ ractive[q] \in Jobs /\ answer[q].job \in Jobs
  BY ProducerTypes DEF SystemDeliveryInv, Answers
<1>3. \A j \in Jobs : SettledOrInHand(j) => KeptInHand(j)
  BY <1>1, WorkersKeepHand
<1> QED BY <1>1, <1>2, <1>3 DEF RequestInHand, SettledOrInHand, InHand, KeptInHand

LEMMA RequestsKeepAcks ==
  ASSUME SystemDeliveryInv, NEW r \in Requests, RequestActs(r)
  PROVE  AcksAreOfSettledJobs'
<1>1. SystemInv /\ UNCHANGED pc
  BY DEF SystemDeliveryInv, RequestActs, workerVars
<1>2. ASSUME NEW w \in Workers, pc[w] = "ack" PROVE IsTerminal((jobs')[JobOf(w)'])
  <2>1. JobOf(w)' = JobOf(w) /\ JobOf(w) \in Jobs
    BY <1>1, <1>2, LiveJobsStay DEF Live
  <2>2. IsTerminal(jobs[JobOf(w)])
    BY <1>2 DEF SystemDeliveryInv, AcksAreOfSettledJobs
  <2> QED BY <1>1, <2>1, <2>2, RequestRows, RequestedRowsAdvance DEF Advances
<1> QED BY <1>1, <1>2 DEF AcksAreOfSettledJobs

LEMMA SystemDeliveryStep ==
  ASSUME "accountRead" \notin Faults,
         SystemDeliveryInv, [SystemNext]_systemVars, [LoadsSeeTheJob]_systemVars
  PROVE  SystemDeliveryInv'
<1>1. SystemInv'
  BY SystemStep DEF SystemDeliveryInv
<1>2. ASSUME NEW r \in Requests, RequestActs(r) PROVE SystemDeliveryInv'
  BY <1>1, <1>2, RequestsKeepAcks, RequestsKeepRowsInHand, RequestsKeepPromises DEF SystemDeliveryInv
<1>3. CASE WorkersAct
  <2>1. JobInv /\ [Next]_vars
    BY <1>3 DEF SystemDeliveryInv, SystemInv, WorkersAct
  <2>2. ASSUME NEW w \in Workers, Load(w) PROVE \A row \in GetJob(JobOf(w)) : Exists(row)
    <3>1. (pc')[w] # pc[w]
      BY <2>1, <2>2, SystemTypes DEF Load, Goto, JobInv, FenceInv, TypeInv, TypeOK, LocalTypeOK
    <3> QED BY <2>2, <3>1 DEF LoadsSeeTheJob, systemVars, vars
  <2>3. AcksAreOfSettledJobs'
    BY <2>1, <2>2, AcksAreEarned DEF SystemDeliveryInv, AcksAreOfSettledJobs
  <2> QED BY <1>1, <1>3, <2>1, <2>3, WorkersKeepRowsInHand, WorkersKeepPromises DEF SystemDeliveryInv
<1> QED BY <1>2, <1>3 DEF SystemNext, systemVars, RequestActs, WorkersAct

\* A client that is told its analysis is enqueued sees it settle, or its message waits in
\* the queue or in the dead-letter queue: whichever request sent it, whoever lost the race
\* of markEnqueued against the worker's claim, and whichever copy of a row a request read.
\* Two things take that away, both of them in the code: a transient error of the account
\* read, which is acknowledged, and a getJob that misses the job it has a message of.
THEOREM AcceptedJobsAreNotLost ==
  ASSUME "accountRead" \notin Faults
  PROVE  SystemSpec /\ [][LoadsSeeTheJob]_systemVars => []AcceptedJobIsNotLost
<1>1. SystemInit => SystemDeliveryInv
  <2> SUFFICES ASSUME SystemInit PROVE SystemDeliveryInv
    OBVIOUS
  <2>1. SystemInv
    BY SystemInitInv
  <2>2. AcksAreOfSettledJobs
    BY DEF SystemInit, WorkerInit, AcksAreOfSettledJobs
  <2>3. RowsInHand
    BY DEF SystemInit, RowsInHand, NoJob
  <2>4. \A r \in Requests : RequestInHand(r)
    BY DEF SystemInit, ProducerInit, RequestInHand, NoAnswer
  <2> QED BY <2>1, <2>2, <2>3, <2>4 DEF SystemDeliveryInv
<1>2. SystemDeliveryInv /\ [SystemNext]_systemVars /\ [LoadsSeeTheJob]_systemVars
        => SystemDeliveryInv'
  BY SystemDeliveryStep
<1>3. SystemDeliveryInv => AcceptedJobIsNotLost
  BY DEF SystemDeliveryInv, RequestInHand, SettledOrInHand, InHand, AcceptedJobIsNotLost
<1> QED BY <1>1, <1>2, <1>3, PTL DEF SystemSpec

\* When getJob reads the leader, every invocation sees its job, for only jobs that exist
\* are sent: then nothing but the account read can lose an accepted job.
THEOREM AcceptedJobsAreNotLostByFreshReads ==
  ASSUME "accountRead" \notin Faults, "jobs" \notin StaleTables
  PROVE  SystemSpec => []AcceptedJobIsNotLost
<1>1. SystemInv => [LoadsSeeTheJob]_systemVars
  <2> SUFFICES ASSUME SystemInv, NEW w \in Workers, Load(w), NEW row \in GetJob(JobOf(w))
               PROVE  Exists(row)
    BY DEF LoadsSeeTheJob
  <2>1. held[w] \in Messages /\ queue[held[w]].state # "unsent"
    BY SystemTypes DEF SystemInv, HeldWereSent, Load, Live, TypeInv, TypeOK, LocalTypeOK
  <2>2. Exists(jobs[JobOf(w)])
    BY <2>1 DEF SystemInv, SentAreReal, JobOf
  <2> QED BY <2>2 DEF GetJob
<1>2. SystemSpec => [][LoadsSeeTheJob]_systemVars
  BY <1>1, SystemInvariant, PTL
<1> QED BY <1>2, AcceptedJobsAreNotLost, PTL

-----------------------------------------------------------------------------
(* What no step of the requests or the workers does.                       *)

LEMMA SystemActions ==
  ASSUME SystemInv, [SystemNext]_systemVars
  PROVE  WorkersAct \/ \E r \in Requests : RequestActs(r)
BY DEF SystemNext, systemVars, RequestActs, WorkersAct

\* The producer's concurrent requests do not open a way back into a completed stage run.
THEOREM CompletedRunsAreFinalInSystem == SystemSpec => CompletedRunIsFinal
<1>1. SystemInv /\ [SystemNext]_systemVars =>
        [\A k \in RunKeys : StageProofIsComplete(runs[k]) => runs'[k] = runs[k]]_vars
  <2> SUFFICES ASSUME SystemInv, [SystemNext]_systemVars, NEW k \in RunKeys,
                      StageProofIsComplete(runs[k])
               PROVE  runs'[k] = runs[k]
    OBVIOUS
  <2>1. CASE WorkersAct
    BY <2>1, CompletedRunStays DEF WorkersAct, SystemInv, JobInv
  <2>2. CASE \E r \in Requests : RequestActs(r)
    BY <2>2 DEF RequestActs, workerVars, runVars
  <2> QED BY <2>1, <2>2, SystemActions
<1> QED BY <1>1, SystemInvariant, PTL DEF SystemSpec, CompletedRunIsFinal

LEMMA SystemRowsAdvance ==
  ASSUME SystemInv, [SystemNext]_systemVars, NEW j \in Jobs
  PROVE  Advances(jobs[j], (jobs')[j])
<1>1. CASE WorkersAct
  BY <1>1, RowsAdvance DEF WorkersAct, SystemInv
<1>2. CASE \E r \in Requests : RequestActs(r)
  BY <1>2, RequestRows, RequestedRowsAdvance
<1> QED BY <1>1, <1>2, SystemActions

\* A request that replays, marks or loses the creation of a job never takes its row back to
\* an earlier stage, and revives no settled one.
THEOREM JobsNeverRestartInSystem == SystemSpec => JobNeverRestarts
<1>1. SystemInv /\ [SystemNext]_systemVars =>
        [\A j \in Jobs :
           /\ StageIndex(jobs'[j].stage) >= StageIndex(jobs[j].stage)
           /\ IsTerminal(jobs[j]) => IsTerminal(jobs'[j])]_vars
  <2> SUFFICES ASSUME SystemInv, [SystemNext]_systemVars, NEW j \in Jobs
               PROVE  /\ StageIndex(jobs'[j].stage) >= StageIndex(jobs[j].stage)
                      /\ IsTerminal(jobs[j]) => IsTerminal(jobs'[j])
    OBVIOUS
  <2>1. jobs[j] \in JobRecord
    BY SystemTypes
  <2> QED BY <2>1, SystemRowsAdvance, StageIndexes DEF Advances, JobRecord
<1> QED BY <1>1, SystemInvariant, PTL DEF SystemSpec, JobNeverRestarts

\* Whoever requested the analysis, and however often, the one report of its job is built
\* from complete runs when the reads of the run tables do not lag.
THEOREM ReportsShowEveryRunInSystem ==
  ASSUME "runs" \notin StaleTables
  PROVE  SystemSpec => []ReportShowsEveryRun
<1> DEFINE Inv == SystemInv /\ ReportInv
<1>1. SystemInit => Inv
  <2> SUFFICES ASSUME SystemInit PROVE Inv
    OBVIOUS
  <2>1. \A w \in Workers : pc[w] = "idle"
    BY DEF SystemInit, WorkerInit
  <2>2. ReportShowsEveryRun
    BY DEF SystemInit, WorkInit, NoReport, ReportShowsEveryRun
  <2> QED BY <2>1, <2>2, SystemInitInv DEF ReportInv, SystemInv
<1>2. Inv /\ [SystemNext]_systemVars => Inv'
  <2> SUFFICES ASSUME Inv, [SystemNext]_systemVars PROVE Inv'
    OBVIOUS
  <2>1. SystemInv'
    BY SystemStep
  <2>2. CASE WorkersAct
    BY <2>1, <2>2, ReportInvNext DEF WorkersAct
  <2>3. CASE \E r \in Requests : RequestActs(r)
    <3>1. UNCHANGED <<reports, pc, snapshot>>
      BY <2>3 DEF RequestActs, workerVars, localVars
    <3> QED BY <2>1, <3>1 DEF ReportInv, ReportShowsEveryRun, SystemInv
  <2> QED BY <2>2, <2>3, SystemActions
<1>3. Inv => ReportShowsEveryRun
  BY DEF ReportInv
<1> QED BY <1>1, <1>2, <1>3, PTL DEF SystemSpec

-----------------------------------------------------------------------------
(* Why a job of the system fails.                                          *)

\* A row that some transaction created.
Made(row) == row.status # "NONE"

RowsAreMade ==
  \A j \in Jobs :
    /\ Made(jobs[j]) <=> Exists(jobs[j])
    /\ Made(jobsReplica[j]) <=> Exists(jobsReplica[j])

\* Why an invocation is where it is.  A worker may hold a QUEUED row that a producer has
\* meanwhile marked, and retry or fail it.
ReasonOf(w) ==
  /\ pc[w] \notin {"idle", "load", "ack"} => Made(mine[w])
  /\ pc[w] # "reject"
  /\ pc[w] \in PipelineLabels => mine[w].status = "RUNNING"
  /\ pc[w] \in {"reload", "retrying", "exhaust", "fail"} => mine[w].status \in {"QUEUED", "RUNNING"}
  /\ pc[w] = "fail" /\ mine[w].status = "RUNNING" =>
       \E s \in RunStages : ClassifyRun(runs[<<JobOf(w), s>>]) = "failed_permanent"
  /\ pc[w] = "exhaust" => mine[w].retryCount >= MaxReceiveCount

\* A job that a worker claimed fails only for cause: a stage run failed for good, or as many
\* retries were recorded as the queue delivers.
ClaimedJobFailsForCause ==
  \A j \in Jobs :
    jobs[j].status = "FAILED" /\ jobs[j].stage # "ENQUEUE" =>
      \/ jobs[j].retryCount >= MaxReceiveCount
      \/ \E s \in RunStages : ClassifyRun(runs[<<j, s>>]) = "failed_permanent"

ReasonInv ==
  /\ SystemInv /\ verified /\ RowsAreMade
  /\ \A w \in Workers : ReasonOf(w)
  /\ ClaimedJobFailsForCause

LEMMA ReasonTypes ==
  ASSUME ReasonInv
  PROVE  /\ JobInv /\ FenceInv /\ TypeInv
         /\ jobs \in [Jobs -> JobRecord] /\ jobsReplica \in [Jobs -> JobRecord]
         /\ mine \in [Workers -> JobRecord]
         /\ \A w \in Workers : JobOf(w) \in Jobs
BY LiveJob, SystemTypes
   DEF ReasonInv, SystemInv, JobInv, FenceInv, TypeInv, TypeOK, LocalTypeOK

(* The requests. *)

LEMMA RequestsKeepReasons ==
  ASSUME ReasonInv, NEW r \in Requests, RequestActs(r)
  PROVE  /\ verified' /\ RowsAreMade' /\ ClaimedJobFailsForCause'
         /\ \A w \in Workers : ReasonOf(w)'
<1>0. /\ SystemInv /\ UNCHANGED jobsReplica /\ \A j \in Jobs : RowRequested(j)
      /\ UNCHANGED <<verified, runs, pc, mine>>
  BY RequestRows DEF ReasonInv, RequestActs, workerVars, runVars, localVars
<1>1. ASSUME NEW j \in Jobs
      PROVE  /\ Made((jobs')[j]) <=> Exists((jobs')[j])
             /\ (jobs')[j].status = "FAILED" =>
                  /\ jobs[j].status = "FAILED" /\ (jobs')[j].stage = jobs[j].stage
                  /\ (jobs')[j].retryCount = jobs[j].retryCount
  <2>1. jobs[j] \in JobRecord /\ (jobs[j].version = 0 => jobs[j] = NoJob)
        /\ (Made(jobs[j]) <=> Exists(jobs[j]))
    BY ReasonTypes DEF ReasonInv, RowsAreMade, JobInv, RowShape
  <2>2. CASE (jobs')[j] = jobs[j]
    BY <2>1, <2>2
  <2>3. CASE (jobs')[j] = CreatedJob
    BY <2>3 DEF CreatedJob, Made, Exists
  <2>4. CASE /\ (jobs')[j].version = jobs[j].version + 1
             /\ (jobs')[j].stage = jobs[j].stage /\ (jobs')[j].status = jobs[j].status
             /\ (jobs')[j].retryCount = jobs[j].retryCount
             /\ Exists(jobs[j])
    BY <2>1, <2>4 DEF Made, Exists, JobRecord
  <2> QED BY <1>0, <2>2, <2>3, <2>4 DEF RowRequested
<1>2. RowsAreMade' /\ ClaimedJobFailsForCause'
  BY <1>0, <1>1 DEF ReasonInv, RowsAreMade, ClaimedJobFailsForCause
<1>3. ASSUME NEW w \in Workers PROVE ReasonOf(w)'
  <2>1. pc[w] = "fail" => JobOf(w)' = JobOf(w)
    BY <1>0, LiveJobsStay DEF Live
  <2> QED BY <1>0, <2>1 DEF ReasonInv, ReasonOf
<1> QED BY <1>0, <1>2, <1>3 DEF ReasonInv

(* The workers. *)

LEMMA RowsAreMadeNext ==
  ASSUME ReasonInv, [Next]_vars
  PROVE  RowsAreMade'
<1>0. JobInv /\ jobs \in [Jobs -> JobRecord] /\ jobsReplica \in [Jobs -> JobRecord]
  BY ReasonTypes
<1>1. ASSUME NEW j \in Jobs PROVE Made((jobs')[j]) <=> Exists((jobs')[j])
  <2>1. CASE (jobs')[j] = jobs[j]
    BY <2>1 DEF ReasonInv, RowsAreMade
  <2>2. ASSUME NEW w \in Workers, RowWritten(w, j)
        PROVE  Made((jobs')[j]) /\ Exists((jobs')[j])
    <3>1. CASE RowClaimed(w, j) \/ RowFailed(w, j) \/ RowFinished(w, j)
      <4>1. /\ (jobs')[j].version = jobs[j].version + 1
            /\ (jobs')[j].status \in {"RUNNING", "FAILED", "SUCCEEDED"}
        BY <1>0, <3>1 DEF RowClaimed, RowFailed, RowFinished, Written, JobRecord
      <4> QED BY <1>0, <4>1 DEF Made, Exists, JobRecord
    <3>2. CASE RowAdvanced(w, j) \/ RowRetried(w, j)
      <4>1. Made(jobs[j])
        BY <3>2 DEF RowAdvanced, RowRetried, JobInv, PipelineOK, PipelineLabels, ReasonInv, ReasonOf,
                    SystemInv, Made
      <4>2. (jobs')[j].version = jobs[j].version + 1 /\ (jobs')[j].status = jobs[j].status
        BY <1>0, <3>2 DEF RowAdvanced, RowRetried, Written, JobRecord
      <4> QED BY <1>0, <4>1, <4>2 DEF Made, Exists, JobRecord
    <3> QED BY <2>2, <3>1, <3>2 DEF RowWritten
  <2> QED BY <1>0, <2>1, <2>2, RowsAreWritten
<1>2. ASSUME NEW j \in Jobs PROVE Made((jobsReplica')[j]) <=> Exists((jobsReplica')[j])
  <2>1. \/ UNCHANGED jobsReplica
        \/ \E i \in Jobs : jobsReplica' = [jobsReplica EXCEPT ![i] = jobs[i]]
    BY Actors, ActsFrame, EnvironmentFrame
  <2> QED BY <2>1, <1>0 DEF ReasonInv, RowsAreMade
<1> QED BY <1>1, <1>2 DEF RowsAreMade

LEMMA ReasonStays ==
  ASSUME ReasonInv, [Next]_vars, NEW w \in Workers, SameMemory(w)
  PROVE  ReasonOf(w)'
<1>0. JobInv /\ FenceInv /\ TypeInv /\ JobOf(w) \in Jobs /\ ReasonOf(w)
  BY ReasonTypes DEF ReasonInv
<1>1. JobOf(w)' = JobOf(w)
  BY <1>0, QueueJobsStay DEF SameMemory, JobOf, TypeInv, TypeOK, LocalTypeOK
<1>2. \A s \in RunStages : ClassifyRun(runs[<<JobOf(w), s>>]) = "failed_permanent" =>
                           ClassifyRun((runs')[<<JobOf(w), s>>]) = "failed_permanent"
  BY <1>0, SettledRunsStay DEF RunKeys
<1> QED BY <1>0, <1>1, <1>2 DEF ReasonOf, SameMemory

LEMMA ReasonOutside ==
  ASSUME Steady, ReasonInv, [Next]_vars, NEW w \in Workers,
         \/ Load(w) \/ Verify(w) \/ Reject(w) \/ Exhaust(w) \/ Fail(w) \/ Claim(w) \/ Reload(w)
         \/ Latest(w)
  PROVE  ReasonOf(w)'
<1> DEFINE j == JobOf(w)
<1>0. /\ JobInv /\ FenceInv /\ TypeInv /\ ReasonOf(w)
      /\ mine \in [Workers -> JobRecord] /\ j \in Jobs /\ jobs \in [Jobs -> JobRecord]
      /\ \A row \in GetJob(j) : Exists(row) => Made(row) /\ row \in JobRecord
  BY ReasonTypes DEF ReasonInv, RowsAreMade, GetJob
<1>1. CASE Leave(w)
  BY <1>0, <1>1, LeaveMemory DEF ReasonOf, PipelineLabels
<1>2. CASE Goto(w, "ack")
  BY <1>0, <1>2, GotoMoves DEF ReasonOf, PipelineLabels
<1>3. CASE Load(w)
  <2>1. CASE ~Goto(w, "ack")
    <3>1. PICK row \in GetJob(j) : Exists(row) /\ Goto(w, "verify") /\ mine' = [mine EXCEPT ![w] = row]
      BY <1>3, <2>1 DEF Load
    <3> QED BY <1>0, <3>1, GotoMoves DEF ReasonOf, PipelineLabels
  <2> QED BY <1>2, <2>1
<1>4. CASE Verify(w)
  <2>1. CASE Goto(w, "claim") /\ UNCHANGED mine /\ pc[w] = "verify"
    BY <1>0, <2>1, GotoMoves DEF ReasonOf, PipelineLabels
  <2> QED BY <1>2, <1>4, <2>1 DEF Verify, ReasonInv, localVars
<1>5. CASE Reject(w) \/ Exhaust(w) \/ Fail(w)
  BY <1>1, <1>2, <1>5 DEF Reject, Exhaust, Fail, MarkTerminalFailure
<1>6. CASE Claim(w)
  <2>1. pc[w] = "claim" /\ Made(mine[w])
    BY <1>0, <1>6 DEF Claim, ReasonOf
  <2>2. CASE mine[w].status # "QUEUED"
    <3>1. (pc')[w] = "latest" /\ UNCHANGED mine
      BY <1>0, <1>6, <2>2, GotoMoves DEF Claim
    <3> QED BY <2>1, <3>1 DEF ReasonOf, PipelineLabels
  <2>3. CASE mine[w].status = "QUEUED" /\ VersionMatches(j, mine[w])
    <3>1. (jobs')[j] = [[jobs[j] EXCEPT !.status = "RUNNING", !.stage = "DISCOVERY"]
                          EXCEPT !.version = @ + 1]
      BY <1>0, <1>6, <2>3 DEF Claim, UpdateJob
    <3>2. (jobs')[j].status = "RUNNING"
      BY <1>0, <3>1 DEF JobRecord
    <3>3. (pc')[w] = "latest" /\ (mine')[w] = (jobs')[j]
      BY <1>0, <1>6, <2>3, GotoMoves DEF Claim, Steady
    <3> QED BY <3>2, <3>3 DEF ReasonOf, PipelineLabels, Made
  <2>4. CASE mine[w].status = "QUEUED" /\ ~VersionMatches(j, mine[w])
    <3>1. (pc')[w] = "reload" /\ UNCHANGED mine
      BY <1>0, <1>6, <2>4, GotoMoves DEF Claim
    <3> QED BY <2>1, <2>4, <3>1 DEF ReasonOf, PipelineLabels
  <2> QED BY <2>2, <2>3, <2>4
<1>7. CASE Reload(w)
  <2>1. pc[w] = "reload"
    BY <1>7 DEF Reload
  <2>2. CASE Goto(w, "retrying") /\ UNCHANGED mine
    BY <1>0, <2>1, <2>2, GotoMoves DEF ReasonOf, PipelineLabels
  <2>3. ASSUME NEW row \in GetJob(j), Exists(row), Goto(w, "latest"), mine' = [mine EXCEPT ![w] = row]
        PROVE  ReasonOf(w)'
    BY <1>0, <2>3, GotoMoves DEF ReasonOf, PipelineLabels
  <2> QED BY <1>7, <2>2, <2>3 DEF Reload
<1>8. CASE Latest(w)
  <2>1. PICK row \in GetJob(j) \union {mine[w]} :
          /\ row = mine[w] \/ Exists(row)
          /\ mine' = [mine EXCEPT ![w] = row]
          /\ \/ Goto(w, "ack")
             \/ row.status = "QUEUED" /\ Goto(w, "fail")
             \/ row.status = "RUNNING" /\ Goto(w, "stage")
    BY <1>8 DEF Latest, Steady
  <2>2. Made(row)
    BY <1>0, <1>8, <2>1 DEF Latest, ReasonOf
  <2> QED BY <1>0, <1>2, <2>1, <2>2, GotoMoves DEF ReasonOf, PipelineLabels
<1> QED BY <1>3, <1>4, <1>5, <1>6, <1>7, <1>8

LEMMA ReasonInside ==
  ASSUME Steady, ReasonInv, [Next]_vars, NEW w \in Workers,
         \/ Stage(w) \/ ClaimRead(w) \/ ClaimWrite(w) \/ Resume(w) \/ Execute(w) \/ After(w)
         \/ Advance(w) \/ Project(w) \/ Build(w) \/ Save(w) \/ Finish(w)
  PROVE  ReasonOf(w)'
<1> DEFINE j == JobOf(w)
<1>0. /\ JobInv /\ FenceInv /\ TypeInv /\ ReasonOf(w) /\ pc[w] \in PipelineLabels
  BY ReasonTypes
     DEF ReasonInv, Stage, ClaimRead, ClaimWrite, Resume, Execute, After, Advance, Project, Build, Save,
         Finish, PipelineLabels
<1>1. JobOf(w)' = j /\ UNCHANGED mine
  BY DEF Stage, ClaimRead, ClaimWrite, Resume, Execute, After, Advance, Project, Build, Save, Finish,
         JobOf, queueVars, localVars
<1>2. (mine')[w].status = "RUNNING" /\ Made((mine')[w])
  BY <1>0, <1>1 DEF ReasonOf, PipelineLabels, Made
<1>3. CASE (pc')[w] \in PipelineLabels \union {"retrying", "ack"}
  BY <1>2, <1>3 DEF ReasonOf, PipelineLabels
<1>4. CASE Stage(w) /\ (pc')[w] = "fail"
  <2>1. UNCHANGED runs
    BY <1>4 DEF Stage, workVars, runVars
  <2>2. \E s \in RunStages : ClassifyRun(runs[<<j, s>>]) = "failed_permanent"
    <3>1. StageProof(j, IF current[w].stage \in RunStages THEN current[w].stage
                                                           ELSE "SECURITY_ANALYSIS")
            = "failed_permanent"
      BY <1>0, <1>4, GotoMoves DEF Stage
    <3> QED BY <3>1 DEF StageProof, RunStages
  <2> QED BY <1>1, <1>2, <1>4, <2>1, <2>2 DEF ReasonOf, PipelineLabels
<1>5. \/ Stage(w) /\ (pc')[w] = "fail"
      \/ (pc')[w] \in PipelineLabels \union {"retrying", "ack"}
  BY <1>0, PipelineExits
<1> QED BY <1>3, <1>4, <1>5

LEMMA ReasonEnd ==
  ASSUME Steady, ReasonInv, [Next]_vars, NEW w \in Workers,
         Retrying(w) \/ Ack(w) \/ RepositoryFault(w) \/ Die(w) \/ \E m \in Messages : Receive(w, m)
  PROVE  ReasonOf(w)'
<1> DEFINE j == JobOf(w)
<1>0. /\ JobInv /\ FenceInv /\ TypeInv /\ ReasonOf(w) /\ j \in Jobs /\ jobs \in [Jobs -> JobRecord]
      /\ mine \in [Workers -> JobRecord]
  BY ReasonTypes DEF ReasonInv
<1>1. CASE Leave(w)
  BY <1>0, <1>1, LeaveMemory DEF ReasonOf, PipelineLabels
<1>2. CASE \E m \in Messages : Receive(w, m)
  BY <1>0, <1>2, GotoMoves DEF Receive, ReasonOf, PipelineLabels
<1>3. CASE Retrying(w) /\ ~Leave(w)
  <2>1. /\ pc[w] = "retrying" /\ VersionMatches(j, mine[w])
        /\ UpdateJob(j, [jobs[j] EXCEPT !.retryCount = mine[w].retryCount + 1])
        /\ (jobs')[j].retryCount >= MaxReceiveCount
        /\ Goto(w, "exhaust") /\ mine' = [mine EXCEPT ![w] = (jobs')[j]]
    BY <1>3 DEF Retrying
  <2>2. jobs[j] = mine[w] /\ mine[w].status \in {"QUEUED", "RUNNING"}
    BY <1>0, <2>1 DEF VersionMatches, JobInv, Copies, Live, IsCopy, ReasonOf
  <2>3. (jobs')[j] = [[jobs[j] EXCEPT !.retryCount = mine[w].retryCount + 1] EXCEPT !.version = @ + 1]
    BY <1>0, <2>1 DEF UpdateJob
  <2>4. (jobs')[j].status \in {"QUEUED", "RUNNING"}
    BY <1>0, <2>2, <2>3 DEF JobRecord
  <2>5. (pc')[w] = "exhaust" /\ (mine')[w] = (jobs')[j]
    BY <1>0, <2>1, GotoMoves
  <2> QED BY <2>1, <2>4, <2>5 DEF ReasonOf, PipelineLabels, Made
<1> QED BY <1>1, <1>2, <1>3 DEF Ack, RepositoryFault, Die, Steady

LEMMA ClaimedFailuresNext ==
  ASSUME Steady, ReasonInv, [Next]_vars
  PROVE  ClaimedJobFailsForCause'
<1>0. JobInv /\ FenceInv /\ jobs \in [Jobs -> JobRecord] /\ MaxReceiveCount \in Nat
  BY ReasonTypes, QueueAssumption
<1>1. ASSUME NEW j \in Jobs, (jobs')[j].status = "FAILED", (jobs')[j].stage # "ENQUEUE"
      PROVE  \/ (jobs')[j].retryCount >= MaxReceiveCount
             \/ \E s \in RunStages : ClassifyRun((runs')[<<j, s>>]) = "failed_permanent"
  <2>1. \A s \in RunStages : ClassifyRun(runs[<<j, s>>]) = "failed_permanent" =>
                             ClassifyRun((runs')[<<j, s>>]) = "failed_permanent"
    BY <1>0, SettledRunsStay DEF RunKeys
  <2>2. CASE (jobs')[j] = jobs[j]
    BY <1>1, <2>1, <2>2 DEF ReasonInv, ClaimedJobFailsForCause
  <2>3. ASSUME NEW w \in Workers, JobOf(w) = j, RowWritten(w, j)
        PROVE  \/ (jobs')[j].retryCount >= MaxReceiveCount
               \/ \E s \in RunStages : ClassifyRun((runs')[<<j, s>>]) = "failed_permanent"
    <3>1. RowAdvanced(w, j) \/ RowRetried(w, j) => jobs[j].status \in {"QUEUED", "RUNNING"}
      BY <1>0 DEF RowAdvanced, RowRetried, JobInv, PipelineOK, PipelineLabels, ReasonInv, ReasonOf
    <3>2. RowFailed(w, j)
      BY <1>0, <1>1, <2>3, <3>1
         DEF RowWritten, RowClaimed, RowFailed, RowAdvanced, RowFinished, RowRetried, Written, JobRecord
    <3>3. ReasonOf(w) /\ pc[w] \in {"fail", "exhaust"} /\ jobs[j] = mine[w]
      BY <3>2 DEF RowFailed, ReasonInv, ReasonOf
    <3>4. (jobs')[j].retryCount = jobs[j].retryCount /\ (jobs')[j].stage = jobs[j].stage
      BY <1>0, <3>2 DEF RowFailed, Written, JobRecord
    <3>5. CASE pc[w] = "exhaust"
      BY <3>3, <3>4, <3>5 DEF ReasonOf
    <3>6. CASE pc[w] = "fail"
      <4>1. mine[w].status = "RUNNING"
        BY <1>0, <1>1, <3>3, <3>4, <3>6 DEF ReasonOf, JobInv, RowShape
      <4> QED BY <2>1, <2>3, <3>3, <3>6, <4>1 DEF ReasonOf
    <3> QED BY <3>3, <3>5, <3>6
  <2> QED BY <1>0, <2>2, <2>3, RowsAreWritten
<1> QED BY <1>1 DEF ClaimedJobFailsForCause

LEMMA ReasonStep ==
  ASSUME Steady, ReasonInv, [SystemNext]_systemVars
  PROVE  ReasonInv'
<1>0. SystemInv /\ SystemInv'
  BY SystemStep DEF ReasonInv
<1>1. CASE WorkersAct
  <2>1. [Next]_vars /\ TypeInv
    BY <1>1, ReasonTypes DEF WorkersAct
  <2>2. verified'
    BY <2>1, Actors, ActsFrame, EnvironmentFrame DEF ReasonInv, AccountChanges, Steady
  <2>3. \A w \in Workers : ReasonOf(w)'
    BY <2>1, SomeoneActs, OthersKeepMemory, ReasonStays, ReasonOutside, ReasonInside, ReasonEnd
       DEF Acts, WorkerStep
  <2> QED BY <1>0, <2>1, <2>2, <2>3, RowsAreMadeNext, ClaimedFailuresNext DEF ReasonInv
<1>2. CASE \E r \in Requests : RequestActs(r)
  BY <1>0, <1>2, RequestsKeepReasons DEF ReasonInv
<1> QED BY <1>0, <1>1, <1>2, SystemActions

LEMMA ReasonInit == SystemInit => ReasonInv
<1> SUFFICES ASSUME SystemInit PROVE ReasonInv
  OBVIOUS
<1>1. \A w \in Workers : pc[w] = "idle"
  BY DEF SystemInit, WorkerInit
<1>2. \A w \in Workers : ReasonOf(w)
  BY <1>1 DEF ReasonOf, PipelineLabels
<1>3. RowsAreMade /\ ClaimedJobFailsForCause
  <2>1. \A j \in Jobs : jobs[j] = NoJob /\ jobsReplica[j] = NoJob
    BY DEF SystemInit
  <2>2. NoJob.status = "NONE" /\ NoJob.version = 0
    BY DEF NoJob
  <2> QED BY <2>1, <2>2 DEF RowsAreMade, Made, Exists, ClaimedJobFailsForCause
<1>4. verified
  BY DEF SystemInit, WorkInit
<1> QED BY <1>2, <1>3, <1>4, SystemInitInv DEF ReasonInv

LEMMA ReasonHolds ==
  ASSUME Steady
  PROVE  SystemSpec => []ReasonInv
<1>1. ReasonInv /\ [SystemNext]_systemVars => ReasonInv'
  BY ReasonStep
<1> QED BY <1>1, ReasonInit, PTL DEF SystemSpec

\* How far a producer's race with the worker's claim reaches: it can fail a job that is still
\* at ENQUEUE, never one that a worker claimed.  Such a job fails for cause, while the account
\* stays VERIFIED and the tables answer.
THEOREM ClaimedJobsFailForCause ==
  ASSUME Steady
  PROVE  SystemSpec => []ClaimedJobFailsForCause
<1>1. ReasonInv => ClaimedJobFailsForCause
  BY DEF ReasonInv
<1> QED BY <1>1, ReasonHolds, PTL

-----------------------------------------------------------------------------
(* Requests and workers implement the lifecycle of a job.                  *)

LEMMA LifecycleSystemInit == SystemInit => Lifecycle!Init
<1> SUFFICES ASSUME SystemInit PROVE Lifecycle!Init
  OBVIOUS
<1>1. Status \in [Jobs -> {"NONE", "QUEUED"}]
  <2>1. \A j \in Jobs : jobs[j].status = "NONE"
    BY DEF SystemInit, NoJob
  <2> QED BY <2>1 DEF Status
<1>2. Done = [j \in Jobs |-> {}]
  <2>1. \A j \in Jobs, s \in RunStages : runs[<<j, s>>] = NoRun
    BY DEF SystemInit, WorkInit, RunTableInit, RunKeys
  <2>2. ~StageProofIsComplete(NoRun)
    BY InitialValues, CompleteRows DEF CompleteStatuses, NoRun
  <2> QED BY <2>1, <2>2 DEF Done
<1>3. Reported = [j \in Jobs |-> FALSE]
  BY DEF SystemInit, WorkInit, NoReport, Reported
<1> QED BY <1>1, <1>2, <1>3 DEF Lifecycle!Init, Status, Done, Reported

\* A request creates a job, or leaves the lifecycle where it is.
LEMMA LifecycleRequest ==
  ASSUME SystemInv, NEW r \in Requests, RequestActs(r)
  PROVE  Lifecycle!Next \/ UNCHANGED <<Status, Done, Reported>>
<1> PICK k \in Jobs : k = rkey[r]
  BY ProducerTypes DEF SystemInv
<1>0. jobs \in [Jobs -> JobRecord]
  BY SystemTypes
<1>1. UNCHANGED <<Done, Reported>>
  <2>1. UNCHANGED <<runs, reports>>
    BY DEF RequestActs, workerVars, runVars
  <2> QED BY <2>1 DEF Done, Reported
<1>2. CASE \A j \in Jobs : (jobs')[j].status = jobs[j].status
  <2>1. UNCHANGED Status
    BY <1>2 DEF Status
  <2> QED BY <1>1, <2>1
<1>3. CASE Create(r)
  <2>1. CASE UNCHANGED jobs
    BY <1>2, <2>1
  <2>2. CASE ~Exists(jobs[k]) /\ jobs' = [jobs EXCEPT ![k] = CreatedJob]
    <3>1. jobs[k].status = "NONE"
      BY <1>0, <2>2 DEF Exists, JobRecord, SystemInv, JobInv, RowShape, NoJob
    <3>2. CreatedJob.status = "QUEUED"
      BY DEF CreatedJob
    <3>3. Status' = [Status EXCEPT ![k] = "QUEUED"] /\ Status[k] = "NONE"
      BY <1>0, <2>2, <3>1, <3>2 DEF Status
    <3>4. Lifecycle!Create(k)
      BY <1>1, <3>3 DEF Lifecycle!Create, Lifecycle!Move, Status, Done, Reported
    <3> QED BY <1>0, <3>4 DEF Lifecycle!Next
  <2> QED BY <1>3, <2>1, <2>2 DEF Create
<1>4. CASE Quiet(r) \/ Send(r)
  BY <1>2, <1>4, QuietSteps DEF Send, tableVars
<1>5. CASE MarkEnqueued(r) \/ MarkFailed(r)
  <2>1. ASSUME NEW j \in Jobs PROVE (jobs')[j].status = jobs[j].status
    <3>1. CASE UNCHANGED jobs
      BY <3>1
    <3>2. ASSUME NEW status,
                 jobs' = [jobs EXCEPT ![k] =
                           [[jobs[k] EXCEPT !.queueStatus = status] EXCEPT !.version = @ + 1]]
          PROVE  (jobs')[j].status = jobs[j].status
      <4>1. PICK old \in JobRecord : old = jobs[k]
        BY <1>0
      <4>2. PICK new : new = [[old EXCEPT !.queueStatus = status] EXCEPT !.version = @ + 1]
        OBVIOUS
      <4>3. new.status = old.status
        BY <4>2 DEF JobRecord
      <4>4. jobs' = [jobs EXCEPT ![k] = new]
        BY <3>2, <4>1, <4>2
      <4> QED BY <1>0, <4>1, <4>3, <4>4
    <3>3. UNCHANGED jobs
          \/ UpdateJob(k, [jobs[k] EXCEPT !.queueStatus = "ENQUEUED"])
          \/ UpdateJob(k, [jobs[k] EXCEPT !.queueStatus = "ENQUEUE_FAILED"])
      BY <1>5 DEF MarkEnqueued, MarkFailed, Mark, tableVars
    <3> QED BY <3>1, <3>2, <3>3 DEF UpdateJob
  <2> QED BY <1>2, <2>1
<1> QED BY <1>3, <1>4, <1>5 DEF RequestActs, RequestStep, Quiet

\* End to end, the producer's requests and the workers implement the lifecycle a job is
\* promised: whatever is replayed, sent twice, marked late or read from a lagging replica, a
\* job is created once, completes each stage run at most once and in order, and settles once.
THEOREM SystemImplementsLifecycle ==
  ASSUME Steady
  PROVE  SystemSpec => ImplementsLifecycle
<1>1. ReasonInv /\ [SystemNext]_systemVars => [Lifecycle!Next]_<<Status, Done, Reported>>
  <2> SUFFICES ASSUME ReasonInv, [SystemNext]_systemVars
               PROVE  [Lifecycle!Next]_<<Status, Done, Reported>>
    OBVIOUS
  <2>1. CASE WorkersAct
    <3>1. RunnableJobsFail
      BY DEF ReasonInv, ReasonOf, RunnableJobsFail
    <3> QED BY <2>1, <3>1, ReasonTypes, LifecycleStep DEF WorkersAct
  <2>2. CASE \E r \in Requests : RequestActs(r)
    BY <2>2, LifecycleRequest DEF ReasonInv
  <2> QED BY <2>1, <2>2, SystemActions DEF ReasonInv
<1> QED
  BY <1>1, LifecycleSystemInit, ReasonHolds, PTL
     DEF SystemSpec, ImplementsLifecycle, Lifecycle!Spec, Lifecycle!lifecycleVars, Status, Done, Reported
================================================================================
