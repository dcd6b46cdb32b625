------------------------- MODULE Ec2AsyncJobProducer -------------------------
(***************************************************************************)
(* POST /analysis/ec2/start: the producer service that turns a request and *)
(* its Idempotency-Key into a durable job and a queue message.  Requests   *)
(* run concurrently with each other and with the workers; each may die     *)
(* between two accesses.  The job id is derived from the key, so a request *)
(* names its job directly; the job row and the idempotency row are written *)
(* in one transaction and never deleted, so one row stands for both.       *)
(***************************************************************************)
EXTENDS Ec2AsyncJobTable, Ec2StageRunTable, Ec2IntelligenceQueue,
        AwsAccountConnection, Sequences

CONSTANTS
  Requests,       \* requests in flight; bounds how many are ever made
  Scopes,         \* request fingerprints: account and regions
  ProducerFaults  \* which failures of the environment are explored

ProducerFaultKinds ==
  {"send",      \* SendMessage fails
   "sendLost",  \* SendMessage fails for the caller after the message was queued
   "die"}       \* the request's Lambda dies between two accesses

ASSUME ProducerAssumption ==
  /\ ProducerFaults \subseteq ProducerFaultKinds
  /\ Jobs # {} /\ Scopes # {}

VARIABLES
  scope,     \* scope[j]: the requestFingerprint of job j's rows
  listing,   \* the job ids in creation order, as the tenant's index lists them
  rpc,       \* rpc[r]: the access request r does next
  rkey,      \* rkey[r]: the job id its Idempotency-Key derives
  rscope,    \* rscope[r]: the fingerprint of its body
  rjob,      \* rjob[r]: startEc2IntelligenceJob's variable activeJob, then job
  ractive,   \* ractive[r]: the job id of activeJob
  answer     \* answer[r]: what the client was told

requestVars == <<rkey, rscope>>
producerVars == <<scope, listing, rpc, rkey, rscope, rjob, ractive, answer>>

RequestLabels ==
  {"account", "findActive", "proof", "lookup", "create", "replay", "queueCheck",
   "send", "markEnqueued", "markFailed", "done"}

\* job: the job id answered with; enqueued: the answer's enqueued flag.  A conflict
\* is 409 IDEMPOTENCY_CONFLICT; any other conflict surfaces as error 500.
Answers ==
  [kind : {"none", "accepted", "conflict", "unverified", "enqueueFailed", "error"},
   job : Jobs, enqueued : BOOLEAN]

NoAnswer(r) == [kind |-> "none", job |-> rkey[r], enqueued |-> FALSE]

\* The rows a query or a get may answer with, one for each job.
Views == {v \in [Jobs -> {jobs[j] : j \in Jobs} \union {jobsReplica[j] : j \in Jobs}] :
            \A j \in Jobs : v[j] \in GetJob(j)}

\* isEc2AsyncJobActive.  (A job is never PARTIAL.)
IsActive(job) ==
  job.queueStatus # "ENQUEUE_FAILED" /\ job.status \in {"QUEUED", "RUNNING"}

\* Mutant: the search forgets the fingerprint.
ActiveIn_AnyScope(view, sc) ==
  {i \in 1 .. Len(listing) : Exists(view[listing[i]]) /\ IsActive(view[listing[i]])}

\* Positions in the listing of the jobs that a view shows active in a scope.
ActiveIn(view, sc) ==
  {i \in 1 .. Len(listing) :
     LET j == listing[i] IN Exists(view[j]) /\ scope[j] = sc /\ IsActive(view[j])}

\* classifyScopeBlockFromProof: does a RUNNING job block its scope?  The age of the
\* row's metadata is abstracted, so a missing run row may block or not.
ScopeBlockedAnswers(j, stage) ==
  IF stage \notin RunStages THEN {TRUE}
  ELSE CASE StageProof(j, stage) = "in_progress_active" -> {TRUE}
         [] StageProof(j, stage) = "missing" -> {TRUE, FALSE}
         [] OTHER -> {FALSE}

GotoR(r, label) == rpc' = [rpc EXCEPT ![r] = label]

\* The request is over: its memory is gone.
Forget(r) ==
  /\ GotoR(r, "done")
  /\ rjob' = [rjob EXCEPT ![r] = NoJob]
  /\ ractive' = [ractive EXCEPT ![r] = rkey[r]]

Reply(r, kind, j, enqueued) ==
  /\ Forget(r)
  /\ answer' = [answer EXCEPT ![r] = [kind |-> kind, job |-> j, enqueued |-> enqueued]]

\* An active job of the scope is answered instead of a new one.
ReplyActive(r, j, job) == Reply(r, "accepted", j, job.queueStatus = "ENQUEUED")

-----------------------------------------------------------------------------
\* resolveVerifiedAccount.
ResolveAccount(r) ==
  /\ rpc[r] = "account"
  /\ \/ verified /\ GotoR(r, "findActive") /\ UNCHANGED <<rjob, ractive, answer>>
     \/ ~verified /\ Reply(r, "unverified", rkey[r], FALSE)
  /\ UNCHANGED <<tableVars, queueVars, scope, listing, requestVars>>

\* findNewestActiveJobByRequestFingerprint; a QUEUED job blocks its scope.
FindActive(r) ==
  /\ rpc[r] = "findActive"
  /\ \E view \in Views :
       LET found == ActiveIn(view, rscope[r])
           j == listing[CHOOSE i \in found : \A k \in found : k <= i]
       IN  \/ found = {} /\ GotoR(r, "lookup") /\ UNCHANGED <<rjob, ractive, answer>>
           \/ found # {} /\ view[j].status = "QUEUED" /\ ReplyActive(r, j, view[j])
           \/ /\ found # {} /\ view[j].status = "RUNNING"
              /\ GotoR(r, "proof")
              /\ rjob' = [rjob EXCEPT ![r] = view[j]]
              /\ ractive' = [ractive EXCEPT ![r] = j]
              /\ UNCHANGED answer
  /\ UNCHANGED <<tableVars, queueVars, scope, listing, requestVars>>

\* isEc2AsyncJobBlockingSameScopeStart of a RUNNING job: the proof of its stage.
Proof(r) ==
  /\ rpc[r] = "proof"
  /\ \E blocks \in ScopeBlockedAnswers(ractive[r], rjob[r].stage) :
       \/ blocks /\ ReplyActive(r, ractive[r], rjob[r])
       \/ ~blocks /\ GotoR(r, "lookup") /\ UNCHANGED <<rjob, ractive, answer>>
  /\ UNCHANGED <<tableVars, queueVars, scope, listing, requestVars>>

\* Mutant: a replayed job passes for enqueued unless its send is known to have failed.
Replayed_IsEnqueued(r, row) ==
  /\ Exists(row) /\ scope[rkey[r]] = rscope[r]
  /\ row.queueStatus # "ENQUEUE_FAILED"
  /\ Reply(r, "accepted", rkey[r], TRUE)

\* createIdempotentJob: a key that was used before replays its job, or conflicts
\* when the body differs.
Replayed(r, row) ==
  /\ Exists(row)
  /\ \/ scope[rkey[r]] # rscope[r] /\ Reply(r, "conflict", rkey[r], FALSE)
     \/ /\ scope[rkey[r]] = rscope[r]
        /\ GotoR(r, "queueCheck")
        /\ rjob' = [rjob EXCEPT ![r] = row]
        /\ UNCHANGED <<ractive, answer>>

Lookup(r) ==
  /\ rpc[r] = "lookup"
  /\ \E row \in GetJob(rkey[r]) :
       \/ Replayed(r, row)
       \/ ~Exists(row) /\ GotoR(r, "create") /\ UNCHANGED <<rjob, ractive, answer>>
  /\ UNCHANGED <<tableVars, queueVars, scope, listing, requestVars>>

\* The create-only transaction.
Create(r) ==
  /\ rpc[r] = "create"
  /\ LET j == rkey[r] IN
       \/ /\ ~Exists(jobs[j])
          /\ jobs' = [jobs EXCEPT ![j] = CreatedJob]
          /\ scope' = [scope EXCEPT ![j] = rscope[r]]
          /\ listing' = Append(listing, j)
          /\ rjob' = [rjob EXCEPT ![r] = CreatedJob]
          /\ GotoR(r, "queueCheck")
       \/ Exists(jobs[j]) /\ GotoR(r, "replay") /\ UNCHANGED <<jobs, scope, listing, rjob>>
  /\ UNCHANGED <<jobsReplica, queueVars, requestVars, ractive, answer>>

\* Who loses the creation replays the winner's job.
Replay(r) ==
  /\ rpc[r] = "replay"
  /\ \E row \in GetJob(rkey[r]) :
       Replayed(r, row) \/ (~Exists(row) /\ Reply(r, "error", rkey[r], FALSE))
  /\ UNCHANGED <<tableVars, queueVars, scope, listing, requestVars>>

\* A job already enqueued is answered; any other is sent, again if need be.
QueueCheck(r) ==
  /\ rpc[r] = "queueCheck"
  /\ \/ rjob[r].queueStatus = "ENQUEUED" /\ Reply(r, "accepted", rkey[r], TRUE)
     \/ rjob[r].queueStatus # "ENQUEUED" /\ GotoR(r, "send") /\ UNCHANGED <<rjob, ractive, answer>>
  /\ UNCHANGED <<tableVars, queueVars, scope, listing, requestVars>>

Send(r) ==
  /\ rpc[r] = "send"
  /\ \/ SendMessage(rkey[r]) /\ GotoR(r, "markEnqueued")
     \/ "send" \in ProducerFaults /\ GotoR(r, "markFailed") /\ UNCHANGED queueVars
     \/ "sendLost" \in ProducerFaults /\ SendMessage(rkey[r]) /\ GotoR(r, "markFailed")
  /\ UNCHANGED <<tableVars, scope, listing, requestVars, rjob, ractive, answer>>

\* The update after the send, under the version of the job as it was read: a worker
\* that claimed the job meanwhile makes it fail.
Mark(r, label, queueStatus, kind, enqueued) ==
  /\ rpc[r] = label
  /\ LET j == rkey[r] IN
       \/ /\ VersionMatches(j, rjob[r])
          /\ UpdateJob(j, [jobs[j] EXCEPT !.queueStatus = queueStatus])
          /\ \/ Reply(r, kind, j, enqueued)
             \/ "die" \in ProducerFaults /\ Forget(r) /\ UNCHANGED answer
       \/ /\ ~VersionMatches(j, rjob[r])
          /\ Reply(r, "error", j, FALSE)
          /\ UNCHANGED tableVars
  /\ UNCHANGED <<queueVars, scope, listing, requestVars>>

MarkEnqueued(r) == Mark(r, "markEnqueued", "ENQUEUED", "accepted", TRUE)

\* Mutant: the job status is written where the queue status belongs.
MarkFailed_WrongField(r) == Mark(r, "markFailed", "FAILED", "enqueueFailed", FALSE)

MarkFailed(r) == Mark(r, "markFailed", "ENQUEUE_FAILED", "enqueueFailed", FALSE)

\* The API Lambda dies, or appendEvent fails: the client gets no answer.
DieRequest(r) ==
  /\ "die" \in ProducerFaults
  /\ rpc[r] # "done"
  /\ Forget(r)
  /\ UNCHANGED <<tableVars, queueVars, scope, listing, requestVars, answer>>

RequestStep(r) ==
  \/ ResolveAccount(r) \/ FindActive(r) \/ Proof(r) \/ Lookup(r) \/ Create(r) \/ Replay(r)
  \/ QueueCheck(r) \/ Send(r) \/ MarkEnqueued(r) \/ MarkFailed(r)

ProducerInit ==
  /\ scope \in [Jobs -> {CHOOSE s \in Scopes : TRUE}]
  /\ listing = <<>>
  /\ rpc = [r \in Requests |-> "account"]
  /\ rkey \in [Requests -> Jobs]
  /\ rscope \in [Requests -> Scopes]
  /\ rjob = [r \in Requests |-> NoJob]
  /\ ractive = rkey
  /\ answer = [r \in Requests |-> NoAnswer(r)]

ProducerTypeOK ==
  /\ scope \in [Jobs -> Scopes]
  /\ listing \in Seq(Jobs)
  /\ rpc \in [Requests -> RequestLabels]
  /\ rkey \in [Requests -> Jobs]
  /\ rscope \in [Requests -> Scopes]
  /\ rjob \in [Requests -> JobRecord]
  /\ ractive \in [Requests -> Jobs]
  /\ answer \in [Requests -> Answers]
=============================================================================
