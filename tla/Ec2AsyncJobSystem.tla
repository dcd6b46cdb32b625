-------------------------- MODULE Ec2AsyncJobSystem --------------------------
(***************************************************************************)
(* The asynchronous EC2 analysis end to end: producer requests and worker  *)
(* invocations over the same job table, queue and stage-run rows.          *)
(***************************************************************************)
EXTENDS Ec2AsyncJobProducer, Ec2AsyncJobConsumer

systemVars == <<vars, producerVars>>

workerVars == <<runVars, reports, verified, pc, ttl, localVars>>

\* Nothing was requested yet.
SystemInit ==
  /\ jobs = [j \in Jobs |-> NoJob]
  /\ jobsReplica = jobs
  /\ queue = [m \in Messages |-> UnsentMessage(CHOOSE j \in Jobs : TRUE)]
  /\ duplicates = 0
  /\ WorkInit /\ WorkerInit /\ ProducerInit

SystemNext ==
  \/ \E r \in Requests : (RequestStep(r) \/ DieRequest(r)) /\ UNCHANGED workerVars
  \/ Next /\ UNCHANGED producerVars

SystemSpec == SystemInit /\ [][SystemNext]_systemVars

-----------------------------------------------------------------------------
(* Properties.                                                             *)

SystemTypeOK == TypeOK /\ ProducerTypeOK

\* A client that was told its analysis is enqueued will see it settle or find its
\* message in the dead-letter queue, whoever sent that message and whichever
\* update lost its race.
AcceptedJobIsNotLost ==
  \A r \in Requests :
    LET j == answer[r].job
    IN  answer[r].kind = "accepted" /\ answer[r].enqueued /\ ~IsTerminal(jobs[j]) =>
          \E m \in Messages : queue[m].job = j /\ queue[m].state \in {"sent", "dead"}

\* A client is only ever given a job of the scope it asked for: neither the key nor
\* the search for an active job crosses fingerprints.
AnswerHasRequestedScope ==
  \A r \in Requests :
    answer[r].kind \in {"accepted", "enqueueFailed"} =>
      Exists(jobs[answer[r].job]) /\ scope[answer[r].job] = rscope[r]

-----------------------------------------------------------------------------
(* Statements of the repository that the code does not keep.               *)

\* "on conflict, reload and reconcile" (ec2-async-job-engineer-2.md:11): while the
\* account stays VERIFIED, no job fails before a worker claimed it.
LostClaimIsReconciled ==
  \A j \in Jobs : jobs[j].status = "FAILED" => jobs[j].stage # "ENQUEUE"
=============================================================================
