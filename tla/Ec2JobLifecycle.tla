--------------------------- MODULE Ec2JobLifecycle ---------------------------
(***************************************************************************)
(* What the asynchronous EC2 analysis promises of a job, whatever the      *)
(* queue, the leases and the retries do: a job is created once, runs its   *)
(* stage runs in order and each to completion at most once, gets one       *)
(* report built after all of them, and then succeeds; it may fail instead  *)
(* at any time before it succeeds.  A settled job keeps its outcome.       *)
(***************************************************************************)
CONSTANT Jobs

VARIABLES
  status,    \* status[j]
  done,      \* done[j]: the stage runs of j that are complete
  reported   \* reported[j]: whether the report of j is persisted

lifecycleVars == <<status, done, reported>>

StageRuns == {"DISCOVERY", "COST_ANALYSIS", "SECURITY_ANALYSIS"}

Before ==
  [DISCOVERY |-> {}, COST_ANALYSIS |-> {"DISCOVERY"},
   SECURITY_ANALYSIS |-> {"DISCOVERY", "COST_ANALYSIS"}]

Init ==
  /\ status \in [Jobs -> {"NONE", "QUEUED"}]
  /\ done = [j \in Jobs |-> {}]
  /\ reported = [j \in Jobs |-> FALSE]

Move(j, from, to) ==
  /\ status[j] \in from
  /\ status' = [status EXCEPT ![j] = to]
  /\ UNCHANGED <<done, reported>>

Create(j) == Move(j, {"NONE"}, "QUEUED")

Start(j) == Move(j, {"QUEUED"}, "RUNNING")

FailJob(j) == Move(j, {"QUEUED", "RUNNING"}, "FAILED")

Succeed(j) == reported[j] /\ Move(j, {"RUNNING"}, "SUCCEEDED")

\* An invocation may complete the run it holds after another failed the job.
CompleteRun(j, s) ==
  /\ status[j] \in {"RUNNING", "FAILED"}
  /\ s \notin done[j] /\ Before[s] \subseteq done[j]
  /\ done' = [done EXCEPT ![j] = @ \union {s}]
  /\ UNCHANGED <<status, reported>>

SaveReport(j) ==
  /\ status[j] \in {"RUNNING", "FAILED"}
  /\ done[j] = StageRuns /\ ~reported[j]
  /\ reported' = [reported EXCEPT ![j] = TRUE]
  /\ UNCHANGED <<status, done>>

Next ==
  \E j \in Jobs :
    \/ Create(j) \/ Start(j) \/ FailJob(j) \/ Succeed(j) \/ SaveReport(j)
    \/ \E s \in StageRuns : CompleteRun(j, s)

Spec == Init /\ [][Next]_lifecycleVars
=============================================================================
