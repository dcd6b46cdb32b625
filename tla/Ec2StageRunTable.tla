-------------------------- MODULE Ec2StageRunTable ---------------------------
(***************************************************************************)
(* The stage-run rows of every job: discovery, cost and security, keyed by *)
(* job and stage.  Only the stage proofs are consistent reads.             *)
(***************************************************************************)
EXTENDS Ec2AsyncJobTable, Ec2StageRun

VARIABLES
  runs,        \* runs[<<j, s>>]: the row, as the leader holds it
  runsReplica  \* runsReplica[<<j, s>>]: the row, as a lagging replica holds it

runVars == <<runs, runsReplica>>

\* The stages backed by a run row.
RunStages == {"DISCOVERY", "COST_ANALYSIS", "SECURITY_ANALYSIS"}

RunKeys == Jobs \X RunStages

\* discoveryRunProof, costRunProof, securityRunProof: getRun with consistentRead.
StageProof(j, s) == ClassifyRun(runs[<<j, s>>])

\* getRun without consistentRead.
GetRun(j, s) ==
  IF "runs" \in StaleTables THEN {runs[<<j, s>>], runsReplica[<<j, s>>]} ELSE {runs[<<j, s>>]}

\* The replica catches up with the leader.
ReplicateRun(k) ==
  /\ "runs" \in StaleTables
  /\ runsReplica[k] # runs[k]
  /\ runsReplica' = [runsReplica EXCEPT ![k] = runs[k]]
  /\ UNCHANGED runs

RunTableInit ==
  /\ runs = [k \in RunKeys |-> NoRun]
  /\ runsReplica = runs

\* One clock tick on every lease.
AgeRuns ==
  /\ runs' = [k \in RunKeys |-> AgedRun(runs[k])]
  /\ runsReplica' = [k \in RunKeys |-> AgedRun(runsReplica[k])]

RunTableTypeOK ==
  /\ runs \in [RunKeys -> RunRecord]
  /\ runsReplica \in [RunKeys -> RunRecord]
=============================================================================
