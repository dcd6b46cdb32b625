------------------------ MODULE GovernanceConvergence ------------------------
(***************************************************************************)
(* The convergence history of one tracked control of one instance: what    *)
(* GovernanceConvergenceService and its DynamoDB repository do for every   *)
(* security analysis run, step by step between table accesses.  Runs       *)
(* overlap and arrive in any order, reads may miss the latest observation, *)
(* accesses fail (with the write applied or not), and a run may die.       *)
(* Observations and results are append-only; the controls of an account    *)
(* share nothing, so that one stands for all.                              *)
(***************************************************************************)
EXTENDS Naturals

CONSTANTS
  NumAnalysisRuns,  \* bound: the runs that analyse the account
  MaxTimestamp      \* bound: the instants at which runs start and analyse

ASSUME ConvergenceAssumption ==
  NumAnalysisRuns \in Nat \ {0} /\ MaxTimestamp \in Nat \ {0}

\* A run's number is the rank of its logical observation id, which is a hash.
AnalysisRuns == 1 .. NumAnalysisRuns

VARIABLES
  observations,   \* the observation rows
  results,        \* the observation-backed result rows
  missing,        \* the MISSING result rows
  checkpoint,     \* the latest-observed row of the control, rank 0 where there is none
  analysisRuns

convergenceVars == <<observations, results, missing, checkpoint, analysisRuns>>

Evidences == {"satisfied", "violated", "undefined"}

Observation == [ts : 0 .. MaxTimestamp, started : 0 .. MaxTimestamp,
                rank : 0 .. NumAnalysisRuns, evidence : Evidences]

NoObservation == [ts |-> 0, started |-> 0, rank |-> 0, evidence |-> "undefined"]

ConvergenceStates == {"PRESERVED", "IMPROVED", "REPLACED"}

\* A run: its step, its observation, the previous one it found, and what became of it.
AnalysisRun ==
  [pc : {"idle", "put", "recover", "result", "latest", "putLatest", "reconcile", "missing", "over"},
   observation : Observation, previous : Observation, expected : BOOLEAN,
   observed : BOOLEAN, failed : BOOLEAN]

IdleRun == [pc |-> "idle", observation |-> NoObservation, previous |-> NoObservation,
            expected |-> TRUE, observed |-> FALSE, failed |-> FALSE]

ConvergenceInit ==
  /\ observations = {} /\ results = {} /\ missing = {}
  /\ checkpoint = NoObservation
  /\ analysisRuns = [r \in AnalysisRuns |-> IdleRun]

(* Orders. *)

\* compareGovernanceObservationOrdering(o, p) < 0
Precedes(o, p) ==
  \/ o.ts < p.ts
  \/ o.ts = p.ts /\ o.started < p.started
  \/ o.ts = p.ts /\ o.started = p.started /\ o.rank < p.rank

\* compareLatestObservedControlOrdering(o, p) < 0, which is also the order of the sort key.
LatestPrecedes(o, p) == o.ts < p.ts \/ (o.ts = p.ts /\ o.rank < p.rank)

\* Mutant: the query takes the last row of the index.
FindPrevious_Last(o, seen) ==
  IF seen \ {o} = {} THEN NoObservation
  ELSE CHOOSE p \in seen \ {o} : \A q \in seen \ {o} : q = p \/ LatestPrecedes(q, p)

\* findRelevantPreviousObservation: the sort keys downwards, the first that precedes o.
FindPrevious(o, seen) ==
  LET before == {p \in seen : p.rank # o.rank /\ Precedes(p, o)}
  IN IF before = {} THEN NoObservation
     ELSE CHOOSE p \in before : \A q \in before : q = p \/ LatestPrecedes(q, p)

\* What an eventually consistent query answers: it may miss a row.
Seen == {observations} \union {observations \ {late} : late \in observations}

(* Evidence. *)

\* deriveGovernanceEvidenceFromFindings: a finding of the check, or one that gates it.
DerivedEvidence(direct, gate) ==
  IF direct THEN "violated" ELSE IF gate THEN "undefined" ELSE "satisfied"

\* assessGovernanceConvergence; one rule version, so that equal evidence is the same print.
AssessGovernanceConvergence(previous, current) ==
  CASE previous = current -> "PRESERVED"
    [] previous # current /\ current = "satisfied" -> "IMPROVED"
    [] previous # current /\ current # "satisfied" -> "REPLACED"

(* A run. *)

Advance(r, run) == analysisRuns' = [analysisRuns EXCEPT ![r] = run]
RunAt(r, pc) == analysisRuns[r].pc = pc
StepTo(r, pc) == Advance(r, [analysisRuns[r] EXCEPT !.pc = pc])

\* A run that is over keeps no more than whether it expected the control.
Ends(r) == Advance(r, [IdleRun EXCEPT !.pc = "over", !.expected = analysisRuns[r].expected])

\* An error is caught for the control; the run goes on to the reconciliation.
PersistenceFails(r) ==
  Advance(r, [analysisRuns[r] EXCEPT !.pc = "reconcile", !.previous = NoObservation,
                                      !.failed = TRUE])

\* The reads of recordObservation.  A run that does not record the control is one whose
\* shouldRecordCurrentObservation says so, which in production none does, or one that no
\* longer tracks the check.
RecordObservation(r) ==
  /\ RunAt(r, "idle")
  /\ \E ts \in 1 .. MaxTimestamp, direct, gate \in BOOLEAN : \E started \in 1 .. ts :
       LET o == [ts |-> ts, started |-> started, rank |-> r,
                 evidence |-> DerivedEvidence(direct, gate)]
           run == [IdleRun EXCEPT !.observation = o]
       IN \/ \E seen \in Seen :
               Advance(r, [run EXCEPT !.pc = "put", !.previous = FindPrevious(o, seen)])
          \/ Advance(r, [run EXCEPT !.pc = "reconcile", !.expected = FALSE])
          \/ Advance(r, [run EXCEPT !.pc = "reconcile", !.failed = TRUE])
  /\ UNCHANGED <<observations, results, missing, checkpoint>>

\* The conditional put.  When the client repeats a put that was applied, the condition
\* fails and the row is recovered.
PutObservation(r) ==
  /\ RunAt(r, "put")
  /\ \/ /\ observations' = observations \union {analysisRuns[r].observation}
        /\ StepTo(r, "result") \/ StepTo(r, "recover") \/ PersistenceFails(r)
     \/ PersistenceFails(r) /\ UNCHANGED observations
  /\ UNCHANGED <<results, missing, checkpoint>>

\* recoverResultForObservation compares with what is stored by now.
RecoverResult(r) ==
  /\ RunAt(r, "recover")
  /\ \/ \E seen \in Seen :
          Advance(r, [analysisRuns[r] EXCEPT !.pc = "result",
                        !.previous = FindPrevious(analysisRuns[r].observation, seen)])
     \/ PersistenceFails(r)
  /\ UNCHANGED <<observations, results, missing, checkpoint>>

ObservationBackedResult(run) ==
  [current |-> run.observation, previous |-> run.previous,
   state |-> AssessGovernanceConvergence(run.previous.evidence, run.observation.evidence)]

\* persistObservationBackedResult; a first sighting has no result.
PersistResult(r) ==
  /\ RunAt(r, "result")
  /\ LET run == analysisRuns[r]
     IN \/ /\ results' = IF run.previous = NoObservation THEN results
                          ELSE results \union {ObservationBackedResult(run)}
           /\ \/ Advance(r, [run EXCEPT !.pc = "latest", !.previous = NoObservation, !.observed = TRUE])
              \/ PersistenceFails(r)
        \/ PersistenceFails(r) /\ UNCHANGED results
  /\ UNCHANGED <<observations, missing, checkpoint>>

\* upsertLatestObservedControl: its read, which may be one of no row at all.
ReadLatest(r) ==
  /\ RunAt(r, "latest")
  /\ \/ LatestPrecedes(checkpoint, analysisRuns[r].observation) /\ StepTo(r, "putLatest")
     \/ ~LatestPrecedes(checkpoint, analysisRuns[r].observation)
        /\ (StepTo(r, "reconcile") \/ StepTo(r, "putLatest"))
     \/ PersistenceFails(r)
  /\ UNCHANGED <<observations, results, missing, checkpoint>>

\* Mutant: the put is not conditional.
MayAdvance_Always(o) == TRUE

MayAdvance(o) == LatestPrecedes(checkpoint, o)

\* A put whose condition fails is no error.
PutLatest(r) ==
  /\ RunAt(r, "putLatest")
  /\ LET o == analysisRuns[r].observation
     IN \/ /\ checkpoint' = IF MayAdvance(o) THEN o ELSE checkpoint
           /\ StepTo(r, "reconcile") \/ PersistenceFails(r)
        \/ PersistenceFails(r) /\ UNCHANGED checkpoint
  /\ UNCHANGED <<observations, results, missing>>

(* Reconciliation. *)

\* Mutant: a control whose write failed is taken for absent.
IsAbsent_AlsoFailed(run) == ~run.observed

\* Neither observed by the run, nor lost by a failed access.
IsAbsent(run) == ~run.observed /\ ~run.failed

\* isAuthoritativeForGovernanceAbsence; the security run is always SUCCEEDED here.
IsAuthoritativeForGovernanceAbsence(discovery, regionSucceeded, regionFailed, lifecycle) ==
  /\ lifecycle = "ACTIVE"
  /\ discovery \notin {"UNKNOWN", "FAILED"}
  /\ ~regionFailed /\ regionSucceeded

\* reconcileLiveMissingEvidence, of a run that analysed the instance.  It records nothing
\* where it has no authority, or where the list of checkpoints misses the row.
ReconcileLiveMissingEvidence(r) ==
  /\ RunAt(r, "reconcile")
  /\ \/ /\ checkpoint # NoObservation /\ IsAbsent(analysisRuns[r])
        /\ \E discovery \in {"UNKNOWN", "FAILED", "PARTIAL", "SUCCEEDED"},
              regionSucceeded, regionFailed \in BOOLEAN, lifecycle \in {"ACTIVE", "NOT_SEEN", "STALE"} :
             IsAuthoritativeForGovernanceAbsence(discovery, regionSucceeded, regionFailed, lifecycle)
        /\ StepTo(r, "missing")
     \/ Ends(r)
  /\ UNCHANGED <<observations, results, missing, checkpoint>>

MissingResult(r, previous) == [run |-> r, previous |-> previous]

\* recordMissingEvidence: evaluated at the run's own timestamp, after every observation of
\* that instant.
RecordMissingEvidence(r) ==
  /\ RunAt(r, "missing")
  /\ \E seen \in Seen :
       LET ts == analysisRuns[r].observation.ts
           previous == FindPrevious([ts |-> ts, started |-> ts, rank |-> NumAnalysisRuns + 1], seen)
       IN \/ /\ previous # NoObservation
             /\ missing' = missing \union {MissingResult(r, previous)}
          \/ UNCHANGED missing
  /\ Ends(r)
  /\ UNCHANGED <<observations, results, checkpoint>>

AnalysisRunDies(r) ==
  /\ ~RunAt(r, "idle") /\ ~RunAt(r, "over")
  /\ Ends(r)
  /\ UNCHANGED <<observations, results, missing, checkpoint>>

ConvergenceNext ==
  \E r \in AnalysisRuns :
    \/ RecordObservation(r) \/ PutObservation(r) \/ RecoverResult(r) \/ PersistResult(r)
    \/ ReadLatest(r) \/ PutLatest(r)
    \/ ReconcileLiveMissingEvidence(r) \/ RecordMissingEvidence(r) \/ AnalysisRunDies(r)

ConvergenceSpec == ConvergenceInit /\ [][ConvergenceNext]_convergenceVars

(* Properties. *)

ConvergenceTypeOK ==
  /\ observations \subseteq Observation /\ checkpoint \in Observation
  /\ results \subseteq [current : Observation, previous : Observation, state : ConvergenceStates]
  /\ missing \subseteq [run : AnalysisRuns, previous : Observation]
  /\ analysisRuns \in [AnalysisRuns -> AnalysisRun]

\* "Equal-timestamp candidates converge to one deterministic winner regardless of worker
\* arrival order" (ADR-INT-03): the checkpoint is a stored observation, and no run that
\* recorded its own without an error has one beyond it.
CheckpointKeepsUp ==
  /\ checkpoint # NoObservation => checkpoint \in observations
  /\ \A r \in AnalysisRuns :
       /\ RunAt(r, "reconcile") \/ RunAt(r, "missing")
       /\ analysisRuns[r].observed /\ ~analysisRuns[r].failed
       => ~LatestPrecedes(checkpoint, analysisRuns[r].observation)

\* However late an observation arrives, it is compared with a stored one that precedes it,
\* and with one only; a control counts as improved by evidence that was sufficient
\* (assessGovernanceConvergence, "never coerced").
ResultsAreSound ==
  \A x \in results :
    /\ {x.current, x.previous} \subseteq observations /\ Precedes(x.previous, x.current)
    /\ \A y \in results : y.current = x.current => y = x
    /\ x.state = "IMPROVED" => x.current.evidence = "satisfied" /\ x.previous.evidence # "satisfied"

\* MISSING is evidence that was expected and absent, never a write that failed (ADR-INT-03,
\* "technical observation persistence failures"), and never of a control nobody had seen.
MissingIsAbsence ==
  \A m \in missing :
    /\ ~analysisRuns[m.run].expected /\ m.previous \in observations
    /\ ~\E o \in observations : o.rank = m.run
=============================================================================
