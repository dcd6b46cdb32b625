------------------------- MODULE ReconciliationProofs -------------------------
(***************************************************************************)
(* What holds of the two stores that runs reconcile with what they saw of  *)
(* AWS, for every number of runs: the convergence history of a control, and *)
(* the inventory with its findings and recommendations.                    *)
(***************************************************************************)
EXTENDS GovernanceConvergence, Ec2Inventory, FiniteSetTheorems, WellFoundedInduction, TLAPS

\* Both take the last of what they stored.
LEMMA LeastNatural ==
  ASSUME NEW T, T \subseteq Nat, T # {}
  PROVE  \E x \in T : \A y \in T : x <= y
<1> DEFINE R == {ss \in Nat \X Nat : ss[1] < ss[2]}
<1>1. IsWellFoundedOn(R, Nat)
  BY NatLessThanWellFounded DEF OpToRel
<1> HIDE DEF R
<1>2. PICK x \in T : \A y \in T : ~(<<y, x>> \in R)
  BY <1>1, WFMin
<1>3. ASSUME NEW y \in T PROVE x <= y
  <2>1. x \in Nat /\ y \in Nat /\ ~(<<y, x>> \in R)
    BY <1>2
  <2>2. ~(y < x)
    BY <2>1 DEF R
  <2> QED BY <2>1, <2>2
<1> QED BY <1>2, <1>3

-----------------------------------------------------------------------------
(* The convergence history: its invariant.                                 *)

\* What a run compares its observation with: nothing, or a stored observation before it.
ComparableTo(previous, o) ==
  previous = NoObservation \/ (previous \in observations /\ Precedes(previous, o))

\* A run that was expected to record the control has done so or has failed by the time it
\* reconciles; one that was not has no observation.
RunIsSound(r, run) ==
  /\ run \in AnalysisRun
  /\ run.pc = "idle" => run = IdleRun
  /\ run.pc \notin {"idle", "over"} => run.observation.rank = r /\ run.observation.ts >= 1
  /\ run.pc \in {"idle", "put"} \/ ~run.expected => \A o \in observations : o.rank # r
  /\ run.pc \in {"recover", "result", "latest", "putLatest"} => run.observation \in observations
  /\ run.pc \in {"put", "recover", "result", "latest", "putLatest"} => run.expected
  /\ run.pc \in {"put", "result"} => ComparableTo(run.previous, run.observation)
  /\ run.pc \in {"put", "recover", "result"} => \A x \in results : x.current.rank # r
  /\ run.pc \in {"latest", "putLatest"} => run.observed
  /\ run.pc \notin {"idle", "over"} =>
       \A o \in observations : o.rank = r => o = run.observation
  /\ run.pc = "reconcile" /\ run.expected => run.observed \/ run.failed
  /\ run.pc = "missing" => ~run.expected
  /\ run.pc \in {"reconcile", "missing"} /\ run.observed /\ ~run.failed =>
       ~LatestPrecedes(checkpoint, run.observation)

OneObservationPerRun ==
  \A o, p \in observations : o.rank = p.rank => o = p

ObservationsAreOfRuns ==
  \A o \in observations : o.rank \in AnalysisRuns /\ o.ts >= 1

CheckpointIsStored == checkpoint = NoObservation \/ checkpoint \in observations

ConvergenceInv ==
  /\ ConvergenceTypeOK
  /\ \A r \in AnalysisRuns : RunIsSound(r, analysisRuns[r])
  /\ OneObservationPerRun /\ ObservationsAreOfRuns
  /\ CheckpointIsStored
  /\ ResultsAreSound
  /\ MissingIsAbsence

-----------------------------------------------------------------------------
(* Orders: the previous observation exists and precedes.                   *)

\* Of observations that differ in rank there is a last one.
LEMMA LastObservation ==
  ASSUME NEW S, S \subseteq Observation, S # {}, \A o, p \in S : o.rank = p.rank => o = p
  PROVE  \E p \in S : \A q \in S : q = p \/ LatestPrecedes(q, p)
<1>0. \A p \in S : p.ts \in 0 .. MaxTimestamp /\ p.rank \in 0 .. NumAnalysisRuns
  BY DEF Observation
<1>1. PICK p1 \in S : \A q \in S : q.ts <= p1.ts
  <2> DEFINE T == {MaxTimestamp - p.ts : p \in S}
  <2>1. T \subseteq Nat /\ T # {}
    BY <1>0, ConvergenceAssumption
  <2>2. PICK x \in T : \A y \in T : x <= y
    BY <2>1, LeastNatural
  <2>3. PICK p1 \in S : x = MaxTimestamp - p1.ts
    BY <2>2
  <2>4. \A q \in S : MaxTimestamp - q.ts \in T
    OBVIOUS
  <2>5. ASSUME NEW q \in S PROVE q.ts <= p1.ts
    <3>1. MaxTimestamp - p1.ts <= MaxTimestamp - q.ts
      BY <2>2, <2>3, <2>4
    <3>2. MaxTimestamp \in Nat /\ p1.ts \in Nat /\ q.ts \in Nat
      BY <1>0, ConvergenceAssumption
    <3> QED BY <3>1, <3>2
  <2> QED BY <2>5
<1>2. PICK p2 \in {p \in S : p.ts = p1.ts} : \A q \in {p \in S : p.ts = p1.ts} : q.rank <= p2.rank
  <2> DEFINE U == {p \in S : p.ts = p1.ts}
             T == {NumAnalysisRuns - p.rank : p \in U}
  <2>1. T \subseteq Nat /\ T # {}
    BY <1>0, ConvergenceAssumption
  <2>2. PICK x \in T : \A y \in T : x <= y
    BY <2>1, LeastNatural
  <2>3. PICK p2 \in U : x = NumAnalysisRuns - p2.rank
    BY <2>2
  <2>4. \A q \in U : NumAnalysisRuns - q.rank \in T
    OBVIOUS
  <2>5. ASSUME NEW q \in U PROVE q.rank <= p2.rank
    <3>1. NumAnalysisRuns - p2.rank <= NumAnalysisRuns - q.rank
      BY <2>2, <2>3, <2>4
    <3>2. NumAnalysisRuns \in Nat /\ p2.rank \in Nat /\ q.rank \in Nat
      BY <1>0, ConvergenceAssumption
    <3> QED BY <3>1, <3>2
  <2> QED BY <2>3, <2>5
<1>3. ASSUME NEW q \in S, q # p2 PROVE LatestPrecedes(q, p2)
  <2>1. q.ts <= p2.ts /\ (q.ts = p2.ts => q.rank <= p2.rank) /\ q.rank # p2.rank
    BY <1>1, <1>2, <1>3
  <2>2. q.ts \in Nat /\ p2.ts \in Nat /\ q.rank \in Nat /\ p2.rank \in Nat
    BY <1>0, <1>2, ConvergenceAssumption
  <2> QED BY <2>1, <2>2 DEF LatestPrecedes
<1> QED BY <1>2, <1>3

\* findRelevantPreviousObservation finds a row it has seen, of another run, that precedes.
LEMMA PreviousPrecedes ==
  ASSUME ConvergenceInv, NEW seen \in Seen, NEW o
  PROVE  \/ FindPrevious(o, seen) = NoObservation
         \/ FindPrevious(o, seen) \in observations /\ Precedes(FindPrevious(o, seen), o)
<1> DEFINE before == {p \in seen : p.rank # o.rank /\ Precedes(p, o)}
<1>1. seen \subseteq observations
  BY DEF Seen
<1>2. /\ before \subseteq Observation /\ before \subseteq observations
      /\ \A p \in before : Precedes(p, o)
      /\ \A p, q \in before : p.rank = q.rank => p = q
  BY <1>1 DEF ConvergenceInv, ConvergenceTypeOK, OneObservationPerRun
<1>3. CASE before = {}
  BY <1>3 DEF FindPrevious
<1>4. CASE before # {}
  <2> DEFINE Last(p) == \A q \in before : q = p \/ LatestPrecedes(q, p)
  <2>1. \E p \in before : Last(p)
    BY <1>2, <1>4, LastObservation
  <2>2. FindPrevious(o, seen) = CHOOSE p \in before : Last(p)
    BY <1>4 DEF FindPrevious
  <2> QED BY <1>2, <2>1, <2>2
<1> QED BY <1>3, <1>4

-----------------------------------------------------------------------------
(* A step of one run.                                                      *)

ResultRow == [current : Observation, previous : Observation, state : ConvergenceStates]

\* The rows a run's step may add are its own, and the checkpoint moves forward.
RowsGrow(r) ==
  /\ observations \subseteq observations' /\ observations' \subseteq Observation
  /\ \A o \in observations' \ observations :
       /\ o.rank = r /\ o.ts >= 1 /\ analysisRuns[r].expected
       /\ \A p \in observations' : p.rank = r => p = o
  /\ results' \subseteq ResultRow /\ \A x \in results' \ results : x.current.rank = r
  /\ checkpoint' \in Observation
  /\ \/ checkpoint' = checkpoint
     \/ LatestPrecedes(checkpoint, checkpoint') /\ checkpoint' \in observations'

LEMMA LatestTransitive ==
  ASSUME NEW o \in Observation, NEW p \in Observation, NEW q \in Observation,
         LatestPrecedes(p, q), LatestPrecedes(q, o)
  PROVE  LatestPrecedes(p, o)
  BY ConvergenceAssumption DEF LatestPrecedes, Observation

LEMMA OthersStaySound ==
  ASSUME ConvergenceTypeOK, NEW r \in AnalysisRuns, RowsGrow(r),
         NEW d \in AnalysisRuns \ {r}, NEW run, RunIsSound(d, run)
  PROVE  RunIsSound(d, run)'
<1>1. run \in AnalysisRun /\ run.observation \in Observation /\ checkpoint \in Observation
  BY DEF RunIsSound, AnalysisRun, ConvergenceTypeOK
<1>2. LatestPrecedes(checkpoint', run.observation) => LatestPrecedes(checkpoint, run.observation)
  BY <1>1, LatestTransitive DEF RowsGrow
<1>3. ComparableTo(run.previous, run.observation) => ComparableTo(run.previous, run.observation)'
  BY DEF ComparableTo, RowsGrow
<1>4. \A o \in observations' : o.rank = d => o \in observations
  BY DEF RowsGrow
<1>5. \A x \in results' : x.current.rank = d => x \in results
  BY DEF RowsGrow
<1>6. observations \subseteq observations'
  BY DEF RowsGrow
<1> QED BY <1>1, <1>2, <1>3, <1>4, <1>5, <1>6 DEF RunIsSound

LEMMA RunMoves ==
  ASSUME ConvergenceInv, NEW r \in AnalysisRuns, NEW run, Advance(r, run), RunIsSound(r, run)',
         RowsGrow(r), ~analysisRuns[r].expected => ~run.expected,
         ResultsAreSound',
         missing' \subseteq [run : AnalysisRuns, previous : Observation],
         \A m \in missing' \ missing : m.run = r /\ ~run.expected /\ m.previous \in observations
  PROVE  ConvergenceInv'
<1>1. ConvergenceTypeOK /\ run \in AnalysisRun /\ analysisRuns \in [AnalysisRuns -> AnalysisRun]
  BY DEF ConvergenceInv, ConvergenceTypeOK, RunIsSound
<1>2. analysisRuns'[r] = run /\ \A d \in AnalysisRuns \ {r} : analysisRuns'[d] = analysisRuns[d]
  BY <1>1 DEF Advance
<1>3. ConvergenceTypeOK'
  BY <1>1 DEF ConvergenceTypeOK, Advance, RowsGrow, ResultRow
<1>4. ASSUME NEW d \in AnalysisRuns PROVE RunIsSound(d, analysisRuns[d])'
  <2>1. CASE d = r
    BY <1>2, <2>1 DEF RunIsSound, ComparableTo
  <2>2. CASE d # r
    <3>1. PICK k : k = analysisRuns[d]
      OBVIOUS
    <3>2. RunIsSound(d, k)
      BY <3>1 DEF ConvergenceInv
    <3>3. RunIsSound(d, k)'
      BY <1>1, <2>2, <3>2, OthersStaySound
    <3> QED BY <1>2, <2>2, <3>1, <3>3 DEF RunIsSound, ComparableTo
  <2> QED BY <2>1, <2>2
<1>5. OneObservationPerRun' /\ ObservationsAreOfRuns'
  BY DEF ConvergenceInv, OneObservationPerRun, ObservationsAreOfRuns, RowsGrow
<1>6. CheckpointIsStored'
  BY DEF ConvergenceInv, CheckpointIsStored, RowsGrow
<1>7. MissingIsAbsence'
  <2> SUFFICES ASSUME NEW m \in missing'
               PROVE  /\ ~analysisRuns'[m.run].expected /\ m.previous \in observations'
                      /\ ~\E o \in observations' : o.rank = m.run
    BY DEF MissingIsAbsence
  <2>1. m.run \in AnalysisRuns /\ observations \subseteq observations'
    BY DEF RowsGrow
  <2>2. CASE m \in missing
    <3>1. ~analysisRuns[m.run].expected /\ m.previous \in observations
          /\ ~\E o \in observations : o.rank = m.run
      BY <2>2 DEF ConvergenceInv, MissingIsAbsence
    <3> QED BY <1>2, <2>1, <3>1 DEF RowsGrow
  <2>3. CASE m \notin missing
    <3>1. m.run = r /\ ~run.expected /\ m.previous \in observations
      BY <2>3
    <3>2. \A o \in observations' : o.rank # r
      BY <3>1 DEF RunIsSound
    <3> QED BY <1>2, <2>1, <3>1, <3>2
  <2> QED BY <2>2, <2>3
<1> QED BY <1>3, <1>4, <1>5, <1>6, <1>7 DEF ConvergenceInv

\* The steps that write no row.
LEMMA RunOnlyMoves ==
  ASSUME ConvergenceInv, NEW r \in AnalysisRuns, NEW run, Advance(r, run), RunIsSound(r, run),
         UNCHANGED <<observations, results, missing, checkpoint>>,
         ~analysisRuns[r].expected => ~run.expected
  PROVE  ConvergenceInv'
<1>1. RunIsSound(r, run)'
  BY DEF RunIsSound, ComparableTo
<1>2. RowsGrow(r) /\ missing' \subseteq [run : AnalysisRuns, previous : Observation]
  BY DEF RowsGrow, ConvergenceInv, ConvergenceTypeOK, ResultRow
<1>3. ResultsAreSound'
  BY DEF ConvergenceInv, ResultsAreSound
<1> QED BY <1>1, <1>2, <1>3, RunMoves

-----------------------------------------------------------------------------
(* The history's steps.                                                    *)

LEMMA RunTypes ==
  ASSUME ConvergenceInv, NEW r \in AnalysisRuns
  PROVE  /\ analysisRuns[r] \in AnalysisRun /\ RunIsSound(r, analysisRuns[r])
         /\ NoObservation \in Observation /\ IdleRun \in AnalysisRun /\ IdleRun.expected = TRUE
         /\ IdleRun.observed = FALSE /\ IdleRun.failed = FALSE /\ IdleRun.pc = "idle"
<1>1. NoObservation \in Observation
  BY ConvergenceAssumption DEF NoObservation, Observation, Evidences
<1> QED BY <1>1 DEF ConvergenceInv, ConvergenceTypeOK, IdleRun, AnalysisRun

\* A run that has failed goes on to the reconciliation, whatever rows it added.
LEMMA FailedIsSound ==
  ASSUME ConvergenceInv, NEW r \in AnalysisRuns, NEW k, k = analysisRuns[r],
         k.pc \notin {"idle", "over"}, RowsGrow(r),
         \A o \in observations' : o.rank = r => o = k.observation,
         NEW run, run = [k EXCEPT !.pc = "reconcile", !.previous = NoObservation, !.failed = TRUE]
  PROVE  RunIsSound(r, run)' /\ (~k.expected => ~run.expected)
<1>1. /\ run \in AnalysisRun /\ run.pc = "reconcile" /\ run.failed = TRUE /\ run.observation = k.observation
      /\ run.expected = k.expected
  BY RunTypes DEF AnalysisRun
<1>2. /\ k.observation.rank = r /\ k.observation.ts >= 1
      /\ ~k.expected => \A o \in observations' : o.rank # r
  BY RunTypes DEF RunIsSound, RowsGrow
<1> QED BY <1>1, <1>2 DEF RunIsSound

LEMMA EndedIsSound ==
  ASSUME ConvergenceInv, NEW r \in AnalysisRuns, ~RunAt(r, "idle"),
         NEW run, run = [IdleRun EXCEPT !.pc = "over", !.expected = analysisRuns[r].expected]
  PROVE  RunIsSound(r, run) /\ (~analysisRuns[r].expected => ~run.expected) /\ run.expected = analysisRuns[r].expected
<1>1. run \in AnalysisRun /\ run.pc = "over" /\ run.expected = analysisRuns[r].expected
  BY RunTypes DEF AnalysisRun
<1> QED BY <1>1, RunTypes DEF RunIsSound

LEMMA ObservationBegins ==
  ASSUME ConvergenceInv, NEW r \in AnalysisRuns, RecordObservation(r)
  PROVE  ConvergenceInv'
<1>1. PICK ts \in 1 .. MaxTimestamp, direct \in BOOLEAN, gate \in BOOLEAN :
        \E started \in 1 .. ts :
          LET o == [ts |-> ts, started |-> started, rank |-> r,
                    evidence |-> DerivedEvidence(direct, gate)]
              run == [IdleRun EXCEPT !.observation = o]
          IN \/ \E seen \in Seen :
                  Advance(r, [run EXCEPT !.pc = "put", !.previous = FindPrevious(o, seen)])
             \/ Advance(r, [run EXCEPT !.pc = "reconcile", !.expected = FALSE])
             \/ Advance(r, [run EXCEPT !.pc = "reconcile", !.failed = TRUE])
  BY DEF RecordObservation
<1>2. PICK started \in 1 .. ts :
        LET o == [ts |-> ts, started |-> started, rank |-> r,
                  evidence |-> DerivedEvidence(direct, gate)]
            run == [IdleRun EXCEPT !.observation = o]
        IN \/ \E seen \in Seen :
                Advance(r, [run EXCEPT !.pc = "put", !.previous = FindPrevious(o, seen)])
           \/ Advance(r, [run EXCEPT !.pc = "reconcile", !.expected = FALSE])
           \/ Advance(r, [run EXCEPT !.pc = "reconcile", !.failed = TRUE])
  BY <1>1
<1>3. DerivedEvidence(direct, gate) \in Evidences
  BY DEF DerivedEvidence, Evidences
<1>4. PICK o : o = [ts |-> ts, started |-> started, rank |-> r, evidence |-> DerivedEvidence(direct, gate)]
  OBVIOUS
<1>5. o \in Observation /\ o.rank = r /\ o.ts >= 1
  <2>1. ts \in 0 .. MaxTimestamp /\ started \in 0 .. MaxTimestamp /\ r \in 0 .. NumAnalysisRuns /\ ts >= 1
    BY ConvergenceAssumption DEF AnalysisRuns
  <2> QED BY <1>3, <1>4, <2>1 DEF Observation
<1>6. PICK run : run = [IdleRun EXCEPT !.observation = o]
  OBVIOUS
<1>7. /\ run \in AnalysisRun /\ run.observation = o /\ run.expected = TRUE /\ run.observed = FALSE
      /\ run.failed = FALSE /\ run.pc = "idle" /\ analysisRuns[r].expected
      /\ UNCHANGED <<observations, results, missing, checkpoint>>
  BY <1>5, <1>6, RunTypes DEF AnalysisRun, RecordObservation, RunAt, RunIsSound
<1>8. /\ \A p \in observations : p.rank # r
      /\ \A x \in results : x.current.rank # r
  <2>1. \A p \in observations : p.rank # r
    BY RunTypes DEF RecordObservation, RunAt, RunIsSound
  <2>2. \A x \in results : x.current \in observations
    BY DEF ConvergenceInv, ResultsAreSound
  <2> QED BY <2>1, <2>2
<1>9. ASSUME NEW seen \in Seen, Advance(r, [run EXCEPT !.pc = "put", !.previous = FindPrevious(o, seen)])
      PROVE  ConvergenceInv'
  <2>1. PICK prev : prev = FindPrevious(o, seen)
    OBVIOUS
  <2>2. prev \in Observation /\ ComparableTo(prev, o)
    BY <2>1, PreviousPrecedes, RunTypes DEF ComparableTo, ConvergenceInv, ConvergenceTypeOK
  <2>3. PICK new : new = [run EXCEPT !.pc = "put", !.previous = prev]
    OBVIOUS
  <2>4. /\ new \in AnalysisRun /\ new.pc = "put" /\ new.observation = o /\ new.previous = prev
        /\ new.expected = TRUE
    BY <1>7, <2>2, <2>3 DEF AnalysisRun
  <2>5. RunIsSound(r, new)
    BY <1>5, <1>8, <2>2, <2>4 DEF RunIsSound
  <2> QED BY <1>7, <1>9, <2>1, <2>3, <2>5, RunOnlyMoves
<1>10. ASSUME Advance(r, [run EXCEPT !.pc = "reconcile", !.expected = FALSE])
       PROVE  ConvergenceInv'
  <2>1. PICK new : new = [run EXCEPT !.pc = "reconcile", !.expected = FALSE]
    OBVIOUS
  <2>2. /\ new \in AnalysisRun /\ new.pc = "reconcile" /\ new.observation = o /\ new.observed = FALSE
        /\ new.expected = FALSE
    BY <1>7, <2>1 DEF AnalysisRun
  <2>3. RunIsSound(r, new)
    BY <1>5, <1>8, <2>2 DEF RunIsSound
  <2> QED BY <1>7, <1>10, <2>1, <2>3, RunOnlyMoves
<1>11. ASSUME Advance(r, [run EXCEPT !.pc = "reconcile", !.failed = TRUE])
       PROVE  ConvergenceInv'
  <2>1. PICK new : new = [run EXCEPT !.pc = "reconcile", !.failed = TRUE]
    OBVIOUS
  <2>2. /\ new \in AnalysisRun /\ new.pc = "reconcile" /\ new.observation = o /\ new.failed = TRUE
    BY <1>7, <2>1 DEF AnalysisRun
  <2>3. RunIsSound(r, new)
    BY <1>5, <1>8, <2>2 DEF RunIsSound
  <2> QED BY <1>7, <1>11, <2>1, <2>3, RunOnlyMoves
<1> QED BY <1>2, <1>4, <1>6, <1>9, <1>10, <1>11

LEMMA ObservationIsPut ==
  ASSUME ConvergenceInv, NEW r \in AnalysisRuns, PutObservation(r)
  PROVE  ConvergenceInv'
<1>1. PICK k : k = analysisRuns[r]
  OBVIOUS
<1>2. /\ k \in AnalysisRun /\ RunIsSound(r, k) /\ k.pc = "put" /\ k.observation \in Observation
      /\ UNCHANGED <<results, missing, checkpoint>> /\ ConvergenceTypeOK /\ analysisRuns[r].expected
  BY <1>1, RunTypes DEF PutObservation, RunAt, AnalysisRun, ConvergenceInv, RunIsSound
<1>3. observations' \in {observations, observations \union {k.observation}}
  BY <1>1 DEF PutObservation
<1>4. k.observation.rank = r /\ k.observation.ts >= 1 /\ \A o \in observations : o.rank # r
  BY <1>2 DEF RunIsSound
<1>5. RowsGrow(r)
  BY <1>2, <1>3, <1>4 DEF RowsGrow, ConvergenceTypeOK, ResultRow
<1>6. ResultsAreSound'
  BY <1>2, <1>3 DEF ConvergenceInv, ResultsAreSound
<1>7. ASSUME NEW run, Advance(r, run), RunIsSound(r, run)' PROVE ConvergenceInv'
  BY <1>2, <1>5, <1>6, <1>7, RunMoves DEF ConvergenceTypeOK
<1>8. ASSUME PersistenceFails(r) PROVE ConvergenceInv'
  <2>1. PICK run : run = [k EXCEPT !.pc = "reconcile", !.previous = NoObservation, !.failed = TRUE]
    OBVIOUS
  <2>2. \A o \in observations' : o.rank = r => o = k.observation
    BY <1>3, <1>4
  <2>3. RunIsSound(r, run)'
    <3>1. k.pc \notin {"idle", "over"}
      BY <1>2
    <3> QED BY <1>1, <1>5, <2>1, <2>2, <3>1, FailedIsSound
  <2> QED BY <1>1, <1>7, <1>8, <2>1, <2>3 DEF PersistenceFails
<1>9. ASSUME NEW pc \in {"result", "recover"}, StepTo(r, pc),
             observations' = observations \union {k.observation}
      PROVE  ConvergenceInv'
  <2>1. PICK run : run = [k EXCEPT !.pc = pc]
    OBVIOUS
  <2>2. /\ run \in AnalysisRun /\ run.pc = pc /\ run.observation = k.observation
        /\ run.previous = k.previous /\ run.expected = k.expected
    BY <1>2, <2>1 DEF AnalysisRun
  <2>3. ComparableTo(run.previous, run.observation)'
    BY <1>2, <1>9, <2>2 DEF RunIsSound, ComparableTo
  <2>4. k.expected /\ \A x \in results : x.current.rank # r
    BY <1>2 DEF RunIsSound
  <2>5. \A o \in observations' : o.rank = r => o = run.observation
    BY <1>4, <1>9, <2>2
  <2>6. RunIsSound(r, run)'
    BY <1>2, <1>4, <1>9, <2>2, <2>3, <2>4, <2>5 DEF RunIsSound
  <2> QED BY <1>1, <1>7, <1>9, <2>1, <2>6 DEF StepTo
<1> QED BY <1>1, <1>8, <1>9 DEF PutObservation

\* The steps that write no row: a read, a failure, an end.
LEMMA RunsRead ==
  ASSUME ConvergenceInv, NEW r \in AnalysisRuns,
         RecoverResult(r) \/ ReadLatest(r) \/ ReconcileLiveMissingEvidence(r) \/ AnalysisRunDies(r)
  PROVE  ConvergenceInv'
<1>0. PICK k : k = analysisRuns[r]
  OBVIOUS
<1>1. /\ k \in AnalysisRun /\ RunIsSound(r, k) /\ ConvergenceTypeOK
      /\ UNCHANGED <<observations, results, missing, checkpoint>> /\ k.pc # "idle" /\ k.pc # "over"
  BY <1>0, RunTypes
     DEF RecoverResult, ReadLatest, ReconcileLiveMissingEvidence, AnalysisRunDies, RunAt, ConvergenceInv
<1>2. /\ RowsGrow(r) /\ \A o \in observations' : o.rank = r => o = k.observation
      /\ k.observation.rank = r /\ k.observation.ts >= 1
  BY <1>1 DEF RowsGrow, ConvergenceTypeOK, RunIsSound, ResultRow
<1>3. ASSUME PersistenceFails(r) PROVE ConvergenceInv'
  <2>1. PICK run : run = [k EXCEPT !.pc = "reconcile", !.previous = NoObservation, !.failed = TRUE]
    OBVIOUS
  <2>2. RunIsSound(r, run)' /\ (~k.expected => ~run.expected)
    BY <1>0, <1>1, <1>2, <2>1, FailedIsSound
  <2>3. RunIsSound(r, run)
    BY <1>1, <2>2 DEF RunIsSound, ComparableTo
  <2> QED BY <1>0, <1>1, <1>3, <2>1, <2>2, <2>3, RunOnlyMoves DEF PersistenceFails
<1>4. ASSUME Ends(r) PROVE ConvergenceInv'
  <2>1. PICK run : run = [IdleRun EXCEPT !.pc = "over", !.expected = k.expected]
    OBVIOUS
  <2>2. RunIsSound(r, run) /\ (~k.expected => ~run.expected)
    BY <1>0, <1>1, <2>1, EndedIsSound DEF RunAt
  <2> QED BY <1>0, <1>1, <1>4, <2>1, <2>2, RunOnlyMoves DEF Ends
<1>5. ASSUME NEW run, Advance(r, run), RunIsSound(r, run), run.expected = k.expected PROVE ConvergenceInv'
  BY <1>0, <1>1, <1>5, RunOnlyMoves
<1>6. ASSUME NEW pc \in {"putLatest", "reconcile", "missing"}, StepTo(r, pc),
             pc = "putLatest" => k.pc = "latest",
             pc = "reconcile" => k.pc = "latest" /\ ~LatestPrecedes(checkpoint, k.observation),
             pc = "missing" => k.pc = "reconcile" /\ ~k.observed /\ ~k.failed
      PROVE  ConvergenceInv'
  <2>1. PICK run : run = [k EXCEPT !.pc = pc]
    OBVIOUS
  <2>2. /\ run \in AnalysisRun /\ run.pc = pc /\ run.observation = k.observation
        /\ run.previous = k.previous /\ run.expected = k.expected /\ run.observed = k.observed
        /\ run.failed = k.failed
    BY <1>1, <2>1 DEF AnalysisRun
  <2>3. CASE pc = "putLatest"
    BY <1>1, <1>6, <2>2, <2>3, <1>5, <1>0, <2>1 DEF RunIsSound, StepTo
  <2>4. CASE pc = "reconcile"
    BY <1>1, <1>6, <2>2, <2>4, <1>5, <1>0, <2>1 DEF RunIsSound, StepTo
  <2>5. CASE pc = "missing"
    BY <1>1, <1>6, <2>2, <2>5, <1>5, <1>0, <2>1 DEF RunIsSound, StepTo
  <2> QED BY <2>3, <2>4, <2>5
<1>7. CASE RecoverResult(r)
  <2>1. ASSUME NEW seen \in Seen,
               Advance(r, [k EXCEPT !.pc = "result", !.previous = FindPrevious(k.observation, seen)])
        PROVE  ConvergenceInv'
    <3>1. PICK prev : prev = FindPrevious(k.observation, seen)
      OBVIOUS
    <3>2. prev \in Observation /\ ComparableTo(prev, k.observation)
      BY <1>1, <3>1, PreviousPrecedes, RunTypes DEF ComparableTo, ConvergenceTypeOK
    <3>3. PICK run : run = [k EXCEPT !.pc = "result", !.previous = prev]
      OBVIOUS
    <3>4. /\ run \in AnalysisRun /\ run.pc = "result" /\ run.observation = k.observation
          /\ run.previous = prev /\ run.expected = k.expected
      BY <1>1, <3>2, <3>3 DEF AnalysisRun
    <3>5. k.pc = "recover"
      BY <1>0, <1>7 DEF RecoverResult, RunAt
    <3>6. RunIsSound(r, run)
      BY <1>1, <3>2, <3>4, <3>5 DEF RunIsSound
    <3> QED BY <1>5, <2>1, <3>1, <3>3, <3>4, <3>6
  <2> QED BY <1>0, <1>3, <1>7, <2>1 DEF RecoverResult
<1>8. CASE ReadLatest(r)
  BY <1>0, <1>3, <1>6, <1>8 DEF ReadLatest, RunAt
<1>9. CASE ReconcileLiveMissingEvidence(r)
  BY <1>0, <1>4, <1>6, <1>9 DEF ReconcileLiveMissingEvidence, RunAt, IsAbsent
<1>10. CASE AnalysisRunDies(r)
  BY <1>4, <1>10 DEF AnalysisRunDies
<1> QED BY <1>7, <1>8, <1>9, <1>10

LEMMA LatestIsPut ==
  ASSUME ConvergenceInv, NEW r \in AnalysisRuns, PutLatest(r)
  PROVE  ConvergenceInv'
<1>1. PICK k : k = analysisRuns[r]
  OBVIOUS
<1>2. /\ k \in AnalysisRun /\ RunIsSound(r, k) /\ k.pc = "putLatest" /\ k.observation \in Observation
      /\ UNCHANGED <<observations, results, missing>> /\ ConvergenceTypeOK
  BY <1>1, RunTypes DEF PutLatest, RunAt, AnalysisRun, ConvergenceInv
<1>3. /\ k.observation.rank = r /\ k.observation.ts >= 1 /\ k.observation \in observations
      /\ \A o \in observations' : o.rank = r => o = k.observation
  BY <1>2 DEF RunIsSound
<1>4. RowsGrow(r)
  BY <1>1, <1>2, <1>3 DEF RowsGrow, ConvergenceTypeOK, ResultRow, PutLatest, MayAdvance
<1>5. ResultsAreSound'
  BY <1>2 DEF ConvergenceInv, ResultsAreSound
<1>6. ASSUME NEW run, Advance(r, run), RunIsSound(r, run)', run.expected = k.expected PROVE ConvergenceInv'
  BY <1>1, <1>2, <1>4, <1>5, <1>6, RunMoves DEF ConvergenceTypeOK
<1>7. ASSUME PersistenceFails(r) PROVE ConvergenceInv'
  <2>1. PICK run : run = [k EXCEPT !.pc = "reconcile", !.previous = NoObservation, !.failed = TRUE]
    OBVIOUS
  <2>2. run.expected = k.expected
    BY <1>2, <2>1 DEF AnalysisRun
  <2>3. RunIsSound(r, run)'
    BY <1>1, <1>2, <1>3, <1>4, <2>1, FailedIsSound
  <2> QED BY <1>1, <1>6, <1>7, <2>1, <2>2, <2>3 DEF PersistenceFails
<1>8. ASSUME StepTo(r, "reconcile"),
             checkpoint' = IF MayAdvance(k.observation) THEN k.observation ELSE checkpoint
      PROVE  ConvergenceInv'
  <2>1. PICK run : run = [k EXCEPT !.pc = "reconcile"]
    OBVIOUS
  <2>2. /\ run \in AnalysisRun /\ run.pc = "reconcile" /\ run.observation = k.observation
        /\ run.expected = k.expected /\ run.observed = k.observed
    BY <1>2, <2>1 DEF AnalysisRun
  <2>3. ~LatestPrecedes(checkpoint', k.observation)
    <3>1. ~LatestPrecedes(k.observation, k.observation)
      BY <1>2, ConvergenceAssumption DEF LatestPrecedes, Observation
    <3> QED BY <1>8, <3>1 DEF MayAdvance
  <2>4. RunIsSound(r, run)'
    BY <1>2, <1>3, <2>2, <2>3 DEF RunIsSound
  <2> QED BY <1>1, <1>6, <1>8, <2>1, <2>2, <2>4 DEF StepTo
<1> QED BY <1>1, <1>7, <1>8 DEF PutLatest

LEMMA MissingIsRecorded ==
  ASSUME ConvergenceInv, NEW r \in AnalysisRuns, RecordMissingEvidence(r)
  PROVE  ConvergenceInv'
<1>1. PICK k : k = analysisRuns[r]
  OBVIOUS
<1>2. /\ k \in AnalysisRun /\ RunIsSound(r, k) /\ k.pc = "missing" /\ ~k.expected
      /\ UNCHANGED <<observations, results, checkpoint>> /\ ConvergenceTypeOK /\ Ends(r)
  BY <1>1, RunTypes DEF RecordMissingEvidence, RunAt, ConvergenceInv, RunIsSound
<1>3. PICK run : run = [IdleRun EXCEPT !.pc = "over", !.expected = k.expected]
  OBVIOUS
<1>4. RunIsSound(r, run)' /\ run.expected = k.expected
  <2>1. ~RunAt(r, "idle")
    BY <1>1, <1>2 DEF RunAt
  <2>2. RunIsSound(r, run) /\ run.expected = k.expected
    BY <1>1, <1>3, <2>1, EndedIsSound
  <2> QED BY <1>2, <2>2 DEF RunIsSound, ComparableTo
<1>5. RowsGrow(r) /\ ResultsAreSound'
  BY <1>2 DEF RowsGrow, ConvergenceTypeOK, ResultRow, ConvergenceInv, ResultsAreSound
<1>6. PICK seen \in Seen :
        \E o : LET previous == FindPrevious(o, seen)
               IN \/ previous # NoObservation /\ missing' = missing \union {MissingResult(r, previous)}
                  \/ UNCHANGED missing
  BY <1>1 DEF RecordMissingEvidence
<1>7. \A m \in missing' \ missing : m.run = r /\ m.previous \in observations
  BY <1>6, PreviousPrecedes DEF MissingResult
<1>8. missing' \subseteq [run : AnalysisRuns, previous : Observation]
  BY <1>2, <1>6, PreviousPrecedes DEF MissingResult, ConvergenceTypeOK
<1>9. Advance(r, run)
  BY <1>1, <1>2, <1>3 DEF Ends
<1> QED BY <1>1, <1>2, <1>4, <1>5, <1>7, <1>8, <1>9, RunMoves

\* The result of a run is the only one of its observation.
LEMMA ResultIsPersisted ==
  ASSUME ConvergenceInv, NEW r \in AnalysisRuns, PersistResult(r)
  PROVE  ConvergenceInv'
<1>1. PICK k : k = analysisRuns[r]
  OBVIOUS
<1>2. /\ k \in AnalysisRun /\ RunIsSound(r, k) /\ k.pc = "result" /\ k.observation \in Observation
      /\ k.previous \in Observation
      /\ UNCHANGED <<observations, missing, checkpoint>> /\ ConvergenceTypeOK
  BY <1>1, RunTypes DEF PersistResult, RunAt, AnalysisRun, ConvergenceInv
<1>3. /\ k.observation.rank = r /\ k.observation.ts >= 1 /\ k.observation \in observations
      /\ \A o \in observations' : o.rank = r => o = k.observation
      /\ ComparableTo(k.previous, k.observation) /\ \A x \in results : x.current.rank # r
      /\ k.expected
  BY <1>2 DEF RunIsSound
<1>4. PICK x : x = ObservationBackedResult(k)
  OBVIOUS
<1>5. /\ x.current = k.observation /\ x.previous = k.previous /\ x \in ResultRow
      /\ x.state = "IMPROVED" => x.current.evidence = "satisfied" /\ x.previous.evidence # "satisfied"
  <2>1. k.observation.evidence \in Evidences /\ k.previous.evidence \in Evidences
    BY <1>2 DEF Observation
  <2>2. x = [current |-> k.observation, previous |-> k.previous,
             state |-> AssessGovernanceConvergence(k.previous.evidence, k.observation.evidence)]
    BY <1>4 DEF ObservationBackedResult
  <2>3. /\ AssessGovernanceConvergence(k.previous.evidence, k.observation.evidence) \in ConvergenceStates
        /\ AssessGovernanceConvergence(k.previous.evidence, k.observation.evidence) = "IMPROVED" =>
             k.observation.evidence = "satisfied" /\ k.previous.evidence # "satisfied"
    BY DEF AssessGovernanceConvergence, ConvergenceStates
  <2> QED BY <1>2, <2>2, <2>3 DEF ResultRow
<1>6. results' = results \/ (k.previous # NoObservation /\ results' = results \union {x})
  BY <1>1, <1>4 DEF PersistResult
<1>7. RowsGrow(r)
  BY <1>2, <1>3, <1>5, <1>6 DEF RowsGrow, ConvergenceTypeOK, ResultRow
<1>8. ResultsAreSound'
  <2>1. CASE results' = results
    BY <1>2, <2>1 DEF ConvergenceInv, ResultsAreSound
  <2>2. CASE k.previous # NoObservation /\ results' = results \union {x}
    <3>1. {x.current, x.previous} \subseteq observations /\ Precedes(x.previous, x.current)
      BY <1>3, <1>5, <2>2 DEF ComparableTo
    <3>2. \A y \in results : y.current # x.current
      BY <1>3, <1>5
    <3> QED BY <1>2, <1>5, <2>2, <3>1, <3>2 DEF ConvergenceInv, ResultsAreSound
  <2> QED BY <1>6, <2>1, <2>2
<1>9. ASSUME NEW run, Advance(r, run), RunIsSound(r, run)', run.expected = k.expected PROVE ConvergenceInv'
  BY <1>1, <1>2, <1>7, <1>8, <1>9, RunMoves DEF ConvergenceTypeOK
<1>10. ASSUME PersistenceFails(r) PROVE ConvergenceInv'
  <2>1. PICK run : run = [k EXCEPT !.pc = "reconcile", !.previous = NoObservation, !.failed = TRUE]
    OBVIOUS
  <2>2. run.expected = k.expected /\ k.pc \notin {"idle", "over"}
    BY <1>2, <2>1 DEF AnalysisRun
  <2>3. RunIsSound(r, run)'
    <3>1. \A o \in observations' : o.rank = r => o = k.observation
      BY <1>3
    <3> QED BY <1>1, <1>7, <2>1, <2>2, <3>1, FailedIsSound
  <2> QED BY <1>1, <1>9, <1>10, <2>1, <2>2, <2>3 DEF PersistenceFails
<1>11. ASSUME Advance(r, [k EXCEPT !.pc = "latest", !.previous = NoObservation, !.observed = TRUE])
       PROVE  ConvergenceInv'
  <2>1. PICK run : run = [k EXCEPT !.pc = "latest", !.previous = NoObservation, !.observed = TRUE]
    OBVIOUS
  <2>2. /\ run \in AnalysisRun /\ run.pc = "latest" /\ run.observation = k.observation
        /\ run.expected = k.expected /\ run.observed = TRUE
    BY <1>2, <2>1, RunTypes DEF AnalysisRun
  <2>3. RunIsSound(r, run)'
    BY <1>2, <1>3, <2>2 DEF RunIsSound
  <2> QED BY <1>9, <1>11, <2>1, <2>2, <2>3
<1> QED BY <1>1, <1>10, <1>11 DEF PersistResult

-----------------------------------------------------------------------------
(* The theorems about the history.                                         *)

LEMMA ConvergenceInvInit ==
  ASSUME ConvergenceInit
  PROVE  ConvergenceInv
<1>1. NoObservation \in Observation /\ NoObservation = checkpoint
  BY ConvergenceAssumption DEF NoObservation, Observation, Evidences, ConvergenceInit
<1>2. IdleRun \in AnalysisRun /\ IdleRun.pc = "idle" /\ IdleRun.expected = TRUE
  BY <1>1 DEF IdleRun, AnalysisRun
<1> QED BY <1>1, <1>2
        DEF ConvergenceInit, ConvergenceInv, ConvergenceTypeOK, RunIsSound, OneObservationPerRun,
            ObservationsAreOfRuns, CheckpointIsStored, ResultsAreSound, MissingIsAbsence

LEMMA ConvergenceInvNext ==
  ASSUME ConvergenceInv, [ConvergenceNext]_convergenceVars
  PROVE  ConvergenceInv'
<1>1. CASE UNCHANGED convergenceVars
  BY <1>1 DEF convergenceVars, ConvergenceInv, ConvergenceTypeOK, RunIsSound, ComparableTo,
              OneObservationPerRun, ObservationsAreOfRuns, CheckpointIsStored, ResultsAreSound,
              MissingIsAbsence
<1>2. CASE ConvergenceNext
  BY <1>2, ObservationBegins, ObservationIsPut, RunsRead, ResultIsPersisted, LatestIsPut,
     MissingIsRecorded DEF ConvergenceNext
<1> QED BY <1>1, <1>2

\* What every run has observed and is about to write, with the rows it may write it over:
\* the invariant behind the theorems about the governance history.
THEOREM ConvergenceInvariant == ConvergenceSpec => []ConvergenceInv
<1>1. ConvergenceInit => ConvergenceInv
  BY ConvergenceInvInit
<1>2. ConvergenceInv /\ [ConvergenceNext]_convergenceVars => ConvergenceInv'
  BY ConvergenceInvNext
<1> QED BY <1>1, <1>2, PTL DEF ConvergenceSpec

\* Whatever order the runs arrive in, the checkpoint is a stored observation and no run that
\* upserted its own without an error is beyond it (upsertLatestObservedControl).
THEOREM CheckpointsKeepUp == ConvergenceSpec => []CheckpointKeepsUp
<1>1. ConvergenceInv => CheckpointKeepsUp
  BY DEF ConvergenceInv, CheckpointIsStored, CheckpointKeepsUp, RunIsSound, RunAt
<1> QED BY <1>1, ConvergenceInvariant, PTL

\* However late or stale its reads, a result compares one observation with one stored
\* observation before it (findRelevantPreviousObservation, persistObservationBackedResult).
THEOREM ResultsAreAlwaysSound == ConvergenceSpec => []ResultsAreSound
<1>1. ConvergenceInv => ResultsAreSound
  BY DEF ConvergenceInv
<1> QED BY <1>1, ConvergenceInvariant, PTL

\* A write that failed is never recorded as MISSING (reconcileLiveMissingEvidence).
THEOREM MissingIsAlwaysAbsence == ConvergenceSpec => []MissingIsAbsence
<1>1. ConvergenceInv => MissingIsAbsence
  BY DEF ConvergenceInv
<1> QED BY <1>1, ConvergenceInvariant, PTL

-----------------------------------------------------------------------------
(* The inventory: its invariant.                                           *)

\* The version of an instance's row in the table that an engine keeps.
VersionOf(engine, i) ==
  IF engine = "discovery" THEN resources[i].version
  ELSE IF engine = "security" THEN findings[i].version ELSE recommendations[i].version

NotFoundBy(run, i) ==
  run.view[i] \in (IF run.engine = "discovery" THEN {"absent"} ELSE {"absent", "clear"})

\* A mark is never ahead of its row, and behind it from when another run saw the instance.
MarkIsFair(run, i) ==
  /\ run.marks[i] > 0 =>
       /\ run.pc = "close" /\ NotFoundBy(run, i)
       /\ run.marks[i] <= VersionOf(run.engine, i)
  /\ i \in run.sighted =>
       /\ run.marks[i] > 0
       /\ run.marks[i] < VersionOf(run.engine, i)

RunIsFair(run) ==
  /\ run \in EngineRun
  /\ run.pc = "put" => run.at \in Instances
  /\ \A i \in Instances : MarkIsFair(run, i)

TablesOK ==
  /\ resources \in [Instances -> ResourceRow]
  /\ findings \in [Instances -> FindingRow]
  /\ recommendations \in [Instances -> FindingRow]

InventoryInv ==
  /\ InventoryTypeOK
  /\ \A r \in EngineRuns : RunIsFair(engineRuns[r])

-----------------------------------------------------------------------------
(* The inventory: lists.                                                   *)

LEMMA ListsAreOfInstances ==
  ASSUME NEW table, NEW after, NEW late
  PROVE  ListOpen(table, after, late) \subseteq Instances
BY DEF ListOpen, FirstOf, Rows

LEMMA CountOfInstances ==
  ASSUME NEW S \in SUBSET Instances
  PROVE  IsFiniteSet(S) /\ Cardinality(S) \in 0 .. NumInstances
<1>1. IsFiniteSet(Instances) /\ Cardinality(Instances) = NumInstances
  BY FS_Interval, InventoryAssumption DEF Instances
<1>2. IsFiniteSet(S) /\ Cardinality(S) <= Cardinality(Instances)
  BY <1>1, FS_Subset
<1>3. Cardinality(S) \in Nat
  BY <1>2, FS_CardinalityType
<1> QED BY <1>1, <1>2, <1>3, InventoryAssumption

\* A page that is not empty has a last row.
LEMMA LastOfPage ==
  ASSUME NEW S \in SUBSET Instances, S # {}
  PROVE  (CHOOSE i \in S : \A k \in S : k <= i) \in Instances
<1> DEFINE T == {NumInstances - i : i \in S}
<1>0. \A i \in S : i \in Nat /\ i <= NumInstances
  BY DEF Instances
<1>1. T \subseteq Nat /\ T # {}
  BY <1>0, InventoryAssumption
<1>2. PICK x \in T : \A y \in T : x <= y
  <2> HIDE DEF T
  <2> QED BY <1>1, LeastNatural
<1>3. PICK i \in S : x = NumInstances - i
  OBVIOUS
<1>4. ASSUME NEW k \in S PROVE k <= i
  <2>1. NumInstances - i <= NumInstances - k
    BY <1>2, <1>3
  <2> QED BY <2>1, <1>0, InventoryAssumption
<1> QED BY <1>4

-----------------------------------------------------------------------------
(* The inventory: frames.                                                  *)

Grows(table, later) == \A i \in Instances : table[i].version <= later[i].version

TablesGrow ==
  /\ Grows(resources, resources') /\ Grows(findings, findings')
  /\ Grows(recommendations, recommendations')

TablesStay == UNCHANGED <<resources, findings, recommendations>>

LEMMA TablesThatStayGrow ==
  ASSUME TablesOK, TablesStay
  PROVE  TablesOK' /\ TablesGrow
BY DEF TablesOK, TablesStay, TablesGrow, Grows, ResourceRow, FindingRow

LEMMA VersionsAreNatural ==
  ASSUME TablesOK, NEW e, NEW i \in Instances
  PROVE  VersionOf(e, i) \in Nat
BY DEF TablesOK, VersionOf, ResourceRow, FindingRow

LEMMA VersionsGrow ==
  ASSUME TablesGrow, NEW e, NEW i \in Instances
  PROVE  VersionOf(e, i) <= VersionOf(e, i)'
BY DEF TablesGrow, Grows, VersionOf

LEMMA FairRunsStayFair ==
  ASSUME TablesOK, TablesOK', TablesGrow, NEW run, RunIsFair(run)
  PROVE  RunIsFair(run)'
<1>1. ASSUME NEW i \in Instances PROVE MarkIsFair(run, i)'
  <2>1. run.marks[i] \in Nat /\ MarkIsFair(run, i)
    BY DEF RunIsFair, EngineRun
  <2>2. VersionOf(run.engine, i) \in Nat /\ VersionOf(run.engine, i)' \in Nat
    <3>1. VersionOf(run.engine, i) \in Nat
      BY VersionsAreNatural
    <3>2. VersionOf(run.engine, i)' \in Nat
      BY DEF TablesOK, VersionOf, ResourceRow, FindingRow
    <3> QED BY <3>1, <3>2
  <2>3. VersionOf(run.engine, i) <= VersionOf(run.engine, i)'
    BY VersionsGrow
  <2> DEFINE old == VersionOf(run.engine, i)  new == VersionOf(run.engine, i)'
  <2>4. /\ run.marks[i] > 0 => run.pc = "close" /\ NotFoundBy(run, i) /\ run.marks[i] <= old
        /\ i \in run.sighted => run.marks[i] > 0 /\ run.marks[i] < old
    BY <2>1 DEF MarkIsFair
  <2>5. old \in Nat /\ new \in Nat /\ old <= new
    BY <2>2, <2>3
  <2> HIDE DEF old, new
  <2>6. /\ run.marks[i] > 0 => run.pc = "close" /\ NotFoundBy(run, i) /\ run.marks[i] <= new
        /\ i \in run.sighted => run.marks[i] > 0 /\ run.marks[i] < new
    BY <2>1, <2>4, <2>5
  <2> QED BY <2>6 DEF MarkIsFair, NotFoundBy, new
<1> QED BY <1>1 DEF RunIsFair

\* A run without marks.
LEMMA UnmarkedRunsAreFair ==
  ASSUME NEW run \in EngineRun, run.marks = NoMarks, run.sighted = {},
         run.pc = "put" => run.at \in Instances
  PROVE  RunIsFair(run)
BY DEF RunIsFair, MarkIsFair, NoMarks

\* What a fair run that is not closing rows looks like.
LEMMA OpenRunsHaveNoMarks ==
  ASSUME NEW run, RunIsFair(run), run.pc # "close" \/ \A i \in Instances : ~(run.marks[i] > 0)
  PROVE  run.marks = NoMarks /\ run.sighted = {}
<1>1. \A i \in Instances : run.marks[i] \in Nat /\ ~(run.marks[i] > 0) /\ i \notin run.sighted
  BY DEF RunIsFair, MarkIsFair, EngineRun
<1>2. run.marks \in [Instances -> Nat] /\ run.sighted \subseteq Instances
  BY DEF RunIsFair, EngineRun
<1> QED BY <1>1, <1>2 DEF NoMarks

\* A step of one run, whose tables only grow.
LEMMA RunsThatStayFair ==
  ASSUME InventoryInv, NEW r \in EngineRuns, NEW run, Step(r, run), RunIsFair(run)',
         TablesOK', TablesGrow
  PROVE  /\ engineRuns' \in [EngineRuns -> EngineRun]
         /\ \A q \in EngineRuns : RunIsFair(engineRuns[q])'
<1>0. engineRuns \in [EngineRuns -> EngineRun] /\ TablesOK
  BY DEF InventoryInv, InventoryTypeOK, TablesOK
<1>1. run \in EngineRun
  BY DEF RunIsFair
<1>2. engineRuns' \in [EngineRuns -> EngineRun]
  BY <1>0, <1>1 DEF Step
<1>3. ASSUME NEW q \in EngineRuns PROVE RunIsFair(engineRuns[q])'
  <2>1. CASE q = r
    <3>1. engineRuns'[q] = run
      BY <2>1, <1>0 DEF Step
    <3> QED BY <3>1 DEF RunIsFair, MarkIsFair, NotFoundBy, VersionOf
  <2>2. CASE q # r
    <3>1. PICK k : k = engineRuns[q]
      OBVIOUS
    <3>2. engineRuns'[q] = k
      BY <3>1, <2>2, <1>0 DEF Step
    <3>3. RunIsFair(k)
      BY <3>1 DEF InventoryInv
    <3>4. RunIsFair(k)'
      BY <3>3, <1>0, FairRunsStayFair
    <3> QED BY <3>2, <3>4 DEF RunIsFair, MarkIsFair, NotFoundBy, VersionOf
  <2> QED BY <2>1, <2>2
<1> QED BY <1>2, <1>3

LEMMA TypesInParts ==
  InventoryInv =>
    /\ TablesOK /\ engineRuns \in [EngineRuns -> EngineRun] /\ pageSize \in Instances
    /\ summary \in EngineRuns \union {"none"}
    /\ \A r \in EngineRuns : RunIsFair(engineRuns[r])
BY DEF InventoryInv, InventoryTypeOK, TablesOK

LEMMA PartsAreEnough ==
  ASSUME TablesOK', engineRuns' \in [EngineRuns -> EngineRun], pageSize' \in Instances,
         summary' \in EngineRuns \union {"none"},
         \A r \in EngineRuns : RunIsFair(engineRuns[r])'
  PROVE  InventoryInv'
BY DEF InventoryInv, InventoryTypeOK, TablesOK

-----------------------------------------------------------------------------
(* Runs that begin, end, read and list.                                    *)

LEMMA IdleRunsAreFair ==
  /\ IdleEngineRun \in EngineRun
  /\ RunIsFair(IdleEngineRun)
  /\ RunIsFair([IdleEngineRun EXCEPT !.pc = "over"])
<1>1. /\ IdleEngineRun \in EngineRun /\ IdleEngineRun.pc # "put"
      /\ IdleEngineRun.marks = NoMarks /\ IdleEngineRun.sighted = {}
  BY InventoryAssumption DEF IdleEngineRun, EngineRun, Engines, Views, NoMarks
<1>2. PICK over : over = [IdleEngineRun EXCEPT !.pc = "over"]
  OBVIOUS
<1>3. /\ over \in EngineRun /\ over.pc # "put"
      /\ over.marks = NoMarks /\ over.sighted = {}
  BY <1>1, <1>2 DEF EngineRun
<1>4. RunIsFair(IdleEngineRun) /\ RunIsFair(over)
  BY <1>1, <1>3, InventoryAssumption, UnmarkedRunsAreFair
<1> QED BY <1>1, <1>2, <1>4

\* A step of a run that changes nothing else.
LEMMA StepsOfARun ==
  ASSUME InventoryInv, NEW r \in EngineRuns, NEW run, Step(r, run), RunIsFair(run),
         UNCHANGED untouched
  PROVE  InventoryInv'
<1>1. TablesOK /\ TablesStay /\ pageSize' \in Instances
      /\ summary' \in EngineRuns \union {"none"}
  BY TypesInParts DEF untouched, TablesStay
<1>2. TablesOK' /\ TablesGrow
  BY <1>1, TablesThatStayGrow
<1>3. RunIsFair(run)'
  BY <1>1, <1>2, FairRunsStayFair
<1>4. /\ engineRuns' \in [EngineRuns -> EngineRun]
      /\ \A q \in EngineRuns : RunIsFair(engineRuns[q])'
  BY <1>2, <1>3, RunsThatStayFair
<1> QED BY <1>1, <1>2, <1>4, PartsAreEnough

LEMMA RunsEnd ==
  ASSUME InventoryInv, NEW r \in EngineRuns, RunOver(r), UNCHANGED untouched
  PROVE  InventoryInv'
<1>1. PICK over : over = [IdleEngineRun EXCEPT !.pc = "over"]
  OBVIOUS
<1>2. Step(r, over) /\ RunIsFair(over)
  BY <1>1, IdleRunsAreFair DEF RunOver
<1> QED BY <1>2, StepsOfARun

LEMMA RunsBegin ==
  ASSUME InventoryInv, NEW r \in EngineRuns, NEW run \in EngineRun, BeginRun(r, run),
         run.marks = NoMarks, run.sighted = {}, run.pc # "put", UNCHANGED untouched
  PROVE  InventoryInv'
<1>1. /\ TablesOK /\ TablesStay /\ pageSize' \in Instances
      /\ summary' \in EngineRuns \union {"none"}
      /\ engineRuns \in [EngineRuns -> EngineRun]
      /\ \A q \in EngineRuns : RunIsFair(engineRuns[q])
  BY TypesInParts DEF untouched, TablesStay
<1>2. TablesOK' /\ TablesGrow
  BY <1>1, TablesThatStayGrow
<1>3. ASSUME NEW q \in EngineRuns
      PROVE  engineRuns'[q] \in EngineRun /\ RunIsFair(engineRuns[q])'
  <2>1. PICK new : new = engineRuns'[q]
    OBVIOUS
  <2>2. PICK k : k = engineRuns[q]
    OBVIOUS
  <2>3. k \in EngineRun /\ RunIsFair(k)
    BY <1>1, <2>2
  <2>4. \/ new = [run EXCEPT !.alone = \A o \in EngineRuns : Run(o).engine # run.engine]
        \/ new = [k EXCEPT !.alone = FALSE]
        \/ new = k
    BY <2>1, <2>2 DEF BeginRun, Run
  <2>5. ASSUME new = [run EXCEPT !.alone = \A o \in EngineRuns : Run(o).engine # run.engine]
        PROVE  RunIsFair(new)
    <3>1. PICK alone \in BOOLEAN : alone = (\A o \in EngineRuns : Run(o).engine # run.engine)
      OBVIOUS
    <3>2. new = [run EXCEPT !.alone = alone]
      BY <2>5, <3>1
    <3>3. new \in EngineRun /\ new.marks = NoMarks /\ new.sighted = {} /\ new.pc # "put"
      BY <3>2 DEF EngineRun
    <3> QED BY <3>3, UnmarkedRunsAreFair
  <2>6. ASSUME new = [k EXCEPT !.alone = FALSE]
        PROVE  RunIsFair(new)
    <3>1. /\ new \in EngineRun /\ new.marks = k.marks /\ new.sighted = k.sighted
          /\ new.pc = k.pc /\ new.at = k.at /\ new.view = k.view /\ new.engine = k.engine
      BY <2>6, <2>3 DEF EngineRun
    <3> QED BY <3>1, <2>3 DEF RunIsFair, MarkIsFair, NotFoundBy
  <2>7. RunIsFair(new)
    BY <2>3, <2>4, <2>5, <2>6
  <2>8. RunIsFair(new)' /\ new \in EngineRun
    BY <2>7, <1>1, <1>2, FairRunsStayFair DEF RunIsFair
  <2> QED BY <2>1, <2>8 DEF RunIsFair, MarkIsFair, NotFoundBy, VersionOf
<1>4. engineRuns' \in [EngineRuns -> EngineRun]
  BY <1>3 DEF BeginRun
<1> QED BY <1>1, <1>2, <1>3, <1>4, PartsAreEnough

LEMMA DiscoveriesBegin ==
  ASSUME InventoryInv, NEW r \in EngineRuns, DiscoverRegion(r) \/ AnalyzeInventory(r) \/ EvaluateRules(r)
  PROVE  InventoryInv'
<1> DEFINE Begun(e, view, todo) ==
      [IdleEngineRun EXCEPT !.engine = e, !.pc = "upsert", !.view = view, !.todo = todo]
<1>2. ASSUME NEW e \in Engines, NEW view \in [Instances -> Views], NEW todo \in SUBSET Instances,
             BeginRun(r, Begun(e, view, todo)), UNCHANGED untouched
      PROVE  InventoryInv'
  <2>1. PICK run : run = Begun(e, view, todo)
    OBVIOUS
  <2>2. BeginRun(r, run)
    BY <1>2, <2>1
  <2>3. IdleEngineRun \in EngineRun
    BY IdleRunsAreFair
  <2>4. IdleEngineRun.marks = NoMarks /\ IdleEngineRun.sighted = {}
    BY DEF IdleEngineRun
  <2>5. run \in EngineRun /\ run.marks = NoMarks /\ run.sighted = {} /\ run.pc # "put"
    BY <2>1, <2>3, <2>4 DEF EngineRun
  <2> QED BY <1>2, <2>2, <2>5, RunsBegin
<1>3. CASE DiscoverRegion(r)
  <2>1. PICK view \in [Instances -> Views] :
          BeginRun(r, [IdleEngineRun EXCEPT !.engine = "discovery", !.pc = "upsert", !.view = view,
                                      !.todo = {i \in Instances : view[i] # "absent"}])
    BY <1>3 DEF DiscoverRegion
  <2>2. PICK todo \in SUBSET Instances : todo = {i \in Instances : view[i] # "absent"}
    OBVIOUS
  <2>3. BeginRun(r, Begun("discovery", view, todo)) /\ UNCHANGED untouched /\ "discovery" \in Engines
    BY <1>3, <2>1, <2>2 DEF DiscoverRegion, Engines
  <2> HIDE DEF Begun
  <2> QED BY <1>2, <2>3
<1>4. CASE AnalyzeInventory(r)
  <2>L. PICK late \in SUBSET Instances : \E had \in [late -> {"clear", "flagged"}] :
          LET view == InventoryView(late, had)
          IN BeginRun(r, [IdleEngineRun EXCEPT !.engine = "security", !.pc = "upsert", !.view = view,
                                            !.todo = {i \in Instances : view[i] = "flagged"}])
    BY <1>4 DEF AnalyzeInventory
  <2>0. PICK had \in [late -> {"clear", "flagged"}] :
          LET view == InventoryView(late, had)
          IN BeginRun(r, [IdleEngineRun EXCEPT !.engine = "security", !.pc = "upsert", !.view = view,
                                            !.todo = {i \in Instances : view[i] = "flagged"}])
    BY <2>L
  <2>1. PICK view : view = InventoryView(late, had)
    OBVIOUS
  <2>2. view \in [Instances -> Views]
    BY <2>1, TypesInParts DEF InventoryView, TablesOK, ResourceRow, Views
  <2>3. PICK todo \in SUBSET Instances : todo = {i \in Instances : view[i] = "flagged"}
    OBVIOUS
  <2>4. BeginRun(r, Begun("security", view, todo)) /\ UNCHANGED untouched /\ "security" \in Engines
    BY <1>4, <2>0, <2>1, <2>3 DEF AnalyzeInventory, Engines
  <2> HIDE DEF Begun
  <2> QED BY <1>2, <2>2, <2>4
<1>5. CASE EvaluateRules(r)
  <2>L. PICK late \in SUBSET Instances : \E were \in SUBSET late :
          LET active == {i \in ListResourcesInScope(late) :
                           IF i \in late THEN i \in were ELSE resources[i].status = "ACTIVE"}
          IN \E flagged \in SUBSET active :
               BeginRun(r, [IdleEngineRun EXCEPT !.engine = "cost", !.pc = "upsert", !.todo = flagged,
                     !.view = [i \in Instances |-> IF i \in flagged THEN "flagged"
                                                   ELSE IF i \in active THEN "clear" ELSE "absent"]])
    BY <1>5 DEF EvaluateRules
  <2>0. PICK were \in SUBSET late :
          LET active == {i \in ListResourcesInScope(late) :
                           IF i \in late THEN i \in were ELSE resources[i].status = "ACTIVE"}
          IN \E flagged \in SUBSET active :
               BeginRun(r, [IdleEngineRun EXCEPT !.engine = "cost", !.pc = "upsert", !.todo = flagged,
                     !.view = [i \in Instances |-> IF i \in flagged THEN "flagged"
                                                   ELSE IF i \in active THEN "clear" ELSE "absent"]])
    BY <2>L
  <2>1. PICK active : active = {i \in ListResourcesInScope(late) :
                                  IF i \in late THEN i \in were ELSE resources[i].status = "ACTIVE"}
    OBVIOUS
  <2>2. active \subseteq Instances
    BY <2>1 DEF ListResourcesInScope, FirstOf, Rows
  <2>3. PICK flagged \in SUBSET active :
          BeginRun(r, [IdleEngineRun EXCEPT !.engine = "cost", !.pc = "upsert", !.todo = flagged,
                     !.view = [i \in Instances |-> IF i \in flagged THEN "flagged"
                                                   ELSE IF i \in active THEN "clear" ELSE "absent"]])
    BY <2>0, <2>1
  <2>4. PICK view : view = [i \in Instances |-> IF i \in flagged THEN "flagged"
                                                ELSE IF i \in active THEN "clear" ELSE "absent"]
    OBVIOUS
  <2>5. view \in [Instances -> Views] /\ flagged \in SUBSET Instances /\ "cost" \in Engines
    BY <2>4, <2>2 DEF Views, Engines
  <2>6. [IdleEngineRun EXCEPT !.engine = "cost", !.pc = "upsert", !.todo = flagged, !.view = view]
          = Begun("cost", view, flagged)
    BY DEF IdleEngineRun
  <2>7. BeginRun(r, Begun("cost", view, flagged)) /\ UNCHANGED untouched
    BY <1>5, <2>3, <2>4, <2>6 DEF EvaluateRules
  <2> HIDE DEF Begun
  <2> QED BY <1>2, <2>5, <2>7
<1> QED BY <1>3, <1>4, <1>5

\* What a run that is at its upserts looks like, whose rows are not marked yet.
LEMMA RunsAreFair ==
  ASSUME InventoryInv, NEW r \in EngineRuns
  PROVE  Run(r) \in EngineRun /\ RunIsFair(Run(r))
BY TypesInParts DEF Run

LEMMA UpsertsRead ==
  ASSUME InventoryInv, NEW r \in EngineRuns,
         ReadResource(r) \/ ReadFinding(r) \/ ReadRecommendation(r)
  PROVE  InventoryInv'
<1>1. PICK k : k = Run(r)
  OBVIOUS
<1>2. k \in EngineRun /\ RunIsFair(k)
  BY <1>1, RunsAreFair
<1>3. k.pc = "upsert" /\ UNCHANGED untouched
  BY <1>1 DEF ReadResource, ReadFinding, ReadRecommendation, RunIsAt
<1>4. \E i \in k.todo, version \in Nat :
        Step(r, [k EXCEPT !.pc = "put", !.at = i, !.todo = @ \ {i}, !.read = version])
  <2>1. \A i \in Instances : /\ resources[i].version \in Nat /\ findings[i].version \in Nat
                             /\ recommendations[i].version \in Nat
    BY TypesInParts DEF TablesOK, ResourceRow, FindingRow
  <2>2. k.todo \subseteq Instances /\ FirstOf(k.todo, 1) \subseteq k.todo
    BY <1>2 DEF EngineRun, FirstOf
  <2>3. PICK i \in k.todo :
          \/ Step(r, [k EXCEPT !.pc = "put", !.at = i, !.todo = @ \ {i}, !.read = resources[i].version])
          \/ Step(r, [k EXCEPT !.pc = "put", !.at = i, !.todo = @ \ {i}, !.read = findings[i].version])
          \/ Step(r, [k EXCEPT !.pc = "put", !.at = i, !.todo = @ \ {i},
                               !.read = recommendations[i].version])
    BY <1>1, <2>2 DEF ReadResource, ReadFinding, ReadRecommendation, ReadForUpsert
  <2> QED BY <2>1, <2>2, <2>3
<1>5. PICK i \in k.todo : \E version \in Nat :
        Step(r, [k EXCEPT !.pc = "put", !.at = i, !.todo = @ \ {i}, !.read = version])
  BY <1>4
<1>6. PICK version \in Nat :
        Step(r, [k EXCEPT !.pc = "put", !.at = i, !.todo = @ \ {i}, !.read = version])
  BY <1>5
<1>7. PICK run : run = [k EXCEPT !.pc = "put", !.at = i, !.todo = @ \ {i}, !.read = version]
  OBVIOUS
<1>8. /\ run \in EngineRun /\ run.marks = k.marks /\ run.sighted = k.sighted
      /\ run.at \in Instances
  <2>1. i \in 0 .. NumInstances /\ i \in Instances
    BY <1>2 DEF EngineRun, Instances
  <2> QED BY <1>2, <1>7, <2>1 DEF EngineRun
<1>9. RunIsFair(run)
  <2>1. k.marks = NoMarks /\ k.sighted = {}
    BY <1>2, <1>3, OpenRunsHaveNoMarks
  <2> QED BY <1>8, <2>1, UnmarkedRunsAreFair
<1>10. Step(r, run)
  BY <1>6, <1>7
<1> QED BY <1>3, <1>9, <1>10, StepsOfARun

\* The rows that a run lists to close, at the versions that they have.
LEMMA RowsAreListed ==
  ASSUME InventoryInv, NEW r \in EngineRuns, NEW k, k = Run(r),
         k.pc = "upsert" \/ Marked(r) = {},
         NEW table \in {resources, findings, recommendations},
         \A i \in Instances : table[i].version = VersionOf(k.engine, i),
         NEW rows \in SUBSET Instances, \A i \in rows : NotFoundBy(k, i),
         NEW next \in 0 .. NumInstances, NEW lapsed \in BOOLEAN,
         NEW run,
         run = [k EXCEPT !.pc = "close", !.marks = Versions(table, rows), !.next = next,
                         !.lapsed = lapsed],
         Step(r, run), UNCHANGED untouched
  PROVE  InventoryInv'
<1>1. k \in EngineRun /\ RunIsFair(k)
  BY RunsAreFair
<1>2. k.sighted = {}
  BY <1>1, OpenRunsHaveNoMarks DEF Marked
<1>3. PICK marks : marks = Versions(table, rows)
  OBVIOUS
<1>4. \A i \in Instances : table[i].version \in Nat
  BY TypesInParts DEF TablesOK, ResourceRow, FindingRow
<1>5. /\ marks \in [Instances -> Nat]
      /\ \A i \in Instances : marks[i] = IF i \in rows THEN table[i].version ELSE 0
  BY <1>3, <1>4 DEF Versions
<1>6. /\ run \in EngineRun /\ run.marks = marks /\ run.pc = "close" /\ run.view = k.view
      /\ run.engine = k.engine /\ run.sighted = {}
  BY <1>1, <1>2, <1>3, <1>5 DEF EngineRun
<1>7. ASSUME NEW i \in Instances PROVE MarkIsFair(run, i)
  <2>1. run.marks[i] > 0 => i \in rows /\ run.marks[i] = table[i].version
    BY <1>5, <1>6
  <2>2. run.marks[i] > 0 => NotFoundBy(run, i) /\ run.marks[i] <= VersionOf(run.engine, i)
    BY <2>1, <1>4, <1>6 DEF NotFoundBy
  <2> QED BY <2>2, <1>6 DEF MarkIsFair
<1>8. RunIsFair(run)
  BY <1>1, <1>6, <1>7 DEF RunIsFair
<1> QED BY <1>8, StepsOfARun

LEMMA RunsList ==
  ASSUME InventoryInv, NEW r \in EngineRuns, ListUnseen(r) \/ ListUndetected(r) \/ ListStale(r)
  PROVE  InventoryInv'
<1>1. PICK k : k = Run(r)
  OBVIOUS
<1>2. k \in EngineRun /\ RunIsFair(k)
  BY <1>1, RunsAreFair
<1>3. CASE ListUnseen(r)
  <2>0. PICK late \in SUBSET Instances :
          Step(r, [Run(r) EXCEPT !.pc = "close", !.marks = Versions(resources, Unseen(r, late)),
                               !.lapsed = Unseen(r, late) # Unseen(r, {})])
    BY <1>3 DEF ListUnseen
  <2>1. PICK rows : rows = Unseen(r, late)
    OBVIOUS
  <2>L. PICK lapsed \in BOOLEAN : lapsed = (Unseen(r, late) # Unseen(r, {}))
    OBVIOUS
  <2>2. rows \in SUBSET Instances
    BY <2>1 DEF Unseen, ListResourcesInScope, FirstOf, Rows
  <2>3. k.engine = "discovery" /\ k.pc = "upsert"
    BY <1>1, <1>3 DEF ListUnseen, RunIsAt
  <2>4. \A i \in rows : NotFoundBy(k, i)
    BY <1>1, <2>1, <2>3 DEF Unseen, NotFoundBy
  <2>5. \A i \in Instances : resources[i].version = VersionOf(k.engine, i)
    BY <2>3 DEF VersionOf
  <2>6. PICK run : run = [k EXCEPT !.pc = "close", !.marks = Versions(resources, rows), !.next = k.next,
                                  !.lapsed = lapsed]
    OBVIOUS
  <2>7. k.next \in 0 .. NumInstances
    BY <1>2 DEF EngineRun
  <2>8. run = [k EXCEPT !.pc = "close", !.marks = Versions(resources, rows), !.lapsed = lapsed]
    BY <2>6, <1>2 DEF EngineRun
  <2>9. Step(r, run) /\ UNCHANGED untouched
    BY <1>1, <1>3, <2>0, <2>1, <2>L, <2>8 DEF ListUnseen
  <2>10. resources \in {resources, findings, recommendations}
    OBVIOUS
  <2> QED BY <1>1, <2>2, <2>3, <2>4, <2>5, <2>6, <2>7, <2>9, <2>10, RowsAreListed
<1>4. CASE ListUndetected(r)
  <2>0. PICK late \in SUBSET Instances :
          Step(r, [Run(r) EXCEPT !.pc = "close", !.marks = Versions(findings, Undetected(r, late)),
                               !.lapsed = Undetected(r, late) # Undetected(r, {})])
    BY <1>4 DEF ListUndetected
  <2>1. PICK rows : rows = Undetected(r, late)
    OBVIOUS
  <2>L. PICK lapsed \in BOOLEAN : lapsed = (Undetected(r, late) # Undetected(r, {}))
    OBVIOUS
  <2>2. rows \in SUBSET Instances
    BY <2>1, ListsAreOfInstances DEF Undetected
  <2>3. k.engine = "security" /\ k.pc = "upsert"
    BY <1>1, <1>4 DEF ListUndetected, RunIsAt
  <2>4. \A i \in rows : NotFoundBy(k, i)
    <3>1. ASSUME NEW i \in rows PROVE k.view[i] \in {"absent", "clear"}
      <4>1. k.view[i] \in Views /\ k.view[i] # "flagged"
        BY <1>1, <1>2, <2>1, <2>2 DEF Undetected, EngineRun
      <4> QED BY <4>1 DEF Views
    <3> QED BY <2>3, <3>1 DEF NotFoundBy
  <2>5. \A i \in Instances : findings[i].version = VersionOf(k.engine, i)
    BY <2>3 DEF VersionOf
  <2>6. PICK run : run = [k EXCEPT !.pc = "close", !.marks = Versions(findings, rows), !.next = k.next,
                                  !.lapsed = lapsed]
    OBVIOUS
  <2>7. k.next \in 0 .. NumInstances
    BY <1>2 DEF EngineRun
  <2>8. run = [k EXCEPT !.pc = "close", !.marks = Versions(findings, rows), !.lapsed = lapsed]
    BY <2>6, <1>2 DEF EngineRun
  <2>9. Step(r, run) /\ UNCHANGED untouched
    BY <1>1, <1>4, <2>0, <2>1, <2>L, <2>8 DEF ListUndetected
  <2>10. findings \in {resources, findings, recommendations}
    OBVIOUS
  <2> QED BY <1>1, <2>2, <2>3, <2>4, <2>5, <2>6, <2>7, <2>9, <2>10, RowsAreListed
<1>5. CASE ListStale(r)
  <2>0. PICK late \in SUBSET Instances :
          LET page == ListOpen(recommendations, Run(r).next, late)
          IN Step(r, [Run(r) EXCEPT !.pc = "close",
                        !.lapsed = @ \/ page # ListOpen(recommendations, Run(r).next, {}),
                        !.marks = Versions(recommendations, {i \in page \ late : ShouldResolve(r, i)}),
                        !.next = IF Cardinality(page) = pageSize
                                 THEN CHOOSE i \in page : \A j \in page : j <= i ELSE 0])
    BY <1>5 DEF ListStale
  <2>1. PICK page : page = ListOpen(recommendations, Run(r).next, late)
    OBVIOUS
  <2>2. PICK rows : rows = {i \in page \ late : ShouldResolve(r, i)}
    OBVIOUS
  <2>L. PICK lapsed \in BOOLEAN :
          lapsed = (Run(r).lapsed \/ page # ListOpen(recommendations, Run(r).next, {}))
    OBVIOUS
  <2>3. page \in SUBSET Instances /\ rows \in SUBSET Instances
    BY <2>1, <2>2, ListsAreOfInstances
  <2>4. k.engine = "cost" /\ (k.pc = "upsert" \/ Marked(r) = {})
    BY <1>1, <1>5 DEF ListStale, RunIsAt
  <2>5. \A i \in rows : NotFoundBy(k, i)
    <3>1. ASSUME NEW i \in rows PROVE k.view[i] \in {"absent", "clear"}
      <4>1. k.view[i] \in Views /\ k.view[i] # "flagged"
        BY <1>1, <1>2, <2>2, <2>3 DEF ShouldResolve, EngineRun
      <4> QED BY <4>1 DEF Views
    <3> QED BY <2>4, <3>1 DEF NotFoundBy
  <2>6. \A i \in Instances : recommendations[i].version = VersionOf(k.engine, i)
    BY <2>4 DEF VersionOf
  <2>7. PICK next : next = IF Cardinality(page) = pageSize
                           THEN CHOOSE i \in page : \A j \in page : j <= i ELSE 0
    OBVIOUS
  <2>8. next \in 0 .. NumInstances
    <3>1. CASE Cardinality(page) = pageSize
      <4>1. pageSize >= 1 /\ page # {}
        BY <3>1, TypesInParts, FS_EmptySet DEF Instances
      <4>2. next \in Instances
        BY <2>3, <2>7, <3>1, <4>1, LastOfPage
      <4> QED BY <4>2 DEF Instances
    <3>2. CASE Cardinality(page) # pageSize
      BY <2>7, <3>2, InventoryAssumption
    <3> QED BY <3>1, <3>2
  <2>9. PICK run : run = [k EXCEPT !.pc = "close", !.marks = Versions(recommendations, rows), !.next = next,
                                  !.lapsed = lapsed]
    OBVIOUS
  <2>10. Step(r, run) /\ UNCHANGED untouched
    <3>1. run = [k EXCEPT !.pc = "close", !.lapsed = @ \/ page # ListOpen(recommendations, k.next, {}),
                          !.marks = Versions(recommendations, rows), !.next = next]
      BY <1>1, <1>2, <2>L, <2>9 DEF EngineRun
    <3> QED BY <1>1, <1>5, <2>0, <2>1, <2>2, <2>7, <3>1 DEF ListStale
  <2>11. recommendations \in {resources, findings, recommendations}
    OBVIOUS
  <2> QED BY <1>1, <2>3, <2>4, <2>5, <2>6, <2>8, <2>9, <2>10, <2>11, RowsAreListed
<1> QED BY <1>3, <1>4, <1>5

LEMMA SummariesAreWritten ==
  ASSUME InventoryInv, NEW r \in EngineRuns, UpsertSummary(r)
  PROVE  InventoryInv'
<1>1. PICK k : k = Run(r)
  OBVIOUS
<1>2. k \in EngineRun /\ RunIsFair(k)
  BY <1>1, RunsAreFair
<1>3. PICK run : run = [k EXCEPT !.pc = "complete"]
  OBVIOUS
<1>4. k.marks = NoMarks /\ k.sighted = {}
  BY <1>1, <1>2, OpenRunsHaveNoMarks DEF UpsertSummary, Marked
<1>5. run \in EngineRun /\ run.marks = NoMarks /\ run.sighted = {} /\ run.pc # "put"
  BY <1>2, <1>3, <1>4 DEF EngineRun
<1>6. RunIsFair(run)
  BY <1>5, UnmarkedRunsAreFair
<1>7. Step(r, run) /\ TablesStay /\ UNCHANGED pageSize /\ summary' = r
  BY <1>1, <1>3 DEF UpsertSummary, TablesStay
<1>8. TablesOK /\ TablesOK' /\ TablesGrow
  BY <1>7, TypesInParts, TablesThatStayGrow
<1>9. RunIsFair(run)'
  BY <1>6, <1>8, FairRunsStayFair
<1>10. /\ engineRuns' \in [EngineRuns -> EngineRun]
       /\ \A q \in EngineRuns : RunIsFair(engineRuns[q])'
  BY <1>7, <1>8, <1>9, RunsThatStayFair
<1>11. pageSize' \in Instances /\ summary' \in EngineRuns \union {"none"}
  BY <1>7, TypesInParts
<1> QED BY <1>8, <1>10, <1>11, PartsAreEnough

-----------------------------------------------------------------------------
(* Writes of rows.                                                         *)

\* A table of which one row has its next version.
NextVersion(table, later, i) ==
  \A j \in Instances : later[j].version = IF j = i THEN table[j].version + 1 ELSE table[j].version

LEMMA ResourcesAreWritten ==
  ASSUME TablesOK, NEW i \in Instances,
         NEW row \in ResourceRow, row.version = resources[i].version + 1,
         resources' = [resources EXCEPT ![i] = row], UNCHANGED <<findings, recommendations>>
  PROVE  /\ TablesOK' /\ TablesGrow /\ NextVersion(resources, resources', i)
         /\ VersionOf("discovery", i) < VersionOf("discovery", i)'
<1>1. \A j \in Instances : /\ resources[j] \in ResourceRow /\ resources[j].version \in Nat
                           /\ findings[j].version \in Nat /\ recommendations[j].version \in Nat
  BY DEF TablesOK, ResourceRow, FindingRow
<1>2. resources' \in [Instances -> ResourceRow]
  BY DEF TablesOK
<1>3. \A j \in Instances : resources'[j] = IF j = i THEN row ELSE resources[j]
  BY DEF TablesOK
<1>4. NextVersion(resources, resources', i)
  BY <1>3 DEF NextVersion
<1>5. TablesGrow
  BY <1>1, <1>4 DEF TablesGrow, Grows, NextVersion
<1>6. VersionOf("discovery", i) < VersionOf("discovery", i)'
  BY <1>1, <1>4 DEF VersionOf, NextVersion
<1> QED BY <1>2, <1>4, <1>5, <1>6 DEF TablesOK

LEMMA FindingsAreWritten ==
  ASSUME TablesOK, NEW i \in Instances,
         NEW row \in FindingRow, row.version = findings[i].version + 1,
         findings' = [findings EXCEPT ![i] = row], UNCHANGED <<resources, recommendations>>
  PROVE  /\ TablesOK' /\ TablesGrow /\ NextVersion(findings, findings', i)
         /\ VersionOf("security", i) < VersionOf("security", i)'
<1>1. \A j \in Instances : /\ findings[j] \in FindingRow /\ findings[j].version \in Nat
                           /\ resources[j].version \in Nat /\ recommendations[j].version \in Nat
  BY DEF TablesOK, ResourceRow, FindingRow
<1>2. findings' \in [Instances -> FindingRow]
  BY DEF TablesOK
<1>3. \A j \in Instances : findings'[j] = IF j = i THEN row ELSE findings[j]
  BY DEF TablesOK
<1>4. NextVersion(findings, findings', i)
  BY <1>3 DEF NextVersion
<1>5. TablesGrow
  BY <1>1, <1>4 DEF TablesGrow, Grows, NextVersion
<1>6. VersionOf("security", i) < VersionOf("security", i)'
  BY <1>1, <1>4 DEF VersionOf, NextVersion
<1> QED BY <1>2, <1>4, <1>5, <1>6 DEF TablesOK

LEMMA RecommendationsAreWritten ==
  ASSUME TablesOK, NEW i \in Instances,
         NEW row \in FindingRow, row.version = recommendations[i].version + 1,
         recommendations' = [recommendations EXCEPT ![i] = row], UNCHANGED <<resources, findings>>
  PROVE  /\ TablesOK' /\ TablesGrow /\ NextVersion(recommendations, recommendations', i)
         /\ VersionOf("cost", i) < VersionOf("cost", i)'
<1>1. \A j \in Instances : /\ recommendations[j] \in FindingRow /\ recommendations[j].version \in Nat
                           /\ resources[j].version \in Nat /\ findings[j].version \in Nat
  BY DEF TablesOK, ResourceRow, FindingRow
<1>2. recommendations' \in [Instances -> FindingRow]
  BY DEF TablesOK
<1>3. \A j \in Instances : recommendations'[j] = IF j = i THEN row ELSE recommendations[j]
  BY DEF TablesOK
<1>4. NextVersion(recommendations, recommendations', i)
  BY <1>3 DEF NextVersion
<1>5. TablesGrow
  BY <1>1, <1>4 DEF TablesGrow, Grows, NextVersion
<1>6. VersionOf("cost", i) < VersionOf("cost", i)'
  BY <1>1, <1>4 DEF VersionOf, NextVersion
<1> QED BY <1>2, <1>4, <1>5, <1>6 DEF TablesOK

\* The runs that marked the row before it was written, know that it was seen.
LEMMA RowsAreUpserted ==
  ASSUME InventoryInv, NEW r \in EngineRuns, NEW k, k = Run(r), k.pc = "put", Upserted(r),
         TablesOK', TablesGrow, VersionOf(k.engine, k.at) < VersionOf(k.engine, k.at)',
         UNCHANGED <<summary, pageSize>>
  PROVE  InventoryInv'
<1>1. /\ TablesOK /\ pageSize' \in Instances
      /\ summary' \in EngineRuns \union {"none"}
      /\ \A q \in EngineRuns : engineRuns[q] \in EngineRun /\ RunIsFair(engineRuns[q])
  BY TypesInParts
<1>2. k \in EngineRun /\ RunIsFair(k) /\ k.at \in Instances
  <2>1. k \in EngineRun /\ RunIsFair(k)
    BY RunsAreFair
  <2> QED BY <2>1 DEF RunIsFair
<1>3. ASSUME NEW q \in EngineRuns
      PROVE  engineRuns'[q] \in EngineRun /\ RunIsFair(engineRuns[q])'
  <2>1. PICK new : new = engineRuns'[q]
    OBVIOUS
  <2>2. PICK old : old = engineRuns[q]
    OBVIOUS
  <2>3. old \in EngineRun /\ RunIsFair(old)
    BY <1>1, <2>2
  <2>4. RunIsFair(old)'
    BY <1>1, <2>3, FairRunsStayFair
  <2>5. ASSUME q = r PROVE new \in EngineRun /\ RunIsFair(new)'
    <3>1. new = [k EXCEPT !.pc = "upsert", !.at = 0, !.read = 0]
      BY <2>1, <2>5 DEF Upserted
    <3>2. k.marks = NoMarks /\ k.sighted = {}
      BY <1>2, OpenRunsHaveNoMarks DEF RunIsFair
    <3>3. /\ new \in EngineRun /\ new.marks = NoMarks /\ new.sighted = {}
          /\ new.pc # "put"
      <4>1. 0 \in 0 .. NumInstances /\ 0 \in Nat
        BY InventoryAssumption
      <4> QED BY <1>2, <3>1, <3>2, <4>1 DEF EngineRun
    <3>4. RunIsFair(new)
      BY <3>2, <3>3, UnmarkedRunsAreFair
    <3> QED BY <1>1, <3>3, <3>4, FairRunsStayFair
  <2>6. ASSUME q # r, ~(old.engine = k.engine /\ old.marks[k.at] > 0)
        PROVE  new \in EngineRun /\ RunIsFair(new)'
    <3>1. new = old
      BY <2>1, <2>2, <2>6 DEF Upserted, Run
    <3> QED BY <2>3, <2>4, <3>1
  <2>7. ASSUME q # r, old.engine = k.engine, old.marks[k.at] > 0
        PROVE  new \in EngineRun /\ RunIsFair(new)'
    <3>1. new = [old EXCEPT !.sighted = @ \union {k.at}]
      BY <2>1, <2>2, <2>7 DEF Upserted, Run
    <3>2. /\ new \in EngineRun /\ new.marks = old.marks /\ new.sighted = old.sighted \union {k.at}
          /\ new.pc = old.pc /\ new.at = old.at /\ new.view = old.view
          /\ new.engine = old.engine
      BY <3>1, <2>3, <1>2 DEF EngineRun
    <3>3. ASSUME NEW i \in Instances PROVE MarkIsFair(new, i)'
      <4>1. MarkIsFair(old, i)'
        BY <2>4 DEF RunIsFair
      <4>2. CASE i # k.at
        BY <4>1, <4>2, <3>2 DEF MarkIsFair, NotFoundBy, VersionOf
      <4>3. CASE i = k.at
        <5>1. old.marks[i] \in Nat /\ MarkIsFair(old, i)
          BY <2>3 DEF RunIsFair, EngineRun
        <5>2. old.marks[i] <= VersionOf(k.engine, k.at)
          BY <5>1, <4>3, <2>7 DEF MarkIsFair
        <5>3. VersionOf(k.engine, k.at) \in Nat
          BY <1>1, <1>2, VersionsAreNatural
        <5>4. VersionOf(k.engine, k.at)' \in Nat
          BY <1>2 DEF TablesOK, VersionOf, ResourceRow, FindingRow
        <5>5. old.marks[i] < VersionOf(k.engine, k.at)'
          BY <5>1, <5>2, <5>3, <5>4
        <5>6. new.marks[i] < VersionOf(new.engine, i)'
          BY <5>5, <3>2, <2>7, <4>3 DEF VersionOf
        <5> QED BY <4>1, <5>6, <3>2, <2>7, <4>3 DEF MarkIsFair, NotFoundBy, VersionOf
      <4> QED BY <4>2, <4>3
    <3> QED BY <2>4, <3>2, <3>3 DEF RunIsFair
  <2>8. new \in EngineRun /\ RunIsFair(new)'
    BY <2>5, <2>6, <2>7
  <2> QED BY <2>1, <2>8 DEF RunIsFair, MarkIsFair, NotFoundBy, VersionOf
<1>4. engineRuns' \in [EngineRuns -> EngineRun]
  BY <1>3 DEF Upserted
<1> QED BY <1>1, <1>3, <1>4, PartsAreEnough

\* A mark less.
LEMMA UnmarkedRunsStayFair ==
  ASSUME InventoryInv, NEW r \in EngineRuns, NEW i \in Instances, NEW run, run = Unmarked(r, i)
  PROVE  RunIsFair(run) /\ run.marks[i] = 0
<1>1. PICK k : k = Run(r)
  OBVIOUS
<1>2. k \in EngineRun /\ RunIsFair(k)
  BY <1>1, RunsAreFair
<1>3. /\ run \in EngineRun /\ run.sighted = k.sighted \ {i}
      /\ run.pc = k.pc /\ run.at = k.at /\ run.view = k.view
      /\ run.engine = k.engine /\ run.marks = [k.marks EXCEPT ![i] = 0]
  BY <1>1, <1>2 DEF Unmarked, EngineRun
<1>4. \A j \in Instances : run.marks[j] = IF j = i THEN 0 ELSE k.marks[j]
  BY <1>2, <1>3 DEF EngineRun
<1>5. ASSUME NEW j \in Instances PROVE MarkIsFair(run, j)
  BY <1>2, <1>3, <1>4 DEF RunIsFair, MarkIsFair, NotFoundBy
<1> QED BY <1>2, <1>3, <1>4, <1>5 DEF RunIsFair

LEMMA RowsAreClosed ==
  ASSUME InventoryInv, NEW r \in EngineRuns, NEW i \in Instances, Step(r, Unmarked(r, i)),
         TablesOK', TablesGrow, UNCHANGED <<summary, pageSize>>
  PROVE  InventoryInv'
<1>1. PICK run : run = Unmarked(r, i)
  OBVIOUS
<1>2. RunIsFair(run) /\ Step(r, run)
  BY <1>1, UnmarkedRunsStayFair
<1>3. TablesOK /\ pageSize' \in Instances
      /\ summary' \in EngineRuns \union {"none"}
  BY TypesInParts
<1>4. RunIsFair(run)'
  BY <1>2, <1>3, FairRunsStayFair
<1>5. /\ engineRuns' \in [EngineRuns -> EngineRun]
      /\ \A q \in EngineRuns : RunIsFair(engineRuns[q])'
  BY <1>2, <1>4, RunsThatStayFair
<1> QED BY <1>3, <1>5, PartsAreEnough

-----------------------------------------------------------------------------
(* The inventory's steps.                                                  *)

LEMMA UpsertsKeepInv ==
  ASSUME InventoryInv, NEW r \in EngineRuns,
         UpsertDiscoveredResource(r) \/ UpsertFinding(r) \/ UpsertRecommendation(r)
  PROVE  InventoryInv'
<1>1. PICK k : k = Run(r)
  OBVIOUS
<1>2. PICK i : i = k.at
  OBVIOUS
<1>3. k.pc = "put"
  BY <1>1 DEF UpsertDiscoveredResource, UpsertFinding, UpsertRecommendation, RunIsAt
<1>4. TablesOK /\ i \in Instances /\ k \in EngineRun
  BY <1>1, <1>2, <1>3, RunsAreFair, TypesInParts DEF RunIsFair
<1>5. CASE UpsertDiscoveredResource(r)
  <2>1. k.engine = "discovery" /\ UNCHANGED <<findings, recommendations, summary, pageSize>>
    BY <1>1, <1>5 DEF UpsertDiscoveredResource, RunIsAt
  <2>2. CASE RunOver(r) /\ UNCHANGED resources
    BY <2>1, <2>2, RunsEnd DEF untouched
  <2>3. CASE Upserted(r) /\ resources' = [resources EXCEPT ![i] =
                [version |-> @.version + 1, status |-> "ACTIVE", view |-> k.view[i]]]
    <3>1. PICK row : row = [version |-> resources[i].version + 1, status |-> "ACTIVE", view |-> k.view[i]]
      OBVIOUS
    <3>2. k.view[i] \in Views /\ resources[i].version \in Nat
      BY <1>4 DEF EngineRun, TablesOK, ResourceRow
    <3>3. row \in ResourceRow /\ row.version = resources[i].version + 1
      BY <3>1, <3>2 DEF ResourceRow
    <3>4. resources' = [resources EXCEPT ![i] = row]
      BY <2>3, <3>1
    <3>5. TablesOK' /\ TablesGrow /\ VersionOf("discovery", i) < VersionOf("discovery", i)'
      BY <1>4, <2>1, <3>3, <3>4, ResourcesAreWritten
    <3>6. VersionOf(k.engine, k.at) < VersionOf(k.engine, k.at)'
      BY <1>2, <2>1, <3>5 DEF VersionOf
    <3> QED BY <1>1, <1>3, <2>1, <2>3, <3>5, <3>6, RowsAreUpserted
  <2> QED BY <1>1, <1>2, <1>5, <2>2, <2>3 DEF UpsertDiscoveredResource
<1>6. CASE UpsertFinding(r)
  <2>1. k.engine = "security" /\ UNCHANGED <<resources, recommendations, summary, pageSize>>
    BY <1>1, <1>6 DEF UpsertFinding, RunIsAt
  <2>2. CASE RunOver(r) /\ UNCHANGED findings
    BY <2>1, <2>2, RunsEnd DEF untouched
  <2>3. CASE Upserted(r) /\ findings' = [findings EXCEPT ![i] = Redetected(@)]
    <3>1. PICK row : row = Redetected(findings[i])
      OBVIOUS
    <3>2. findings[i].version \in Nat
      BY <1>4 DEF TablesOK, FindingRow
    <3>3. row \in FindingRow /\ row.version = findings[i].version + 1
      BY <3>1, <3>2 DEF FindingRow, Redetected
    <3>4. findings' = [findings EXCEPT ![i] = row]
      BY <2>3, <3>1
    <3>5. TablesOK' /\ TablesGrow /\ VersionOf("security", i) < VersionOf("security", i)'
      BY <1>4, <2>1, <3>3, <3>4, FindingsAreWritten
    <3>6. VersionOf(k.engine, k.at) < VersionOf(k.engine, k.at)'
      BY <1>2, <2>1, <3>5 DEF VersionOf
    <3> QED BY <1>1, <1>3, <2>1, <2>3, <3>5, <3>6, RowsAreUpserted
  <2> QED BY <1>1, <1>2, <1>6, <2>2, <2>3 DEF UpsertFinding
<1>7. CASE UpsertRecommendation(r)
  <2>1. k.engine = "cost" /\ UNCHANGED <<resources, findings, summary, pageSize>>
    BY <1>1, <1>7 DEF UpsertRecommendation, RunIsAt
  <2>2. CASE RunOver(r) /\ UNCHANGED recommendations
    BY <2>1, <2>2, RunsEnd DEF untouched
  <2>3. CASE Upserted(r) /\ recommendations' = [recommendations EXCEPT ![i] = Redetected(@)]
    <3>1. PICK row : row = Redetected(recommendations[i])
      OBVIOUS
    <3>2. recommendations[i].version \in Nat
      BY <1>4 DEF TablesOK, FindingRow
    <3>3. row \in FindingRow /\ row.version = recommendations[i].version + 1
      BY <3>1, <3>2 DEF FindingRow, Redetected
    <3>4. recommendations' = [recommendations EXCEPT ![i] = row]
      BY <2>3, <3>1
    <3>5. TablesOK' /\ TablesGrow /\ VersionOf("cost", i) < VersionOf("cost", i)'
      BY <1>4, <2>1, <3>3, <3>4, RecommendationsAreWritten
    <3>6. VersionOf(k.engine, k.at) < VersionOf(k.engine, k.at)'
      BY <1>2, <2>1, <3>5 DEF VersionOf
    <3> QED BY <1>1, <1>3, <2>1, <2>3, <3>5, <3>6, RowsAreUpserted
  <2> QED BY <1>1, <1>2, <1>7, <2>2, <2>3 DEF UpsertRecommendation
<1> QED BY <1>5, <1>6, <1>7

MarksRow(r) == MarkNotSeen(r) \/ MarkFindingResolved(r) \/ MarkRecommendationResolved(r)

\* What a step that closes rows does: it ends the run, or writes a row at the version at
\* which it was listed.
LEMMA WhatMarkingDoes ==
  ASSUME InventoryInv, NEW r \in EngineRuns, MarksRow(r)
  PROVE  \/ RunOver(r) /\ UNCHANGED untouched
         \/ \E i \in Marked(r) :
              /\ Step(r, Unmarked(r, i)) /\ UNCHANGED <<summary, pageSize>>
              /\ TablesOK' /\ TablesGrow
              /\ VersionOf(Run(r).engine, i) = Run(r).marks[i]
              /\ \A j \in Instances \ {i} :
                   /\ resources'[j] = resources[j] /\ findings'[j] = findings[j]
                   /\ recommendations'[j] = recommendations[j]
<1>1. FirstOf(Marked(r), 1) \subseteq Marked(r) /\ Marked(r) \subseteq Instances /\ TablesOK
  BY TypesInParts DEF FirstOf, Marked
<1>2. CASE MarkNotSeen(r)
  <2>1. PICK i \in Marked(r) :
       \/ /\ VersionHeldBy(resources[i], Run(r).marks[i])
          /\ resources' = [resources EXCEPT ![i].version = @ + 1, ![i].status = "NOT_SEEN"]
          /\ Step(r, Unmarked(r, i))
       \/ RunOver(r) /\ UNCHANGED resources
    BY <1>1, <1>2 DEF MarkNotSeen
  <2>2. UNCHANGED <<findings, recommendations, summary, pageSize>> /\ Run(r).engine = "discovery"
    BY <1>2 DEF MarkNotSeen, RunIsAt
  <2>3. CASE RunOver(r) /\ UNCHANGED resources
    BY <2>2, <2>3 DEF untouched
  <2>4. CASE /\ VersionHeldBy(resources[i], Run(r).marks[i]) /\ Step(r, Unmarked(r, i))
             /\ resources' = [resources EXCEPT ![i].version = @ + 1, ![i].status = "NOT_SEEN"]
    <3>1. i \in Instances /\ resources[i] \in ResourceRow
      BY <1>1 DEF TablesOK
    <3>2. PICK row : row = [resources[i] EXCEPT !.version = @ + 1, !.status = "NOT_SEEN"]
      OBVIOUS
    <3>3. row \in ResourceRow /\ row.version = resources[i].version + 1
      <4>1. PICK old : old = resources[i]
        OBVIOUS
      <4>2. PICK next : next = old.version + 1
        OBVIOUS
      <4>3. old \in ResourceRow /\ next \in Nat
        BY <3>1, <4>1, <4>2 DEF ResourceRow
      <4>4. row = [old EXCEPT !.version = next, !.status = "NOT_SEEN"]
        BY <3>2, <4>1, <4>2, <4>3 DEF ResourceRow
      <4>5. row \in ResourceRow /\ row.version = next
        BY <4>3, <4>4 DEF ResourceRow
      <4> QED BY <4>1, <4>2, <4>5
    <3>4. resources' = [resources EXCEPT ![i] = row]
      BY <1>1, <2>4, <3>1, <3>2 DEF TablesOK
    <3>5. TablesOK' /\ TablesGrow
      BY <1>1, <2>2, <3>1, <3>3, <3>4, ResourcesAreWritten
    <3>6. VersionOf(Run(r).engine, i) = Run(r).marks[i]
      BY <2>2, <2>4 DEF VersionOf, VersionHeldBy
    <3>7. \A j \in Instances \ {i} : resources'[j] = resources[j]
      BY <1>1, <3>4 DEF TablesOK
    <3> QED BY <2>2, <2>4, <3>5, <3>6, <3>7
  <2> QED BY <2>1, <2>3, <2>4
<1>3. CASE MarkFindingResolved(r)
  <2>1. PICK i \in Marked(r) :
          /\ VersionHeldBy(findings[i], Run(r).marks[i])
          /\ findings' = [findings EXCEPT ![i] = Resolved(@)]
          /\ Step(r, Unmarked(r, i))
    BY <1>1, <1>3 DEF MarkFindingResolved
  <2>2. UNCHANGED <<resources, recommendations, summary, pageSize>> /\ Run(r).engine = "security"
    BY <1>3 DEF MarkFindingResolved, RunIsAt
  <2>4. CASE /\ VersionHeldBy(findings[i], Run(r).marks[i]) /\ Step(r, Unmarked(r, i))
             /\ findings' = [findings EXCEPT ![i] = Resolved(@)]
    <3>1. i \in Instances /\ findings[i].version \in Nat
      BY <1>1 DEF TablesOK, FindingRow
    <3>2. PICK row : row = Resolved(findings[i])
      OBVIOUS
    <3>3. row \in FindingRow /\ row.version = findings[i].version + 1
      BY <3>1, <3>2 DEF FindingRow, Resolved
    <3>4. findings' = [findings EXCEPT ![i] = row]
      BY <2>4, <3>2
    <3>5. TablesOK' /\ TablesGrow
      BY <1>1, <2>2, <3>1, <3>3, <3>4, FindingsAreWritten
    <3>6. VersionOf(Run(r).engine, i) = Run(r).marks[i]
      BY <2>2, <2>4 DEF VersionOf, VersionHeldBy
    <3>7. \A j \in Instances \ {i} : findings'[j] = findings[j]
      BY <1>1, <3>4 DEF TablesOK
    <3> QED BY <2>2, <2>4, <3>5, <3>6, <3>7
  <2> QED BY <2>1, <2>4
<1>4. CASE MarkRecommendationResolved(r)
  <2>1. PICK i \in Marked(r) :
       \/ /\ VersionHeldBy(recommendations[i], Run(r).marks[i])
          /\ recommendations' = [recommendations EXCEPT ![i] = Resolved(@)]
          /\ Step(r, Unmarked(r, i))
       \/ RunOver(r) /\ UNCHANGED recommendations
    BY <1>1, <1>4 DEF MarkRecommendationResolved
  <2>2. UNCHANGED <<resources, findings, summary, pageSize>> /\ Run(r).engine = "cost"
    BY <1>4 DEF MarkRecommendationResolved, RunIsAt
  <2>3. CASE RunOver(r) /\ UNCHANGED recommendations
    BY <2>2, <2>3 DEF untouched
  <2>4. CASE /\ VersionHeldBy(recommendations[i], Run(r).marks[i]) /\ Step(r, Unmarked(r, i))
             /\ recommendations' = [recommendations EXCEPT ![i] = Resolved(@)]
    <3>1. i \in Instances /\ recommendations[i].version \in Nat
      BY <1>1 DEF TablesOK, FindingRow
    <3>2. PICK row : row = Resolved(recommendations[i])
      OBVIOUS
    <3>3. row \in FindingRow /\ row.version = recommendations[i].version + 1
      BY <3>1, <3>2 DEF FindingRow, Resolved
    <3>4. recommendations' = [recommendations EXCEPT ![i] = row]
      BY <2>4, <3>2
    <3>5. TablesOK' /\ TablesGrow
      BY <1>1, <2>2, <3>1, <3>3, <3>4, RecommendationsAreWritten
    <3>6. VersionOf(Run(r).engine, i) = Run(r).marks[i]
      BY <2>2, <2>4 DEF VersionOf, VersionHeldBy
    <3>7. \A j \in Instances \ {i} : recommendations'[j] = recommendations[j]
      BY <1>1, <3>4 DEF TablesOK
    <3> QED BY <2>2, <2>4, <3>5, <3>6, <3>7
  <2> QED BY <2>1, <2>3, <2>4
<1> QED BY <1>2, <1>3, <1>4 DEF MarksRow

LEMMA MarkingKeepsInv ==
  ASSUME InventoryInv, NEW r \in EngineRuns, MarksRow(r)
  PROVE  InventoryInv'
<1>1. CASE RunOver(r) /\ UNCHANGED untouched
  BY <1>1, RunsEnd
<1>2. ASSUME NEW i \in Marked(r), Step(r, Unmarked(r, i)), UNCHANGED <<summary, pageSize>>,
             TablesOK', TablesGrow
      PROVE  InventoryInv'
  <2>1. i \in Instances
    BY DEF Marked
  <2> QED BY <1>2, <2>1, RowsAreClosed
<1> QED BY <1>1, <1>2, WhatMarkingDoes

\* A run that gives up a mark.
LEMMA OpenFindingsAreLeft ==
  ASSUME InventoryInv, NEW r \in EngineRuns, LeaveFindingOpen(r)
  PROVE  InventoryInv'
<1>1. PICK i \in Instances : Step(r, [Unmarked(r, i) EXCEPT !.lapsed = TRUE])
  BY DEF LeaveFindingOpen, FirstOf, Marked
<1>2. PICK k : k = Unmarked(r, i)
  OBVIOUS
<1>3. RunIsFair(k)
  BY <1>2, UnmarkedRunsStayFair
<1>4. PICK run : run = [k EXCEPT !.lapsed = TRUE]
  OBVIOUS
<1>5. /\ run \in EngineRun /\ run.marks = k.marks /\ run.sighted = k.sighted
      /\ run.pc = k.pc /\ run.at = k.at /\ run.view = k.view /\ run.engine = k.engine
  BY <1>3, <1>4 DEF RunIsFair, EngineRun
<1>6. RunIsFair(run)
  BY <1>3, <1>5 DEF RunIsFair, MarkIsFair, NotFoundBy
<1> QED BY <1>1, <1>2, <1>4, <1>6, StepsOfARun DEF LeaveFindingOpen

LEMMA InitInventory == InventoryInit => InventoryInv
<1> SUFFICES ASSUME InventoryInit PROVE InventoryInv
  OBVIOUS
<1>1. NoResource \in ResourceRow /\ NoFinding \in FindingRow
  BY DEF NoResource, NoFinding, ResourceRow, FindingRow, Views
<1>2. [version : {1}, status : {"ACTIVE"}, view : {"clear", "flagged"}] \subseteq ResourceRow
  BY DEF ResourceRow, Views
<1>3. [version : {1}, status : {"OPEN"}] \subseteq FindingRow
  BY DEF FindingRow
<1>4. TablesOK
  BY <1>1, <1>2, <1>3 DEF InventoryInit, TablesOK
<1>5. summary \in EngineRuns \union {"none"} /\ pageSize \in Instances
  BY InventoryAssumption DEF InventoryInit
<1>6. \A r \in EngineRuns : engineRuns[r] = IdleEngineRun
  BY DEF InventoryInit
<1>7. engineRuns \in [EngineRuns -> EngineRun]
  BY IdleRunsAreFair DEF InventoryInit
<1>8. \A r \in EngineRuns : RunIsFair(engineRuns[r])
  BY <1>6, IdleRunsAreFair
<1> QED BY <1>4, <1>5, <1>7, <1>8 DEF InventoryInv, InventoryTypeOK, TablesOK

LEMMA InventoryStep == InventoryInv /\ [InventoryNext]_inventoryVars => InventoryInv'
<1> SUFFICES ASSUME InventoryInv, [InventoryNext]_inventoryVars PROVE InventoryInv'
  OBVIOUS
<1>1. CASE UNCHANGED inventoryVars
  BY <1>1 DEF inventoryVars, InventoryInv, InventoryTypeOK, RunIsFair, MarkIsFair, NotFoundBy,
              VersionOf
<1>2. ASSUME NEW r \in EngineRuns, RunDies(r) \/ RunSucceeds(r) PROVE InventoryInv'
  BY <1>2, RunsEnd DEF RunDies, RunSucceeds
<1> QED BY <1>1, <1>2, DiscoveriesBegin, UpsertsRead, UpsertsKeepInv, RunsList, MarkingKeepsInv,
           OpenFindingsAreLeft, SummariesAreWritten DEF InventoryNext, MarksRow

-----------------------------------------------------------------------------
(* The theorems about the inventory.                                       *)

\* Every row, run and summary keeps its shape, and what a run marks to close is a row that it
\* did not find, at the version that it listed or at one that others have left behind.
THEOREM InventoryInvariant == InventorySpec => []InventoryInv
BY InitInventory, InventoryStep, PTL DEF InventorySpec

\* A run reads no row without an instance, and every list goes on after a row that exists.
THEOREM InventoryTypes == InventorySpec => []InventoryTypeOK
<1>1. InventoryInv => InventoryTypeOK
  BY DEF InventoryInv
<1> QED BY <1>1, InventoryInvariant, PTL

\* A step of closing rows closes one, if any, fairly.
LEMMA MarkingIsFair ==
  ASSUME InventoryInv, NEW r \in EngineRuns, MarksRow(r), NEW i \in Instances,
         \/ Closed(resources[i], resources'[i]) \/ Closed(findings[i], findings'[i])
         \/ Closed(recommendations[i], recommendations'[i])
  PROVE  i \in Marked(r) /\ i \notin Marked(r)' /\ NotFound(r, i) /\ i \notin Run(r).sighted
<1>1. ~(UNCHANGED <<resources[i], findings[i], recommendations[i]>>)
  BY DEF Closed
<1>2. PICK j \in Marked(r) :
        /\ Step(r, Unmarked(r, j)) /\ VersionOf(Run(r).engine, j) = Run(r).marks[j]
        /\ \A x \in Instances \ {j} : UNCHANGED <<resources[x], findings[x], recommendations[x]>>
  <2>1. ~(UNCHANGED untouched)
    BY <1>1 DEF untouched
  <2> QED BY <2>1, WhatMarkingDoes
<1>3. i = j
  BY <1>1, <1>2
<1>4. PICK k : k = Run(r)
  OBVIOUS
<1>5. k \in EngineRun /\ MarkIsFair(k, i) /\ k.marks[i] > 0
  BY <1>2, <1>3, <1>4, RunsAreFair DEF RunIsFair, Marked
<1>6. NotFound(r, i)
  BY <1>4, <1>5 DEF MarkIsFair, NotFoundBy, NotFound
<1>7. i \notin k.sighted
  <2>1. k.marks[i] \in Nat /\ VersionOf(k.engine, i) = k.marks[i]
    BY <1>2, <1>3, <1>4, <1>5 DEF EngineRun
  <2> QED BY <2>1, <1>5 DEF MarkIsFair
<1>8. i \notin Marked(r)'
  <2>1. PICK run : run = Unmarked(r, j)
    OBVIOUS
  <2>2. run.marks[i] = 0
    BY <1>3, <2>1, UnmarkedRunsStayFair
  <2>3. Run(r)' = run
    BY <1>2, <2>1, TypesInParts DEF Step, Run
  <2> QED BY <2>2, <2>3 DEF Marked
<1> QED BY <1>2, <1>3, <1>4, <1>6, <1>7, <1>8

\* Only those steps close rows.
LEMMA OthersCloseNothing ==
  ASSUME InventoryInv, NEW r \in EngineRuns, NEW i \in Instances,
         \/ RunDies(r) \/ RunSucceeds(r)
         \/ DiscoverRegion(r) \/ ReadResource(r) \/ UpsertDiscoveredResource(r) \/ ListUnseen(r)
         \/ AnalyzeInventory(r) \/ ReadFinding(r) \/ UpsertFinding(r) \/ ListUndetected(r)
         \/ LeaveFindingOpen(r) \/ UpsertSummary(r)
         \/ EvaluateRules(r) \/ ReadRecommendation(r) \/ UpsertRecommendation(r) \/ ListStale(r)
  PROVE  /\ ~Closed(resources[i], resources'[i]) /\ ~Closed(findings[i], findings'[i])
         /\ ~Closed(recommendations[i], recommendations'[i])
<1>1. TablesOK
  BY TypesInParts
<1>2. CASE TablesStay
  BY <1>2 DEF TablesStay, Closed
<1>3. CASE UpsertDiscoveredResource(r)
  <2>1. UNCHANGED <<findings, recommendations>> /\ (resources'[i] = resources[i] \/ resources'[i].status = "ACTIVE")
    BY <1>1, <1>3 DEF UpsertDiscoveredResource, TablesOK
  <2> QED BY <2>1 DEF Closed
<1>4. CASE UpsertFinding(r)
  <2>1. UNCHANGED <<resources, recommendations>> /\ (findings'[i] = findings[i] \/ findings'[i].status = "OPEN")
    BY <1>1, <1>4 DEF UpsertFinding, TablesOK, Redetected
  <2> QED BY <2>1 DEF Closed
<1>5. CASE UpsertRecommendation(r)
  <2>1. /\ UNCHANGED <<resources, findings>>
        /\ recommendations'[i] = recommendations[i] \/ recommendations'[i].status = "OPEN"
    BY <1>1, <1>5 DEF UpsertRecommendation, TablesOK, Redetected
  <2> QED BY <2>1 DEF Closed
<1>6. TablesStay \/ UpsertDiscoveredResource(r) \/ UpsertFinding(r) \/ UpsertRecommendation(r)
  BY DEF TablesStay, untouched, RunDies, RunSucceeds, DiscoverRegion, ReadResource, ListUnseen,
         AnalyzeInventory, ReadFinding, ListUndetected, LeaveFindingOpen, UpsertSummary,
         EvaluateRules, ReadRecommendation, ListStale
<1> QED BY <1>2, <1>3, <1>4, <1>5, <1>6

\* A discovery, a security or a cost analysis never closes the row of an instance that it
\* found, nor one that an overlapping run of its engine has found since it was listed: the
\* versions of the rows tell them apart, however many runs overlap.
THEOREM NothingNewerIsEverClosed == InventorySpec => NothingNewerIsClosed
<1> DEFINE Fair == \A i \in Instances :
       \/ Closed(resources[i], resources'[i]) \/ Closed(findings[i], findings'[i])
       \/ Closed(recommendations[i], recommendations'[i])
       => \E r \in EngineRuns :
            i \in Marked(r) /\ i \notin Marked(r)' /\ NotFound(r, i) /\ i \notin Run(r).sighted
<1>1. InventoryInv /\ [InventoryNext]_inventoryVars => [Fair]_inventoryVars
  <2>1. ASSUME InventoryInv, InventoryNext PROVE Fair
    <3>1. PICK r \in EngineRuns :
            \/ RunDies(r) \/ RunSucceeds(r)
            \/ DiscoverRegion(r) \/ ReadResource(r) \/ UpsertDiscoveredResource(r) \/ ListUnseen(r)
            \/ AnalyzeInventory(r) \/ ReadFinding(r) \/ UpsertFinding(r) \/ ListUndetected(r)
            \/ LeaveFindingOpen(r) \/ UpsertSummary(r)
            \/ EvaluateRules(r) \/ ReadRecommendation(r) \/ UpsertRecommendation(r) \/ ListStale(r)
            \/ MarksRow(r)
      BY <2>1 DEF InventoryNext, MarksRow
    <3>2. CASE MarksRow(r)
      BY <2>1, <3>2, MarkingIsFair
    <3>3. CASE ~MarksRow(r)
      BY <2>1, <3>1, <3>3, OthersCloseNothing
    <3> QED BY <3>2, <3>3
  <2> QED BY <2>1
<1> QED BY <1>1, InventoryInvariant, PTL DEF InventorySpec, NothingNewerIsClosed

-----------------------------------------------------------------------------
(* Runs that nobody disturbs.                                              *)

\* What a run has to find OPEN or ACTIVE when it is done.
Wanted(run, i) ==
  IF run.engine = "discovery" THEN run.view[i] # "absent" ELSE run.view[i] = "flagged"

\* The row of an instance, as the run wants it.
IsWritten(run, i) ==
  CASE run.engine = "discovery" -> resources[i].status = "ACTIVE" /\ resources[i].view = run.view[i]
    [] run.engine = "security" -> findings[i].status = "OPEN"
    [] run.engine = "cost" -> recommendations[i].status = "OPEN"

\* The rows on the page that an engine lists, which it still has to close if it did not find
\* their instance.
StandsOpen(engine, i) ==
  CASE engine = "discovery" -> i \in OnPage(resources) /\ resources[i].status = "ACTIVE"
    [] engine = "security" -> i \in OnPage(findings) /\ findings[i].status = "OPEN"
    [] engine = "cost" -> i \in OnPage(recommendations) /\ recommendations[i].status = "OPEN"

Upserting(run) == run.pc \in {"upsert", "put"}

\* How far a run that is alone has come: what it wants is written or to do; after that, what
\* it has to close is marked, unless a list was late or an error was swallowed.
Upserts(run) ==
  \A i \in Instances :
    Wanted(run, i) => i \in run.todo \/ (run.pc = "put" /\ run.at = i) \/ IsWritten(run, i)

Closes(run) ==
  /\ Upserting(run) => run.next = 0
  /\ ~Upserting(run) =>
       /\ run.todo = {}
       /\ ~run.lapsed =>
            \A i \in Instances : StandsOpen(run.engine, i) /\ ~Wanted(run, i) => run.marks[i] > 0

Summarises(r, run) == run.engine = "security" /\ run.pc = "complete" => summary = r

RunIsExact(r, run) ==
  run.alone /\ run.engine \in Engines => Upserts(run) /\ Closes(run) /\ Summarises(r, run)

OneEngineEach ==
  \A r, q \in EngineRuns :
    Run(r).alone /\ Run(r).engine \in Engines /\ q # r => Run(q).engine # Run(r).engine

ExactInv ==
  /\ OneEngineEach
  /\ \A r \in EngineRuns : RunIsExact(r, engineRuns[r])

-----------------------------------------------------------------------------
(* Runs that nobody disturbs: pages.                                       *)

\* What is on a page of some rows, is on the page of fewer.
LEMMA FewerRowsComeSooner ==
  ASSUME NEW rows \in SUBSET Instances, NEW some \in SUBSET rows, NEW n \in Nat, NEW m \in Nat,
         n <= m, NEW i \in some, i \in FirstOf(rows, n)
  PROVE  i \in FirstOf(some, m)
<1> DEFINE A == {k \in rows : k <= i}
           B == {k \in some : k <= i}
<1>1. A \in SUBSET Instances /\ B \subseteq A
  OBVIOUS
<1>2. IsFiniteSet(A) /\ Cardinality(A) \in Nat
  <2> HIDE DEF A
  <2>1. IsFiniteSet(A)
    BY <1>1, CountOfInstances
  <2> QED BY <2>1, FS_CardinalityType
<1>3. IsFiniteSet(B) /\ Cardinality(B) <= Cardinality(A)
  <2> HIDE DEF A, B
  <2> QED BY <1>1, <1>2, FS_Subset
<1>4. Cardinality(B) \in Nat
  <2> HIDE DEF B
  <2> QED BY <1>3, FS_CardinalityType
<1>5. Cardinality(A) <= n
  BY DEF FirstOf
<1>6. Cardinality(B) <= m
  <2> HIDE DEF A, B
  <2> QED BY <1>2, <1>3, <1>4, <1>5
<1> QED BY <1>6 DEF FirstOf

\* The open rows of the first page are asked for.
LEMMA OpenRowsOnPageAreListed ==
  ASSUME pageSize \in Instances, NEW table, NEW i \in OnPage(table), table[i].status = "OPEN"
  PROVE  i \in ListOpen(table, 0, {})
<1> DEFINE rows == Rows(table, 0, {})
           wide == FirstOf(rows, 2 * pageSize)
           some == {k \in wide : ShownOpen(table, k, {})}
<1>1. rows \in SUBSET Instances /\ i \in rows /\ some \in SUBSET rows
  BY DEF Rows, OnPage, FirstOf
<1>2. pageSize \in Nat /\ 2 * pageSize \in Nat /\ pageSize <= 2 * pageSize
  BY InventoryAssumption DEF Instances
<1>3. i \in FirstOf(rows, pageSize)
  BY DEF OnPage
<1>4. i \in wide
  <2> HIDE DEF rows, some
  <2> QED BY <1>1, <1>2, <1>3, FewerRowsComeSooner
<1>5. i \in some
  BY <1>4 DEF ShownOpen
<1>6. i \in FirstOf(some, pageSize)
  <2> HIDE DEF rows, some
  <2> QED BY <1>1, <1>2, <1>3, <1>5, FewerRowsComeSooner
<1> QED BY <1>6 DEF ListOpen

\* A page changes when rows come, never when they are written.
LEMMA PagesStay ==
  ASSUME NEW table, NEW later,
         \A j \in Instances : later[j].version > 0 <=> table[j].version > 0
  PROVE  Rows(later, 0, {}) = Rows(table, 0, {})
BY DEF Rows, Exists

-----------------------------------------------------------------------------
(* Runs that nobody disturbs: frames.                                      *)

KeepsTable(engine) ==
  /\ UNCHANGED pageSize
  /\ engine = "discovery" => UNCHANGED resources
  /\ engine = "security" => UNCHANGED <<findings, summary>>
  /\ engine = "cost" => UNCHANGED recommendations

LEMMA ExactRunsStayExact ==
  ASSUME NEW r, NEW run, RunIsExact(r, run), KeepsTable(run.engine)
  PROVE  RunIsExact(r, run)'
<1>1. CASE run.engine = "discovery"
  BY <1>1 DEF RunIsExact, KeepsTable, Upserts, Closes, Summarises, Wanted, IsWritten, StandsOpen,
              OnPage, Rows, Exists, FirstOf, Upserting, Engines
<1>2. CASE run.engine = "security"
  BY <1>2 DEF RunIsExact, KeepsTable, Upserts, Closes, Summarises, Wanted, IsWritten, StandsOpen,
              OnPage, Rows, Exists, FirstOf, Upserting, Engines
<1>3. CASE run.engine = "cost"
  BY <1>3 DEF RunIsExact, KeepsTable, Upserts, Closes, Summarises, Wanted, IsWritten, StandsOpen,
              OnPage, Rows, Exists, FirstOf, Upserting, Engines
<1>4. CASE run.engine \notin Engines
  BY <1>4 DEF RunIsExact, Engines
<1> QED BY <1>1, <1>2, <1>3, <1>4 DEF Engines

LEMMA ExactByName ==
  ASSUME NEW r, NEW run, run = engineRuns'[r], RunIsExact(r, run)'
  PROVE  RunIsExact(r, engineRuns[r])'
<1>1. \A i \in Instances :
        /\ Wanted(engineRuns[r], i)' = Wanted(run, i)'
        /\ IsWritten(engineRuns[r], i)' = IsWritten(run, i)'
        /\ StandsOpen(engineRuns[r].engine, i)' = StandsOpen(run.engine, i)'
  BY DEF Wanted, IsWritten, StandsOpen
<1>2. Upserting(engineRuns[r])' = Upserting(run)'
  BY DEF Upserting
<1>4. Upserts(run)' => Upserts(engineRuns[r])'
  BY <1>1 DEF Upserts
<1>5. Closes(run)' => Closes(engineRuns[r])'
  BY <1>1, <1>2 DEF Closes
<1>6. Summarises(r, run)' => Summarises(r, engineRuns[r])'
  BY DEF Summarises
<1> QED BY <1>4, <1>5, <1>6 DEF RunIsExact

\* One run moves, and those of its engine that marked what it has seen know it.
OthersGoOn(r) ==
  \A q \in EngineRuns \ {r} :
    \/ engineRuns'[q] = engineRuns[q]
    \/ /\ engineRuns'[q].engine = Run(r).engine /\ Run(q).engine = Run(r).engine
       /\ engineRuns'[q].alone = Run(q).alone

LEMMA RunsMoveApart ==
  ASSUME ExactInv, NEW r \in EngineRuns, NEW k, k = Run(r), k.engine \in Engines,
         NEW run, run = engineRuns'[r],
         \/ run.engine = "none"
         \/ /\ run.engine = k.engine /\ run.alone = k.alone
            /\ k.alone => RunIsExact(r, run)',
         OthersGoOn(r), \A e \in Engines \ {k.engine} : KeepsTable(e)
  PROVE  ExactInv'
<1>1. ASSUME NEW q \in EngineRuns, q # r, Run(q).alone PROVE Run(q).engine # k.engine
  BY <1>1 DEF ExactInv, OneEngineEach
<1>2. ASSUME NEW p \in EngineRuns, NEW q \in EngineRuns, Run(p)'.alone, Run(p)'.engine \in Engines, q # p
      PROVE  Run(q)'.engine # Run(p)'.engine
  <2>1. Run(p)' = engineRuns'[p] /\ Run(q)' = engineRuns'[q]
    BY DEF Run
  <2>2. "none" \notin Engines
    BY DEF Engines
  <2>3. CASE p = r
    <3>1. run.engine = k.engine /\ k.alone /\ q # r
      BY <1>2, <2>1, <2>2, <2>3
    <3>2. Run(q).engine # k.engine
      BY <3>1 DEF ExactInv, OneEngineEach
    <3> QED BY <2>1, <2>3, <3>1, <3>2 DEF OthersGoOn, Run
  <2>4. CASE p # r
    <3>1. Run(p).alone
      BY <1>2, <2>1, <2>4 DEF OthersGoOn, Run
    <3>2. engineRuns'[p] = engineRuns[p] /\ Run(p).engine # k.engine
      BY <1>1, <2>4, <3>1 DEF OthersGoOn
    <3>3. Run(q).engine # Run(p).engine
      BY <1>2, <2>1, <3>1, <3>2 DEF ExactInv, OneEngineEach, Run
    <3>4. CASE q = r
      BY <1>2, <2>1, <2>2, <3>2, <3>4 DEF Run
    <3>5. CASE q # r
      BY <2>1, <3>2, <3>3, <3>5 DEF OthersGoOn, Run
    <3> QED BY <3>4, <3>5
  <2> QED BY <2>3, <2>4
<1>3. ASSUME NEW q \in EngineRuns PROVE RunIsExact(q, engineRuns[q])'
  <2>1. PICK old : old = engineRuns[q]
    OBVIOUS
  <2>2. PICK new : new = engineRuns'[q]
    OBVIOUS
  <2>3. RunIsExact(q, new)'
    <3>1. CASE q = r
      <4>1. new = run
        BY <2>2, <3>1
      <4>2. CASE run.engine = "none"
        BY <4>1, <4>2 DEF RunIsExact, Engines
      <4>3. CASE run.alone = k.alone /\ k.alone
        <5>1. RunIsExact(r, run)' \/ run.engine = "none"
          BY <4>3
        <5> QED BY <3>1, <4>1, <4>2, <5>1
      <4>4. CASE run.alone = k.alone /\ ~k.alone
        BY <4>1, <4>4 DEF RunIsExact
      <4> QED BY <4>2, <4>3, <4>4
    <3>2. CASE q # r /\ new = old /\ old.engine \in Engines \ {k.engine}
      <4>1. RunIsExact(q, old) /\ KeepsTable(old.engine)
        BY <2>1, <3>2 DEF ExactInv
      <4> QED BY <3>2, <4>1, ExactRunsStayExact
    <3>3. CASE q # r /\ new = old /\ old.engine \notin Engines
      BY <3>3 DEF RunIsExact
    <3>4. CASE q # r /\ ~(new = old /\ old.engine # k.engine)
      <4>1. old.engine = k.engine /\ new.alone = old.alone
        BY <2>1, <2>2, <3>4 DEF OthersGoOn, Run
      <4>2. ~old.alone
        BY <1>1, <2>1, <3>4, <4>1 DEF Run
      <4> QED BY <4>1, <4>2 DEF RunIsExact
    <3> QED BY <3>1, <3>2, <3>3, <3>4
  <2> QED BY <2>2, <2>3, ExactByName
<1> QED BY <1>2, <1>3 DEF ExactInv, OneEngineEach

\* A step of a run that touches no table.
LEMMA ExactRunsStep ==
  ASSUME ExactInv, NEW r \in EngineRuns, NEW k, k = Run(r), k.engine \in Engines,
         engineRuns \in [EngineRuns -> EngineRun],
         NEW run, Step(r, run), run.engine = k.engine, run.alone = k.alone,
         k.alone => RunIsExact(r, run), UNCHANGED untouched
  PROVE  ExactInv'
<1>1. \A e \in Engines : KeepsTable(e)
  BY DEF KeepsTable, untouched
<1>2. OthersGoOn(r) /\ run = engineRuns'[r]
  BY DEF Step, OthersGoOn
<1>3. k.alone => RunIsExact(r, run)'
  BY <1>1, ExactRunsStayExact
<1> QED BY <1>1, <1>2, <1>3, RunsMoveApart

\* An upsert of the next row: of what the run wants, it has one more.
LEMMA ExactRunsUpsert ==
  ASSUME InventoryInv, ExactInv, NEW r \in EngineRuns, NEW k, k = Run(r), k.engine \in Engines,
         k.pc = "put", Upserted(r), \A e \in Engines \ {k.engine} : KeepsTable(e),
         \A i \in Instances : Wanted(k, i) /\ (i = k.at \/ IsWritten(k, i)) => IsWritten(k, i)'
  PROVE  ExactInv'
<1>1. k \in EngineRun /\ RunIsFair(k) /\ RunIsExact(r, k) /\ engineRuns \in [EngineRuns -> EngineRun]
  BY RunsAreFair, TypesInParts DEF ExactInv, Run
<1>2. PICK run : run = [k EXCEPT !.pc = "upsert", !.at = 0, !.read = 0]
  OBVIOUS
<1>3. run = engineRuns'[r] /\ OthersGoOn(r)
  <2>1. run = engineRuns'[r]
    BY <1>2 DEF Upserted
  <2>2. ASSUME NEW q \in EngineRuns \ {r}
        PROVE  \/ engineRuns'[q] = engineRuns[q]
               \/ /\ engineRuns'[q].engine = Run(r).engine /\ Run(q).engine = Run(r).engine
                  /\ engineRuns'[q].alone = Run(q).alone
    <3>1. Run(q) \in EngineRun
      BY <1>1 DEF Run
    <3>2. \/ engineRuns'[q] = Run(q)
          \/ /\ Run(q).engine = Run(r).engine
             /\ engineRuns'[q] = [Run(q) EXCEPT !.sighted = @ \union {Run(r).at}]
      BY DEF Upserted
    <3> QED BY <3>1, <3>2 DEF EngineRun, Run
  <2> QED BY <2>1, <2>2 DEF OthersGoOn
<1>4. /\ run.engine = k.engine /\ run.alone = k.alone /\ run.view = k.view /\ run.todo = k.todo
      /\ run.pc = "upsert" /\ run.next = k.next
  BY <1>1, <1>2 DEF EngineRun
<1>5. ASSUME k.alone PROVE RunIsExact(r, run)'
  <2>1. Upserts(k) /\ Closes(k)
    BY <1>1, <1>5 DEF RunIsExact
  <2>2. ASSUME NEW i \in Instances, Wanted(k, i) PROVE i \in run.todo \/ IsWritten(k, i)'
    BY <2>1, <2>2, <1>4 DEF Upserts
  <2>3. \A i \in Instances : /\ Wanted(run, i)' = Wanted(k, i)
                             /\ IsWritten(run, i)' = IsWritten(k, i)'
    BY <1>4 DEF Wanted, IsWritten
  <2>4. Upserts(run)'
    BY <2>2, <2>3 DEF Upserts
  <2>5. Closes(run)'
    <3>1. run.next = 0
      BY <2>1, <1>4 DEF Closes, Upserting
    <3> QED BY <3>1, <1>4 DEF Closes, Upserting
  <2>6. Summarises(r, run)'
    BY <1>4 DEF Summarises
  <2> QED BY <2>4, <2>5, <2>6 DEF RunIsExact
<1> QED BY <1>3, <1>4, <1>5, RunsMoveApart

\* A row less to close.
LEMMA ExactRunsClose ==
  ASSUME InventoryInv, ExactInv, NEW r \in EngineRuns, NEW k, k = Run(r), k.engine \in Engines,
         k.pc = "close", NEW i \in Marked(r), NEW run, Step(r, run),
         \/ run = Unmarked(r, i) /\ ~StandsOpen(k.engine, i)'
         \/ run = [Unmarked(r, i) EXCEPT !.lapsed = TRUE],
         \A e \in Engines \ {k.engine} : KeepsTable(e),
         \A j \in Instances \ {i} :
           /\ IsWritten(k, j) => IsWritten(k, j)'
           /\ StandsOpen(k.engine, j)' => StandsOpen(k.engine, j)
  PROVE  ExactInv'
<1>1. k \in EngineRun /\ RunIsFair(k) /\ RunIsExact(r, k) /\ engineRuns \in [EngineRuns -> EngineRun]
  BY RunsAreFair, TypesInParts DEF ExactInv, Run
<1>2. PICK one : one = Unmarked(r, i)
  OBVIOUS
<1>3. run = engineRuns'[r] /\ OthersGoOn(r)
  BY <1>1 DEF Step, OthersGoOn
<1>4. i \in Instances /\ k.marks[i] > 0
  BY DEF Marked
<1>5. /\ one \in EngineRun /\ one.lapsed = k.lapsed
      /\ one.engine = k.engine /\ one.alone = k.alone /\ one.view = k.view /\ one.todo = k.todo
      /\ one.pc = "close" /\ one.next = k.next /\ one.marks = [k.marks EXCEPT ![i] = 0]
  BY <1>1, <1>2, UnmarkedRunsStayFair, <1>4 DEF EngineRun, Unmarked, RunIsFair
<1>6. /\ run.engine = k.engine /\ run.alone = k.alone /\ run.view = k.view /\ run.todo = k.todo
      /\ run.pc = "close" /\ run.marks = [k.marks EXCEPT ![i] = 0]
      /\ ~run.lapsed => ~k.lapsed /\ ~StandsOpen(k.engine, i)'
  <2>1. CASE run = one /\ ~StandsOpen(k.engine, i)'
    BY <1>5, <2>1
  <2>2. CASE run = [one EXCEPT !.lapsed = TRUE]
    BY <1>5, <2>2 DEF EngineRun
  <2> QED BY <1>2, <2>1, <2>2
<1>7. ~Wanted(k, i)
  BY <1>1, <1>4 DEF RunIsFair, MarkIsFair, NotFoundBy, Wanted
<1>8. ASSUME k.alone PROVE RunIsExact(r, run)'
  <2>1. Upserts(k) /\ Closes(k)
    BY <1>1, <1>8 DEF RunIsExact
  <2>2. \A j \in Instances : run.marks[j] = IF j = i THEN 0 ELSE k.marks[j]
    BY <1>1, <1>6 DEF EngineRun
  <2>3. \A j \in Instances : /\ Wanted(run, j)' = Wanted(k, j)
                             /\ IsWritten(run, j)' = IsWritten(k, j)'
                             /\ StandsOpen(run.engine, j)' = StandsOpen(k.engine, j)'
    BY <1>6 DEF Wanted, IsWritten, StandsOpen
  <2>4. ASSUME NEW j \in Instances, Wanted(k, j)
        PROVE  j \in run.todo \/ IsWritten(k, j)'
    BY <2>1, <2>4, <1>6, <1>7 DEF Upserts
  <2>5. Upserts(run)'
    BY <2>3, <2>4 DEF Upserts
  <2>6. ASSUME NEW j \in Instances, ~run.lapsed, StandsOpen(k.engine, j)', ~Wanted(k, j)
        PROVE  run.marks[j] > 0
    BY <1>6, <2>1, <2>2, <2>6 DEF Closes, Upserting
  <2>7. Closes(run)'
    <3>1. run.todo = {} /\ ~Upserting(run)
      BY <2>1, <1>6 DEF Closes, Upserting
    <3> QED BY <3>1, <2>3, <2>6 DEF Closes, Upserting
  <2>8. Summarises(r, run)'
    BY <1>6 DEF Summarises
  <2> QED BY <2>5, <2>7, <2>8 DEF RunIsExact
<1> QED BY <1>3, <1>6, <1>8, RunsMoveApart

\* A run that ends, or begins.
LEMMA ExactRunsEnd ==
  ASSUME ExactInv, engineRuns \in [EngineRuns -> EngineRun], NEW r \in EngineRuns, RunOver(r),
         UNCHANGED untouched
  PROVE  ExactInv'
<1>1. PICK over : over = [IdleEngineRun EXCEPT !.pc = "over"]
  OBVIOUS
<1>2. over.engine = "none" /\ "none" \notin Engines
  BY <1>1 DEF IdleEngineRun, Engines
<1>3. \A q \in EngineRuns : engineRuns'[q] = IF q = r THEN over ELSE engineRuns[q]
  BY <1>1 DEF RunOver, Step
<1>4. \A e \in Engines : KeepsTable(e)
  BY DEF KeepsTable, untouched
<1>5. OneEngineEach'
  BY <1>2, <1>3 DEF ExactInv, OneEngineEach, Run
<1>7. ASSUME NEW q \in EngineRuns PROVE RunIsExact(q, engineRuns[q])'
  <2>1. PICK new : new = engineRuns'[q]
    OBVIOUS
  <2>2. RunIsExact(q, new)'
    <3>1. CASE new.engine \notin Engines
      BY <3>1 DEF RunIsExact
    <3>2. CASE new.engine \in Engines
      <4>1. RunIsExact(q, new) /\ KeepsTable(new.engine)
        BY <1>2, <1>3, <1>4, <2>1, <3>2 DEF ExactInv
      <4> QED BY <4>1, ExactRunsStayExact
    <3> QED BY <3>1, <3>2
  <2> QED BY <2>1, <2>2, ExactByName
<1> QED BY <1>5, <1>7 DEF ExactInv

LEMMA ExactRunsBegin ==
  ASSUME ExactInv, engineRuns \in [EngineRuns -> EngineRun], NEW r \in EngineRuns,
         NEW run \in EngineRun, run.engine \in Engines, BeginRun(r, run), UNCHANGED untouched,
         run.pc = "upsert", run.next = 0,
         \A i \in Instances : Wanted(run, i) => i \in run.todo
  PROVE  ExactInv'
<1>1. PICK alone \in BOOLEAN : alone = (\A o \in EngineRuns : Run(o).engine # run.engine)
  OBVIOUS
<1>2. PICK mine : mine = [run EXCEPT !.alone = alone]
  OBVIOUS
<1>3. /\ mine.engine = run.engine /\ mine.alone = alone /\ mine.view = run.view
      /\ mine.todo = run.todo /\ mine.pc = "upsert" /\ mine.next = 0
  BY <1>2 DEF EngineRun
<1>4. ASSUME NEW q \in EngineRuns
      PROVE  \/ q = r /\ engineRuns'[q] = mine
             \/ /\ q # r /\ engineRuns'[q] = engineRuns[q] /\ engineRuns[q].engine # run.engine
             \/ /\ q # r /\ ~engineRuns'[q].alone /\ engineRuns'[q].engine = engineRuns[q].engine
  <2>1. engineRuns[q] \in EngineRun
    OBVIOUS
  <2>2. engineRuns'[q] = IF q = r THEN mine ELSE
          IF engineRuns[q].engine = run.engine THEN [engineRuns[q] EXCEPT !.alone = FALSE]
          ELSE engineRuns[q]
    BY <1>1, <1>2 DEF BeginRun, Run
  <2> QED BY <2>1, <2>2 DEF EngineRun
<1>5. ASSUME NEW p \in EngineRuns, NEW q \in EngineRuns, Run(p)'.alone, Run(p)'.engine \in Engines, q # p
      PROVE  Run(q)'.engine # Run(p)'.engine
  <2>1. Run(p)' = engineRuns'[p] /\ Run(q)' = engineRuns'[q]
    BY DEF Run
  <2>2. CASE p = r
    <3>1. alone /\ engineRuns'[p] = mine
      BY <1>3, <1>4, <1>5, <2>1, <2>2
    <3>2. engineRuns'[q].engine = engineRuns[q].engine /\ engineRuns[q].engine # run.engine
      BY <1>1, <1>4, <1>5, <2>2, <3>1 DEF Run
    <3> QED BY <1>3, <2>1, <3>1, <3>2
  <2>3. CASE p # r
    <3>1. engineRuns'[p] = engineRuns[p] /\ engineRuns[p].engine # run.engine
      BY <1>4, <1>5, <2>1, <2>3
    <3>2. engineRuns[q].engine # engineRuns[p].engine
      BY <1>5, <2>1, <3>1 DEF ExactInv, OneEngineEach, Run
    <3>3. engineRuns'[q].engine \in {run.engine, engineRuns[q].engine}
      BY <1>3, <1>4
    <3>4. q = r => engineRuns'[q].engine = run.engine
      BY <1>3, <1>4
    <3>5. q # r => engineRuns'[q].engine = engineRuns[q].engine
      BY <1>4
    <3> QED BY <2>1, <3>1, <3>2, <3>4, <3>5
  <2> QED BY <2>2, <2>3
<1>7. \A e \in Engines : KeepsTable(e)
  BY DEF KeepsTable, untouched
<1>8. ASSUME NEW q \in EngineRuns PROVE RunIsExact(q, engineRuns[q])'
  <2>1. PICK new : new = engineRuns'[q]
    OBVIOUS
  <2>2. RunIsExact(q, new)'
    <3>1. CASE new.engine \notin Engines \/ ~new.alone
      BY <3>1 DEF RunIsExact
    <3>2. CASE q = r /\ new = mine
      <4>1. Upserts(mine)'
        BY <1>3 DEF Upserts, Wanted
      <4>2. Closes(mine)'
        BY <1>3 DEF Closes, Upserting
      <4>3. Summarises(r, mine)'
        BY <1>3 DEF Summarises
      <4> QED BY <3>2, <4>1, <4>2, <4>3 DEF RunIsExact
    <3>3. CASE new = engineRuns[q] /\ new.engine \in Engines
      <4>1. RunIsExact(q, new) /\ KeepsTable(new.engine)
        BY <1>7, <3>3 DEF ExactInv
      <4> QED BY <4>1, ExactRunsStayExact
    <3> QED BY <1>4, <2>1, <3>1, <3>2, <3>3
  <2> QED BY <2>1, <2>2, ExactByName
<1> QED BY <1>5, <1>8 DEF ExactInv, OneEngineEach

-----------------------------------------------------------------------------
(* Runs that nobody disturbs: the steps.                                   *)

LEMMA RunsAreExact ==
  ASSUME InventoryInv, ExactInv, NEW r \in EngineRuns
  PROVE  /\ Run(r) \in EngineRun /\ RunIsFair(Run(r)) /\ RunIsExact(r, Run(r))
         /\ engineRuns \in [EngineRuns -> EngineRun] /\ TablesOK
BY RunsAreFair, TypesInParts DEF ExactInv, Run

LEMMA ReadsStayExact ==
  ASSUME InventoryInv, ExactInv, NEW r \in EngineRuns,
         ReadResource(r) \/ ReadFinding(r) \/ ReadRecommendation(r)
  PROVE  ExactInv'
<1>1. PICK k : k = Run(r)
  OBVIOUS
<1>2. /\ k \in EngineRun /\ RunIsFair(k) /\ RunIsExact(r, k)
      /\ engineRuns \in [EngineRuns -> EngineRun]
  BY <1>1, RunsAreExact
<1>3. k.pc = "upsert" /\ k.engine \in Engines /\ UNCHANGED untouched
  BY <1>1 DEF ReadResource, ReadFinding, ReadRecommendation, RunIsAt, Engines
<1>4. FirstOf(k.todo, 1) \subseteq k.todo
  BY DEF FirstOf
<1>5. PICK i \in k.todo : \E version :
        Step(r, [k EXCEPT !.pc = "put", !.at = i, !.todo = @ \ {i}, !.read = version])
  BY <1>1, <1>4 DEF ReadResource, ReadFinding, ReadRecommendation, ReadForUpsert
<1>6. PICK version :
        Step(r, [k EXCEPT !.pc = "put", !.at = i, !.todo = @ \ {i}, !.read = version])
  BY <1>5
<1>7. PICK run : run = [k EXCEPT !.pc = "put", !.at = i, !.todo = @ \ {i}, !.read = version]
  OBVIOUS
<1>8. /\ run.engine = k.engine /\ run.alone = k.alone /\ run.view = k.view /\ run.pc = "put"
      /\ run.at = i /\ run.todo = k.todo \ {i} /\ run.next = k.next
  BY <1>2, <1>7 DEF EngineRun
<1>9. ASSUME k.alone PROVE RunIsExact(r, run)
  <2>1. Upserts(k) /\ Closes(k)
    BY <1>2, <1>3, <1>9 DEF RunIsExact
  <2>2. Upserts(run)
    BY <1>3, <1>8, <2>1 DEF Upserts, Wanted, IsWritten
  <2>3. Closes(run)
    BY <1>3, <1>8, <2>1 DEF Closes, Upserting
  <2>4. Summarises(r, run)
    BY <1>8 DEF Summarises
  <2> QED BY <2>2, <2>3, <2>4 DEF RunIsExact
<1>10. Step(r, run)
  BY <1>6, <1>7
<1> QED BY <1>1, <1>2, <1>3, <1>8, <1>9, <1>10, ExactRunsStep

\* The rows that stand open against a run, when it lists its first page, it marks.
LEMMA ListsStayExact ==
  ASSUME InventoryInv, ExactInv, NEW r \in EngineRuns, NEW k, k = Run(r), k.engine \in Engines,
         \/ k.pc = "upsert" /\ k.todo = {}
         \/ k.pc = "close" /\ Marked(r) = {},
         NEW marks, NEW lapsed \in BOOLEAN, k.pc = "close" /\ ~lapsed => ~k.lapsed,
         k.pc = "upsert" /\ ~lapsed =>
           \A i \in Instances : StandsOpen(k.engine, i) /\ ~Wanted(k, i) => marks[i] > 0,
         NEW next, NEW run,
         run = [k EXCEPT !.pc = "close", !.marks = marks, !.next = next, !.lapsed = lapsed],
         Step(r, run), UNCHANGED untouched
  PROVE  ExactInv'
<1>1. /\ k \in EngineRun /\ RunIsFair(k) /\ RunIsExact(r, k)
      /\ engineRuns \in [EngineRuns -> EngineRun]
  BY RunsAreExact
<1>2. /\ run.engine = k.engine /\ run.alone = k.alone /\ run.view = k.view /\ run.pc = "close"
      /\ run.todo = k.todo /\ run.marks = marks /\ run.lapsed = lapsed
  BY <1>1 DEF EngineRun
<1>3. ASSUME k.alone PROVE RunIsExact(r, run)
  <2>1. Upserts(k) /\ Closes(k)
    BY <1>1, <1>3 DEF RunIsExact
  <2>2. k.todo = {} /\ \A i \in Instances : Wanted(k, i) => IsWritten(k, i)
    BY <2>1 DEF Upserts, Closes, Upserting
  <2>3. Upserts(run)
    BY <1>2, <2>2 DEF Upserts, Wanted, IsWritten
  <2>4. ASSUME ~lapsed, NEW i \in Instances, StandsOpen(k.engine, i), ~Wanted(k, i)
        PROVE  marks[i] > 0
    <3>1. CASE k.pc = "upsert"
      BY <2>4, <3>1
    <3>2. CASE k.pc = "close" /\ Marked(r) = {}
      BY <2>1, <2>4, <3>2 DEF Closes, Upserting, Marked
    <3> QED BY <3>1, <3>2
  <2>5. \A i \in Instances : Wanted(run, i) = Wanted(k, i)
    BY <1>2 DEF Wanted
  <2>6. Closes(run)
    BY <1>2, <2>2, <2>4, <2>5 DEF Closes, Upserting
  <2>7. Summarises(r, run)
    BY <1>2 DEF Summarises
  <2> QED BY <2>3, <2>6, <2>7 DEF RunIsExact
<1> QED BY <1>1, <1>2, <1>3, ExactRunsStep

\* A row is marked at its version.
LEMMA RowsThatExistAreMarked ==
  ASSUME TablesOK, NEW table, NEW i \in OnPage(table), NEW rows, i \in rows
  PROVE  Versions(table, rows)[i] > 0
BY DEF Versions, OnPage, FirstOf, Rows, Exists

LEMMA RunsListExactly ==
  ASSUME InventoryInv, ExactInv, NEW r \in EngineRuns,
         ListUnseen(r) \/ ListUndetected(r) \/ ListStale(r)
  PROVE  ExactInv'
<1>1. PICK k : k = Run(r)
  OBVIOUS
<1>2. k \in EngineRun /\ RunIsFair(k) /\ RunIsExact(r, k) /\ TablesOK /\ pageSize \in Instances
  BY <1>1, RunsAreExact, TypesInParts
<1>3. CASE ListUnseen(r)
  <2>1. PICK late \in SUBSET Instances :
          Step(r, [Run(r) EXCEPT !.pc = "close", !.marks = Versions(resources, Unseen(r, late)),
                               !.lapsed = Unseen(r, late) # Unseen(r, {})])
    BY <1>3 DEF ListUnseen
  <2>2. PICK lapsed \in BOOLEAN : lapsed = (Unseen(r, late) # Unseen(r, {}))
    OBVIOUS
  <2>3. k.engine = "discovery" /\ k.engine \in Engines /\ k.pc = "upsert" /\ k.todo = {}
    BY <1>1, <1>3 DEF ListUnseen, RunIsAt, Engines
  <2>4. PICK marks : marks = Versions(resources, Unseen(r, late))
    OBVIOUS
  <2>5. ASSUME ~lapsed, NEW i \in Instances, StandsOpen(k.engine, i), ~Wanted(k, i)
        PROVE  marks[i] > 0
    <3>1. i \in OnPage(resources) /\ resources[i].status = "ACTIVE" /\ k.view[i] = "absent"
      BY <2>3, <2>5 DEF StandsOpen, Wanted
    <3>2. i \in Unseen(r, {})
      BY <1>1, <3>1 DEF Unseen, OnPage, ListResourcesInScope
    <3>3. i \in Unseen(r, late)
      BY <2>2, <2>5, <3>2
    <3> QED BY <1>2, <2>4, <3>1, <3>3, RowsThatExistAreMarked
  <2>6. PICK run : run = [k EXCEPT !.pc = "close", !.marks = marks, !.next = k.next, !.lapsed = lapsed]
    OBVIOUS
  <2>7. run = [k EXCEPT !.pc = "close", !.marks = marks, !.lapsed = lapsed]
    BY <1>2, <2>6 DEF EngineRun
  <2>8. Step(r, run) /\ UNCHANGED untouched
    BY <1>1, <1>3, <2>1, <2>2, <2>4, <2>7 DEF ListUnseen
  <2> QED BY <1>1, <2>3, <2>5, <2>6, <2>8, ListsStayExact
<1>4. CASE ListUndetected(r)
  <2>1. PICK late \in SUBSET Instances :
          Step(r, [Run(r) EXCEPT !.pc = "close", !.marks = Versions(findings, Undetected(r, late)),
                               !.lapsed = Undetected(r, late) # Undetected(r, {})])
    BY <1>4 DEF ListUndetected
  <2>2. PICK lapsed \in BOOLEAN : lapsed = (Undetected(r, late) # Undetected(r, {}))
    OBVIOUS
  <2>3. k.engine = "security" /\ k.engine \in Engines /\ k.pc = "upsert" /\ k.todo = {}
    BY <1>1, <1>4 DEF ListUndetected, RunIsAt, Engines
  <2>4. PICK marks : marks = Versions(findings, Undetected(r, late))
    OBVIOUS
  <2>5. ASSUME ~lapsed, NEW i \in Instances, StandsOpen(k.engine, i), ~Wanted(k, i)
        PROVE  marks[i] > 0
    <3>1. i \in OnPage(findings) /\ findings[i].status = "OPEN" /\ k.view[i] # "flagged"
      BY <2>3, <2>5 DEF StandsOpen, Wanted
    <3>2. i \in ListOpen(findings, 0, {})
      BY <1>2, <3>1, OpenRowsOnPageAreListed
    <3>3. i \in Undetected(r, {})
      BY <1>1, <3>1, <3>2 DEF Undetected
    <3>4. i \in Undetected(r, late)
      BY <2>2, <2>5, <3>3
    <3> QED BY <1>2, <2>4, <3>1, <3>4, RowsThatExistAreMarked
  <2>6. PICK run : run = [k EXCEPT !.pc = "close", !.marks = marks, !.next = k.next, !.lapsed = lapsed]
    OBVIOUS
  <2>7. run = [k EXCEPT !.pc = "close", !.marks = marks, !.lapsed = lapsed]
    BY <1>2, <2>6 DEF EngineRun
  <2>8. Step(r, run) /\ UNCHANGED untouched
    BY <1>1, <1>4, <2>1, <2>2, <2>4, <2>7 DEF ListUndetected
  <2> QED BY <1>1, <2>3, <2>5, <2>6, <2>8, ListsStayExact
<1>5. CASE ListStale(r)
  <2>1. PICK late \in SUBSET Instances :
          LET page == ListOpen(recommendations, Run(r).next, late)
          IN Step(r, [Run(r) EXCEPT !.pc = "close",
                        !.lapsed = @ \/ page # ListOpen(recommendations, Run(r).next, {}),
                        !.marks = Versions(recommendations, {i \in page \ late : ShouldResolve(r, i)}),
                        !.next = IF Cardinality(page) = pageSize
                                 THEN CHOOSE i \in page : \A j \in page : j <= i ELSE 0])
    BY <1>5 DEF ListStale
  <2>2. PICK page : page = ListOpen(recommendations, k.next, late)
    OBVIOUS
  <2>3. PICK lapsed \in BOOLEAN : lapsed = (k.lapsed \/ page # ListOpen(recommendations, k.next, {}))
    OBVIOUS
  <2>4. PICK marks : marks = Versions(recommendations, {i \in page \ late : ShouldResolve(r, i)})
    OBVIOUS
  <2>5. PICK next : next = IF Cardinality(page) = pageSize
                           THEN CHOOSE i \in page : \A j \in page : j <= i ELSE 0
    OBVIOUS
  <2>6. PICK run : run = [k EXCEPT !.pc = "close", !.marks = marks, !.next = next, !.lapsed = lapsed]
    OBVIOUS
  <2>7. Step(r, run) /\ UNCHANGED untouched
    <3>1. run = [k EXCEPT !.pc = "close", !.lapsed = @ \/ page # ListOpen(recommendations, k.next, {}),
                          !.marks = marks, !.next = next]
      BY <1>2, <2>3, <2>6 DEF EngineRun
    <3> QED BY <1>1, <1>5, <2>1, <2>2, <2>4, <2>5, <3>1 DEF ListStale
  <2>8. /\ k.engine = "cost" /\ k.engine \in Engines /\ engineRuns \in [EngineRuns -> EngineRun]
        /\ \/ k.pc = "upsert" /\ k.todo = {}
           \/ k.pc = "close" /\ Marked(r) = {}
    BY <1>1, <1>5, RunsAreExact DEF ListStale, RunIsAt, Engines
  <2>9. k.pc = "close" /\ ~lapsed => ~k.lapsed
    BY <2>3
  <2>10. ASSUME k.next = 0, ~lapsed, NEW i \in Instances, StandsOpen(k.engine, i), ~Wanted(k, i)
         PROVE  marks[i] > 0
    <3>1. i \in OnPage(recommendations) /\ recommendations[i].status = "OPEN" /\ k.view[i] # "flagged"
      BY <2>8, <2>10 DEF StandsOpen, Wanted
    <3>2. i \in ListOpen(recommendations, 0, {})
      BY <1>2, <3>1, OpenRowsOnPageAreListed
    <3>3. i \in page
      BY <2>3, <2>10, <3>2
    <3>4. i \notin late
      <4>1. ShownOpen(recommendations, i, late)
        BY <2>2, <3>3 DEF ListOpen, FirstOf
      <4> QED BY <3>1, <4>1 DEF ShownOpen
    <3> QED BY <1>1, <1>2, <2>4, <3>1, <3>3, <3>4, RowsThatExistAreMarked DEF ShouldResolve
  <2>11. CASE k.next = 0 \/ k.pc = "close"
    BY <1>1, <2>6, <2>7, <2>8, <2>9, <2>10, <2>11, ListsStayExact
  <2>12. CASE k.next # 0 /\ k.pc = "upsert"
    <3>1. ~k.alone
      BY <1>2, <2>8, <2>12 DEF RunIsExact, Closes, Upserting
    <3>2. run.engine = k.engine /\ run.alone = k.alone
      BY <1>2, <2>6 DEF EngineRun
    <3> QED BY <1>1, <2>7, <2>8, <3>1, <3>2, ExactRunsStep
  <2> QED BY <2>8, <2>11, <2>12
<1> QED BY <1>3, <1>4, <1>5

LEMMA UpsertsStayExact ==
  ASSUME InventoryInv, ExactInv, NEW r \in EngineRuns,
         UpsertDiscoveredResource(r) \/ UpsertFinding(r) \/ UpsertRecommendation(r)
  PROVE  ExactInv'
<1>1. PICK k : k = Run(r)
  OBVIOUS
<1>2. PICK i : i = k.at
  OBVIOUS
<1>3. k.pc = "put" /\ engineRuns \in [EngineRuns -> EngineRun] /\ UNCHANGED <<summary, pageSize>>
  BY <1>1, RunsAreExact DEF UpsertDiscoveredResource, UpsertFinding, UpsertRecommendation, RunIsAt
<1>4. TablesOK /\ i \in Instances
  BY <1>1, <1>2, <1>3, RunsAreFair, TypesInParts DEF RunIsFair
<1>5. CASE RunOver(r) /\ UNCHANGED untouched
  BY <1>3, <1>5, ExactRunsEnd
<1>6. CASE UpsertDiscoveredResource(r) /\ ~(RunOver(r) /\ UNCHANGED untouched)
  <2>1. k.engine = "discovery" /\ k.engine \in Engines /\ UNCHANGED <<findings, recommendations>>
    BY <1>1, <1>6 DEF UpsertDiscoveredResource, RunIsAt, Engines
  <2>2. Upserted(r) /\ resources' = [resources EXCEPT ![i] =
                [version |-> @.version + 1, status |-> "ACTIVE", view |-> k.view[i]]]
    BY <1>1, <1>2, <1>3, <1>6, <2>1 DEF UpsertDiscoveredResource, untouched
  <2>3. /\ resources'[i].status = "ACTIVE" /\ resources'[i].view = k.view[i]
        /\ \A j \in Instances \ {i} : resources'[j] = resources[j]
    BY <1>4, <2>2 DEF TablesOK
  <2>4. \A j \in Instances : Wanted(k, j) /\ (j = k.at \/ IsWritten(k, j)) => IsWritten(k, j)'
    BY <1>2, <2>1, <2>3 DEF IsWritten
  <2>5. \A e \in Engines \ {k.engine} : KeepsTable(e)
    BY <1>3, <2>1 DEF KeepsTable
  <2> QED BY <1>1, <1>3, <2>1, <2>2, <2>4, <2>5, ExactRunsUpsert
<1>7. CASE UpsertFinding(r) /\ ~(RunOver(r) /\ UNCHANGED untouched)
  <2>1. k.engine = "security" /\ k.engine \in Engines /\ UNCHANGED <<resources, recommendations>>
    BY <1>1, <1>7 DEF UpsertFinding, RunIsAt, Engines
  <2>2. Upserted(r) /\ findings' = [findings EXCEPT ![i] = Redetected(@)]
    BY <1>1, <1>2, <1>3, <1>7, <2>1 DEF UpsertFinding, untouched
  <2>3. /\ findings'[i].status = "OPEN" /\ findings'[i].version > 0
        /\ \A j \in Instances \ {i} : findings'[j] = findings[j]
    BY <1>4, <2>2 DEF TablesOK, Redetected, FindingRow
  <2>4. \A j \in Instances : Wanted(k, j) /\ (j = k.at \/ IsWritten(k, j)) => IsWritten(k, j)'
    BY <1>2, <2>1, <2>3 DEF IsWritten
  <2>5. \A e \in Engines \ {k.engine} : KeepsTable(e)
    BY <1>3, <2>1 DEF KeepsTable
  <2> QED BY <1>1, <1>3, <2>1, <2>2, <2>4, <2>5, ExactRunsUpsert
<1>8. CASE UpsertRecommendation(r) /\ ~(RunOver(r) /\ UNCHANGED untouched)
  <2>1. k.engine = "cost" /\ k.engine \in Engines /\ UNCHANGED <<resources, findings>>
    BY <1>1, <1>8 DEF UpsertRecommendation, RunIsAt, Engines
  <2>2. Upserted(r) /\ recommendations' = [recommendations EXCEPT ![i] = Redetected(@)]
    BY <1>1, <1>2, <1>3, <1>8, <2>1 DEF UpsertRecommendation, untouched
  <2>3. /\ recommendations'[i].status = "OPEN"
        /\ \A j \in Instances \ {i} : recommendations'[j] = recommendations[j]
    BY <1>4, <2>2 DEF TablesOK, Redetected
  <2>4. \A j \in Instances : Wanted(k, j) /\ (j = k.at \/ IsWritten(k, j)) => IsWritten(k, j)'
    BY <1>2, <2>1, <2>3 DEF IsWritten
  <2>5. \A e \in Engines \ {k.engine} : KeepsTable(e)
    BY <1>3, <2>1 DEF KeepsTable
  <2> QED BY <1>1, <1>3, <2>1, <2>2, <2>4, <2>5, ExactRunsUpsert
<1> QED BY <1>5, <1>6, <1>7, <1>8

LEMMA ClosingStaysExact ==
  ASSUME InventoryInv, ExactInv, NEW r \in EngineRuns, MarksRow(r) \/ LeaveFindingOpen(r)
  PROVE  ExactInv'
<1>1. PICK k : k = Run(r)
  OBVIOUS
<1>2. /\ k \in EngineRun /\ RunIsFair(k) /\ RunIsExact(r, k) /\ TablesOK
      /\ engineRuns \in [EngineRuns -> EngineRun]
  BY <1>1, RunsAreExact
<1>3. /\ k.pc = "close" /\ UNCHANGED <<summary, pageSize>>
      /\ FirstOf(Marked(r), 1) \subseteq Marked(r) /\ Marked(r) \subseteq Instances
  BY <1>1 DEF MarksRow, MarkNotSeen, MarkFindingResolved, MarkRecommendationResolved,
              LeaveFindingOpen, untouched, RunIsAt, FirstOf, Marked
<1>4. \A i \in Marked(r) : k.marks[i] > 0 /\ k.marks[i] \in Nat
  BY <1>1, <1>2 DEF Marked, EngineRun
<1>5. CASE RunOver(r) /\ UNCHANGED untouched
  BY <1>2, <1>5, ExactRunsEnd
<1>6. CASE MarkNotSeen(r) /\ ~(RunOver(r) /\ UNCHANGED untouched)
  <2>1. k.engine = "discovery" /\ k.engine \in Engines /\ UNCHANGED <<findings, recommendations>>
    BY <1>1, <1>6 DEF MarkNotSeen, RunIsAt, Engines
  <2>2. PICK i \in Marked(r) :
          /\ resources[i].version = k.marks[i] /\ Step(r, Unmarked(r, i))
          /\ resources' = [resources EXCEPT ![i].version = @ + 1, ![i].status = "NOT_SEEN"]
    BY <1>1, <1>3, <1>6, <2>1 DEF MarkNotSeen, untouched, VersionHeldBy
  <2>3. /\ i \in Instances /\ resources'[i].status = "NOT_SEEN"
        /\ resources'[i].version > 0 /\ resources[i].version > 0
        /\ \A j \in Instances \ {i} : resources'[j] = resources[j]
    BY <1>2, <1>3, <1>4, <2>2 DEF TablesOK, ResourceRow
  <2>4. Rows(resources', 0, {}) = Rows(resources, 0, {})
    BY <2>3, PagesStay
  <2>5. \A j \in Instances \ {i} :
           /\ IsWritten(k, j) => IsWritten(k, j)'
           /\ StandsOpen(k.engine, j)' => StandsOpen(k.engine, j)
    BY <1>3, <2>1, <2>3, <2>4 DEF IsWritten, StandsOpen, OnPage
  <2>6. ~StandsOpen(k.engine, i)'
    BY <2>1, <2>3 DEF StandsOpen
  <2>7. \A e \in Engines \ {k.engine} : KeepsTable(e)
    BY <1>3, <2>1 DEF KeepsTable
  <2> QED BY <1>1, <1>3, <2>1, <2>2, <2>5, <2>6, <2>7, ExactRunsClose
<1>7. CASE MarkFindingResolved(r)
  <2>1. k.engine = "security" /\ k.engine \in Engines /\ UNCHANGED <<resources, recommendations>>
    BY <1>1, <1>7 DEF MarkFindingResolved, RunIsAt, Engines
  <2>2. PICK i \in Marked(r) :
          /\ findings[i].version = k.marks[i] /\ Step(r, Unmarked(r, i))
          /\ findings' = [findings EXCEPT ![i] = Resolved(@)]
    BY <1>1, <1>3, <1>7 DEF MarkFindingResolved, VersionHeldBy
  <2>3. /\ i \in Instances /\ findings'[i].status = "RESOLVED"
        /\ findings'[i].version > 0 /\ findings[i].version > 0
        /\ \A j \in Instances \ {i} : findings'[j] = findings[j]
    BY <1>2, <1>3, <1>4, <2>2 DEF TablesOK, FindingRow, Resolved
  <2>4. Rows(findings', 0, {}) = Rows(findings, 0, {})
    BY <2>3, PagesStay
  <2>5. \A j \in Instances \ {i} :
           /\ IsWritten(k, j) => IsWritten(k, j)'
           /\ StandsOpen(k.engine, j)' => StandsOpen(k.engine, j)
    BY <1>3, <2>1, <2>3, <2>4 DEF IsWritten, StandsOpen, OnPage
  <2>6. ~StandsOpen(k.engine, i)'
    BY <2>1, <2>3 DEF StandsOpen
  <2>7. \A e \in Engines \ {k.engine} : KeepsTable(e)
    BY <1>3, <2>1 DEF KeepsTable
  <2> QED BY <1>1, <1>3, <2>1, <2>2, <2>5, <2>6, <2>7, ExactRunsClose
<1>8. CASE LeaveFindingOpen(r)
  <2>1. k.engine = "security" /\ k.engine \in Engines /\ UNCHANGED untouched
    BY <1>1, <1>8 DEF LeaveFindingOpen, RunIsAt, Engines
  <2>2. PICK i \in Marked(r) : Step(r, [Unmarked(r, i) EXCEPT !.lapsed = TRUE])
    BY <1>3, <1>8 DEF LeaveFindingOpen
  <2>3. PICK run : run = [Unmarked(r, i) EXCEPT !.lapsed = TRUE]
    OBVIOUS
  <2>4. \A j \in Instances \ {i} :
           /\ IsWritten(k, j) => IsWritten(k, j)'
           /\ StandsOpen(k.engine, j)' => StandsOpen(k.engine, j)
    BY <2>1 DEF untouched, IsWritten, StandsOpen, OnPage, Rows, Exists, FirstOf
  <2>5. \A e \in Engines \ {k.engine} : KeepsTable(e)
    BY <2>1 DEF KeepsTable, untouched
  <2> QED BY <1>1, <1>3, <2>1, <2>2, <2>3, <2>4, <2>5, ExactRunsClose
<1>9. CASE MarkRecommendationResolved(r) /\ ~(RunOver(r) /\ UNCHANGED untouched)
  <2>1. k.engine = "cost" /\ k.engine \in Engines /\ UNCHANGED <<resources, findings>>
    BY <1>1, <1>9 DEF MarkRecommendationResolved, RunIsAt, Engines
  <2>2. PICK i \in Marked(r) :
          /\ recommendations[i].version = k.marks[i] /\ Step(r, Unmarked(r, i))
          /\ recommendations' = [recommendations EXCEPT ![i] = Resolved(@)]
    BY <1>1, <1>3, <1>9, <2>1 DEF MarkRecommendationResolved, untouched, VersionHeldBy
  <2>3. /\ i \in Instances /\ recommendations'[i].status = "RESOLVED"
        /\ recommendations'[i].version > 0 /\ recommendations[i].version > 0
        /\ \A j \in Instances \ {i} : recommendations'[j] = recommendations[j]
    BY <1>2, <1>3, <1>4, <2>2 DEF TablesOK, FindingRow, Resolved
  <2>4. Rows(recommendations', 0, {}) = Rows(recommendations, 0, {})
    BY <2>3, PagesStay
  <2>5. \A j \in Instances \ {i} :
           /\ IsWritten(k, j) => IsWritten(k, j)'
           /\ StandsOpen(k.engine, j)' => StandsOpen(k.engine, j)
    BY <1>3, <2>1, <2>3, <2>4 DEF IsWritten, StandsOpen, OnPage
  <2>6. ~StandsOpen(k.engine, i)'
    BY <2>1, <2>3 DEF StandsOpen
  <2>7. \A e \in Engines \ {k.engine} : KeepsTable(e)
    BY <1>3, <2>1 DEF KeepsTable
  <2> QED BY <1>1, <1>3, <2>1, <2>2, <2>5, <2>6, <2>7, ExactRunsClose
<1> QED BY <1>5, <1>6, <1>7, <1>8, <1>9 DEF MarksRow

LEMMA SummariesAreExact ==
  ASSUME InventoryInv, ExactInv, NEW r \in EngineRuns, UpsertSummary(r)
  PROVE  ExactInv'
<1>1. PICK k : k = Run(r)
  OBVIOUS
<1>2. /\ k \in EngineRun /\ RunIsExact(r, k) /\ RunIsFair(k)
      /\ engineRuns \in [EngineRuns -> EngineRun]
  BY <1>1, RunsAreExact
<1>3. /\ k.engine = "security" /\ k.engine \in Engines /\ k.pc = "close"
      /\ summary' = r /\ UNCHANGED <<resources, findings, recommendations, pageSize>>
  BY <1>1 DEF UpsertSummary, RunIsAt, Engines
<1>4. PICK run : run = [k EXCEPT !.pc = "complete"]
  OBVIOUS
<1>5. Step(r, run)
  BY <1>1, <1>4 DEF UpsertSummary
<1>6. run = engineRuns'[r] /\ OthersGoOn(r)
  BY <1>2, <1>5 DEF Step, OthersGoOn
<1>7. /\ run.engine = k.engine /\ run.alone = k.alone /\ run.view = k.view /\ run.todo = k.todo
      /\ run.pc = "complete" /\ run.marks = k.marks /\ run.lapsed = k.lapsed
  BY <1>2, <1>4 DEF EngineRun
<1>8. ASSUME k.alone PROVE RunIsExact(r, run)'
  <2>1. Upserts(k) /\ Closes(k)
    BY <1>2, <1>3, <1>8 DEF RunIsExact
  <2>2. Upserts(run)'
    BY <1>3, <1>7, <2>1 DEF Upserts, Wanted, IsWritten
  <2>3. Closes(run)'
    <3>1. OnPage(findings)' = OnPage(findings)
      BY <1>3 DEF OnPage, Rows, Exists, FirstOf
    <3> QED BY <1>3, <1>7, <2>1, <3>1 DEF Closes, Upserting, Wanted, StandsOpen
  <2>4. Summarises(r, run)'
    BY <1>3 DEF Summarises
  <2> QED BY <2>2, <2>3, <2>4 DEF RunIsExact
<1>9. \A e \in Engines \ {k.engine} : KeepsTable(e)
  BY <1>3 DEF KeepsTable
<1> QED BY <1>1, <1>3, <1>6, <1>7, <1>8, <1>9, RunsMoveApart

LEMMA RunsBeginExactly ==
  ASSUME InventoryInv, ExactInv, NEW r \in EngineRuns,
         DiscoverRegion(r) \/ AnalyzeInventory(r) \/ EvaluateRules(r)
  PROVE  ExactInv'
<1> DEFINE Begun(e, view, todo) ==
      [IdleEngineRun EXCEPT !.engine = e, !.pc = "upsert", !.view = view, !.todo = todo]
<1>1. engineRuns \in [EngineRuns -> EngineRun] /\ TablesOK /\ UNCHANGED untouched
  BY TypesInParts DEF DiscoverRegion, AnalyzeInventory, EvaluateRules
<1>2. ASSUME NEW e \in Engines, NEW view \in [Instances -> Views], NEW todo \in SUBSET Instances,
             BeginRun(r, Begun(e, view, todo)),
             \A i \in Instances :
               (IF e = "discovery" THEN view[i] # "absent" ELSE view[i] = "flagged") => i \in todo
      PROVE  ExactInv'
  <2>1. PICK run : run = Begun(e, view, todo)
    OBVIOUS
  <2>2. IdleEngineRun \in EngineRun /\ IdleEngineRun.next = 0
    BY IdleRunsAreFair DEF IdleEngineRun
  <2>3. /\ run \in EngineRun /\ run.engine = e /\ run.view = view /\ run.todo = todo
        /\ run.pc = "upsert" /\ run.next = 0
    BY <2>1, <2>2 DEF EngineRun
  <2>4. \A i \in Instances : Wanted(run, i) => i \in run.todo
    BY <1>2, <2>3 DEF Wanted
  <2>5. BeginRun(r, run)
    BY <1>2, <2>1
  <2> QED BY <1>1, <2>3, <2>4, <2>5, ExactRunsBegin
<1>3. CASE DiscoverRegion(r)
  <2>1. PICK view \in [Instances -> Views] :
          BeginRun(r, [IdleEngineRun EXCEPT !.engine = "discovery", !.pc = "upsert", !.view = view,
                                      !.todo = {i \in Instances : view[i] # "absent"}])
    BY <1>3 DEF DiscoverRegion
  <2>2. PICK todo \in SUBSET Instances : todo = {i \in Instances : view[i] # "absent"}
    OBVIOUS
  <2>3. BeginRun(r, Begun("discovery", view, todo)) /\ "discovery" \in Engines
    BY <2>1, <2>2 DEF Engines
  <2>4. \A i \in Instances : view[i] # "absent" => i \in todo
    BY <2>2
  <2> HIDE DEF Begun
  <2> QED BY <1>2, <2>3, <2>4
<1>4. CASE AnalyzeInventory(r)
  <2>L. PICK late \in SUBSET Instances : \E had \in [late -> {"clear", "flagged"}] :
          LET view == InventoryView(late, had)
          IN BeginRun(r, [IdleEngineRun EXCEPT !.engine = "security", !.pc = "upsert", !.view = view,
                                            !.todo = {i \in Instances : view[i] = "flagged"}])
    BY <1>4 DEF AnalyzeInventory
  <2>0. PICK had \in [late -> {"clear", "flagged"}] :
          LET view == InventoryView(late, had)
          IN BeginRun(r, [IdleEngineRun EXCEPT !.engine = "security", !.pc = "upsert", !.view = view,
                                            !.todo = {i \in Instances : view[i] = "flagged"}])
    BY <2>L
  <2>1. PICK view : view = InventoryView(late, had)
    OBVIOUS
  <2>2. view \in [Instances -> Views]
    BY <2>1, <1>1 DEF InventoryView, TablesOK, ResourceRow, Views
  <2>3. PICK todo \in SUBSET Instances : todo = {i \in Instances : view[i] = "flagged"}
    OBVIOUS
  <2>4. BeginRun(r, Begun("security", view, todo)) /\ "security" \in Engines
    BY <2>0, <2>1, <2>3 DEF Engines
  <2>5. \A i \in Instances : view[i] = "flagged" => i \in todo
    BY <2>3
  <2> HIDE DEF Begun
  <2> QED BY <1>2, <2>2, <2>4, <2>5
<1>5. CASE EvaluateRules(r)
  <2>L. PICK late \in SUBSET Instances : \E were \in SUBSET late :
          LET active == {i \in ListResourcesInScope(late) :
                           IF i \in late THEN i \in were ELSE resources[i].status = "ACTIVE"}
          IN \E flagged \in SUBSET active :
               BeginRun(r, [IdleEngineRun EXCEPT !.engine = "cost", !.pc = "upsert", !.todo = flagged,
                     !.view = [i \in Instances |-> IF i \in flagged THEN "flagged"
                                                   ELSE IF i \in active THEN "clear" ELSE "absent"]])
    BY <1>5 DEF EvaluateRules
  <2>0. PICK were \in SUBSET late :
          LET active == {i \in ListResourcesInScope(late) :
                           IF i \in late THEN i \in were ELSE resources[i].status = "ACTIVE"}
          IN \E flagged \in SUBSET active :
               BeginRun(r, [IdleEngineRun EXCEPT !.engine = "cost", !.pc = "upsert", !.todo = flagged,
                     !.view = [i \in Instances |-> IF i \in flagged THEN "flagged"
                                                   ELSE IF i \in active THEN "clear" ELSE "absent"]])
    BY <2>L
  <2>1. PICK active : active = {i \in ListResourcesInScope(late) :
                                  IF i \in late THEN i \in were ELSE resources[i].status = "ACTIVE"}
    OBVIOUS
  <2>2. active \subseteq Instances
    BY <2>1 DEF ListResourcesInScope, FirstOf, Rows
  <2>3. PICK flagged \in SUBSET active :
          BeginRun(r, [IdleEngineRun EXCEPT !.engine = "cost", !.pc = "upsert", !.todo = flagged,
                     !.view = [i \in Instances |-> IF i \in flagged THEN "flagged"
                                                   ELSE IF i \in active THEN "clear" ELSE "absent"]])
    BY <2>0, <2>1
  <2>4. PICK view : view = [i \in Instances |-> IF i \in flagged THEN "flagged"
                                                ELSE IF i \in active THEN "clear" ELSE "absent"]
    OBVIOUS
  <2>5. view \in [Instances -> Views] /\ flagged \in SUBSET Instances /\ "cost" \in Engines
    BY <2>4, <2>2 DEF Views, Engines
  <2>6. [IdleEngineRun EXCEPT !.engine = "cost", !.pc = "upsert", !.todo = flagged, !.view = view]
          = Begun("cost", view, flagged)
    BY DEF IdleEngineRun
  <2>7. BeginRun(r, Begun("cost", view, flagged))
    BY <2>3, <2>4, <2>6
  <2>8. \A i \in Instances : view[i] = "flagged" => i \in flagged
    BY <2>4
  <2> HIDE DEF Begun
  <2> QED BY <1>2, <2>5, <2>7, <2>8
<1> QED BY <1>3, <1>4, <1>5

LEMMA InitIsExact == InventoryInit => ExactInv
<1> SUFFICES ASSUME InventoryInit PROVE ExactInv
  OBVIOUS
<1>1. \A r \in EngineRuns : engineRuns[r].engine = "none"
  BY DEF InventoryInit, IdleEngineRun
<1>2. "none" \notin Engines
  BY DEF Engines
<1> QED BY <1>1, <1>2 DEF ExactInv, OneEngineEach, RunIsExact, Run

LEMMA ExactStep ==
  InventoryInv /\ ExactInv /\ [InventoryNext]_inventoryVars => ExactInv'
<1> SUFFICES ASSUME InventoryInv, ExactInv, [InventoryNext]_inventoryVars PROVE ExactInv'
  OBVIOUS
<1>1. CASE UNCHANGED inventoryVars
  <2>1. \A e \in Engines : KeepsTable(e)
    BY <1>1 DEF KeepsTable, inventoryVars
  <2>2. OneEngineEach'
    BY <1>1 DEF inventoryVars, ExactInv, OneEngineEach, Run
  <2>3. ASSUME NEW r \in EngineRuns PROVE RunIsExact(r, engineRuns[r])'
    <3>1. PICK run : run = engineRuns[r]
      OBVIOUS
    <3>2. run = engineRuns'[r] /\ RunIsExact(r, run)
      BY <1>1, <3>1 DEF inventoryVars, ExactInv
    <3>3. RunIsExact(r, run)'
      <4>1. CASE run.engine \in Engines
        BY <2>1, <3>2, <4>1, ExactRunsStayExact
      <4>2. CASE run.engine \notin Engines
        BY <4>2 DEF RunIsExact
      <4> QED BY <4>1, <4>2
    <3> QED BY <3>2, <3>3, ExactByName
  <2> QED BY <2>2, <2>3 DEF ExactInv
<1>2. ASSUME NEW r \in EngineRuns, RunDies(r) \/ RunSucceeds(r) PROVE ExactInv'
  BY <1>2, RunsAreExact, ExactRunsEnd DEF RunDies, RunSucceeds
<1> QED BY <1>1, <1>2, RunsBeginExactly, ReadsStayExact, UpsertsStayExact, RunsListExactly,
           ClosingStaysExact, SummariesAreExact DEF InventoryNext, MarksRow

\* A run that overlapped with none of its engine leaves what it found ACTIVE or OPEN, for any
\* number of instances, whatever a page holds, however its lists lag and whatever runs that
\* died half way left behind; and of what it did not find nothing that a page shows, if no
\* list of it lagged and it swallowed no error of markResolved.
THEOREM UndisturbedRunsConverge == InventorySpec => []UndisturbedRunConverges
<1>1. ASSUME InventoryInv, ExactInv, NEW r \in EngineRuns, Done(r), Run(r).alone
      PROVE  LET table == TableOf(Run(r).engine)
                 Open(i) == table[i].status \in {"ACTIVE", "OPEN"}
             IN /\ \A i \in Instances : ~NotFound(r, i) => Open(i)
                /\ ~Run(r).lapsed => \A i \in OnPage(table) : NotFound(r, i) => ~Open(i)
                /\ Run(r).engine = "discovery" =>
                     \A i \in Instances : ~NotFound(r, i) => resources[i].view = Run(r).view[i]
                /\ Run(r).engine = "security" => summary = r
  <2>1. PICK k : k = Run(r)
    OBVIOUS
  <2>2. k \in EngineRun /\ RunIsFair(k) /\ RunIsExact(r, k) /\ TablesOK
    BY <1>1, <2>1, RunsAreExact
  <2>3. k.engine \in Engines /\ k.alone /\ ~Upserting(k) /\ (k.engine = "security" => k.pc = "complete")
    BY <1>1, <2>1 DEF Done, RunIsAt, Engines, Upserting
  <2>4. Upserts(k) /\ Closes(k) /\ Summarises(r, k)
    BY <2>2, <2>3 DEF RunIsExact
  <2>5. \A i \in Instances : ~(k.marks[i] > 0)
    <3>1. k.pc = "complete" \/ Marked(r) = {}
      BY <1>1, <2>1 DEF Done, RunIsAt
    <3>2. CASE k.pc = "complete"
      BY <2>2, <3>2 DEF RunIsFair, MarkIsFair
    <3>3. CASE Marked(r) = {}
      BY <2>1, <3>3 DEF Marked
    <3> QED BY <3>1, <3>2, <3>3
  <2>6. \A i \in Instances : Wanted(k, i) => IsWritten(k, i)
    BY <2>3, <2>4 DEF Upserts, Closes, Upserting
  <2>7. ~k.lapsed => \A i \in Instances : StandsOpen(k.engine, i) => Wanted(k, i)
    BY <2>3, <2>4, <2>5 DEF Closes
  <2>8. \A i \in Instances : NotFound(r, i) <=> ~Wanted(k, i)
    BY <2>1, <2>2, <2>3 DEF NotFound, Wanted, EngineRun, Views, Engines
  <2>9. OnPage(TableOf(k.engine)) \subseteq Instances
    BY DEF OnPage, FirstOf, Rows
  <2>10. CASE k.engine = "discovery"
    <3>1. TableOf(k.engine) = resources
      BY <2>10 DEF TableOf
    <3>2. \A i \in Instances : resources[i].status \in {"ACTIVE", "NOT_SEEN"}
      BY <2>2 DEF TablesOK, ResourceRow
    <3> QED BY <2>1, <2>6, <2>7, <2>8, <2>9, <2>10, <3>1, <3>2 DEF IsWritten, StandsOpen
  <2>11. CASE k.engine = "security"
    <3>1. TableOf(k.engine) = findings /\ summary = r
      BY <2>3, <2>4, <2>11 DEF TableOf, Summarises
    <3>2. \A i \in Instances : findings[i].status \in {"OPEN", "RESOLVED"}
      BY <2>2 DEF TablesOK, FindingRow
    <3> QED BY <2>1, <2>6, <2>7, <2>8, <2>9, <2>11, <3>1, <3>2 DEF IsWritten, StandsOpen
  <2>12. CASE k.engine = "cost"
    <3>1. TableOf(k.engine) = recommendations
      BY <2>12 DEF TableOf
    <3>2. \A i \in Instances : recommendations[i].status \in {"OPEN", "RESOLVED"}
      BY <2>2 DEF TablesOK, FindingRow
    <3> QED BY <2>1, <2>6, <2>7, <2>8, <2>9, <2>12, <3>1, <3>2 DEF IsWritten, StandsOpen
  <2> QED BY <2>3, <2>10, <2>11, <2>12 DEF Engines
<1>2. InventoryInv /\ ExactInv => UndisturbedRunConverges
  BY <1>1 DEF UndisturbedRunConverges
<1>3. InventorySpec => []ExactInv
  BY InitIsExact, ExactStep, InventoryInvariant, PTL DEF InventorySpec
<1> QED BY <1>2, <1>3, InventoryInvariant, PTL

=============================================================================
