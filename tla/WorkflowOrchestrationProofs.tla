--------------------- MODULE WorkflowOrchestrationProofs ---------------------
(***************************************************************************)
(* What holds of the workflow engine for every number of workflow ids and  *)
(* of overlapping requests.                                                *)
(***************************************************************************)
EXTENDS WorkflowOrchestration, TLAPS

-----------------------------------------------------------------------------
(* The invariant.                                                          *)

StagesOf(mode) == IF mode = "dry-run" THEN 5 ELSE 8

\* The call that owns a workflow: it runs it, or has run it and was answered.
Runs(call) == call.pc \notin {"idle", "answered", "thrown", "save", "winner"}
Owns(call) == Runs(call) \/ (call.answer # NoResult /\ ~call.duplicate)

\* A row's context grows, and is whole once the row or its result is COMPLETED.
RowsAreTrue ==
  \A w \in Workflows : HasRow(w) =>
    LET row == workflows[w]
    IN /\ row.done <= StagesOf(row.mode)
       /\ row.status = "COMPLETED" \/ row.result = "COMPLETED" => row.done = StagesOf(row.mode)

\* What a call has behind it at each of its steps.
WorkflowCallSafe(call) ==
  LET row == workflows[call.id]
  IN /\ call \in WorkflowCall
     /\ call.pc # "idle" => call.id \in Workflows
     /\ call.answer # NoResult => call.pc = "answered"
     /\ Runs(call) \/ call.pc \in {"winner", "answered"} => HasRow(call.id)
     /\ Runs(call) => row.mode = call.mode /\ row.done <= call.done /\ call.done <= StagesOf(call.mode)
     /\ call.pc \in {"save", "own", "start", "candidates", "candidate"} => call.done = 0
     /\ call.pc = "stage" => call.done < StagesOf(call.mode)
     /\ call.pc \in {"complete", "result"} => call.done = StagesOf(call.mode)
     /\ call.pc = "result" => row.done = call.done
     /\ call.answer = "COMPLETED" => row.done = StagesOf(row.mode)
     /\ call.answer # NoResult /\ ~call.duplicate =>
          row.status = call.answer /\ row.result = call.answer

OneOwner ==
  \A c, d \in WorkflowCalls :
    Owns(workflowCalls[c]) /\ Owns(workflowCalls[d]) /\ workflowCalls[c].id = workflowCalls[d].id => c = d

WorkflowInv ==
  /\ WorkflowTypeOK
  /\ \A c \in WorkflowCalls : WorkflowCallSafe(workflowCalls[c])
  /\ RowsAreTrue
  /\ OneOwner

LEMMA PipelineLength ==
  ASSUME NEW mode \in {"full", "dry-run"}
  PROVE  Len(Pipeline(mode)) = StagesOf(mode) /\ StagesOf(mode) \in {5, 8}
<1>1. DryRunPipeline \in Seq({"EVIDENCE", "GOVERNANCE", "FINANCIAL", "CONFIDENCE", "RECOMMENDATION"})
      /\ Len(DryRunPipeline) = 5
  BY DEF DryRunPipeline
<1>2. Len(DryRunPipeline \o <<"EXECUTION", "VERIFICATION", "LEARNING">>) = 8
  BY DEF DryRunPipeline
<1> QED BY <1>1, <1>2 DEF Pipeline, StagesOf

-----------------------------------------------------------------------------
(* A step of one call, which writes no row but the one it owns or creates. *)

RowGoesOn(old, new) ==
  \/ new = old
  \/ /\ new \in WorkflowRow
     /\ old # NO_WORKFLOW => new.mode = old.mode /\ old.done <= new.done

LEMMA OthersStay ==
  ASSUME WorkflowTypeOK, WorkflowTypeOK', RowsAreTrue, RowsAreTrue',
         \A w \in Workflows : RowGoesOn(workflows[w], workflows'[w]),
         NEW call, WorkflowCallSafe(call), Owns(call) => workflows'[call.id] = workflows[call.id]
  PROVE  WorkflowCallSafe(call)'
<1>1. CASE call.pc \in {"winner", "answered"} \/ Runs(call)
  <2>1. /\ call.id \in Workflows /\ workflows[call.id] # NO_WORKFLOW
        /\ call \in WorkflowCall
    BY <1>1 DEF WorkflowCallSafe, Runs, HasRow
  <2>2. PICK w \in Workflows : w = call.id
    BY <2>1
  <2>3. workflows[w] \in WorkflowRow
    BY <2>1, <2>2 DEF WorkflowTypeOK
  <2>4. /\ workflows'[w] # NO_WORKFLOW /\ workflows'[w].mode = workflows[w].mode
        /\ workflows[w].done <= workflows'[w].done
    BY <2>1, <2>2, <2>3, NoWorkflowIsNoRow DEF RowGoesOn, WorkflowRow
  <2>5. CASE Owns(call)
    BY <2>5 DEF WorkflowCallSafe, HasRow
  <2>6. CASE ~Owns(call)
    <3>1. ~Runs(call)
      BY <2>6 DEF Owns
    <3>2. call.answer = "COMPLETED" => workflows'[w].done = StagesOf(workflows'[w].mode)
      <4>1. /\ workflows[w].done \in 0 .. 8 /\ workflows'[w].done \in 0 .. 8
            /\ workflows[w].mode \in {"full", "dry-run"}
        BY <2>3, <2>4 DEF WorkflowTypeOK, WorkflowRow
      <4>2. workflows'[w].done <= StagesOf(workflows[w].mode)
        BY <2>4 DEF RowsAreTrue, HasRow
      <4>3. call.answer = "COMPLETED" => workflows[w].done = StagesOf(workflows[w].mode)
        BY <2>2 DEF WorkflowCallSafe
      <4>4. StagesOf(workflows[w].mode) \in {5, 8}
        BY <4>1, PipelineLength
      <4> QED BY <2>4, <4>1, <4>2, <4>3, <4>4
    <3>3. ~(call.answer # NoResult /\ ~call.duplicate)
      BY <2>6 DEF Owns
    <3>4. call.pc # "result"
      BY <3>1 DEF Runs
    <3> QED BY <2>2, <2>4, <3>1, <3>2, <3>3, <3>4 DEF WorkflowCallSafe, HasRow
  <2> QED BY <2>5, <2>6
<1>2. CASE ~(call.pc \in {"winner", "answered"} \/ Runs(call))
  <2>1. call.answer = NoResult /\ call.pc # "result"
    BY <1>2 DEF WorkflowCallSafe, Runs
  <2> QED BY <1>2, <2>1 DEF WorkflowCallSafe, NoResult
<1> QED BY <1>1, <1>2

LEMMA WorkflowMoves ==
  ASSUME WorkflowInv, NEW c \in WorkflowCalls, NEW call, WorkflowCallSafe(call)', Becomes(c, call),
         workflows' \in [Workflows -> WorkflowRow \union {NO_WORKFLOW}],
         ownerships' \subseteq Workflows,
         RowsAreTrue',
         \A w \in Workflows : RowGoesOn(workflows[w], workflows'[w]),
         \A w \in Workflows \ {call.id} : workflows'[w] = workflows[w],
         \/ UNCHANGED workflows /\ ~Owns(call)
         \/ /\ call.id = workflowCalls[c].id
            /\ Runs(workflowCalls[c]) \/ ~HasRow(call.id)
  PROVE  WorkflowInv'
<1>1. /\ WorkflowTypeOK /\ workflowCalls \in [WorkflowCalls -> WorkflowCall] /\ RowsAreTrue
      /\ call \in WorkflowCall
  BY DEF WorkflowInv, WorkflowTypeOK, WorkflowCallSafe
<1>2. workflowCalls'[c] = call /\ \A d \in WorkflowCalls \ {c} : workflowCalls'[d] = workflowCalls[d]
  BY <1>1 DEF Becomes
<1>3. WorkflowTypeOK'
  BY <1>1 DEF WorkflowTypeOK, Becomes
<1>4. ASSUME NEW d \in WorkflowCalls \ {c}, Owns(workflowCalls[d])
      PROVE  /\ workflows'[workflowCalls[d].id] = workflows[workflowCalls[d].id]
             /\ Owns(call) => workflowCalls[d].id # call.id
  <2>1. HasRow(workflowCalls[d].id) /\ workflowCalls[d].id \in Workflows
    BY <1>4 DEF WorkflowInv, WorkflowCallSafe, Owns, Runs
  <2>2. Runs(workflowCalls[c]) => workflowCalls[d].id # workflowCalls[c].id
    BY <1>4 DEF WorkflowInv, OneOwner, Owns
  <2> QED BY <2>1, <2>2
<1>5. ASSUME NEW d \in WorkflowCalls PROVE WorkflowCallSafe(workflowCalls[d])'
  <2>1. CASE d = c
    BY <1>2, <2>1 DEF WorkflowCallSafe, HasRow
  <2>2. CASE d # c
    <3>1. PICK k : k = workflowCalls[d]
      OBVIOUS
    <3>2. WorkflowCallSafe(k)
      BY <3>1 DEF WorkflowInv
    <3>3. WorkflowCallSafe(k)'
      BY <1>1, <1>3, <1>4, <2>2, <3>1, <3>2, OthersStay
    <3> QED BY <1>2, <2>2, <3>1, <3>3 DEF WorkflowCallSafe, HasRow
  <2> QED BY <2>1, <2>2
<1>6. OneOwner'
  <2> SUFFICES ASSUME NEW d \in WorkflowCalls, NEW e \in WorkflowCalls,
                      Owns(workflowCalls'[d]), Owns(workflowCalls'[e]),
                      workflowCalls'[d].id = workflowCalls'[e].id
               PROVE  d = e
    BY DEF OneOwner, Owns, Runs
  <2> QED BY <1>2, <1>4 DEF WorkflowInv, OneOwner
<1> QED BY <1>3, <1>5, <1>6 DEF WorkflowInv

-----------------------------------------------------------------------------
(* The steps.                                                              *)

LEMMA RunningFacts ==
  ASSUME WorkflowInv, NEW c \in WorkflowCalls, Runs(workflowCalls[c])
  PROVE  LET k == workflowCalls[c]
             row == workflows[k.id]
         IN /\ k \in WorkflowCall /\ k.id \in Workflows /\ k.answer = NoResult /\ HasRow(k.id)
            /\ row \in WorkflowRow /\ row.mode = k.mode /\ row.done <= k.done
            /\ row.done \in 0 .. 8 /\ k.done \in 0 .. 8 /\ k.done <= StagesOf(k.mode)
            /\ k.mode \in {"full", "dry-run"} /\ StagesOf(k.mode) \in {5, 8}
  BY PipelineLength
     DEF WorkflowInv, WorkflowTypeOK, WorkflowCallSafe, Runs, HasRow, WorkflowCall, WorkflowRow

\* A call that goes on with its row.
LEMMA StepSafe ==
  ASSUME NEW k \in WorkflowCall, k.id \in Workflows, k.answer = NoResult, HasRow(k.id)',
         workflows'[k.id].mode = k.mode, workflows'[k.id].done <= k.done, k.done <= StagesOf(k.mode),
         NEW pc \in {"own", "winner", "start", "candidates", "candidate", "stage", "complete",
                     "result", "empty", "emptyResult", "fail", "failResult", "thrown"},
         pc \in {"own", "start", "candidates", "candidate"} => k.done = 0,
         pc = "stage" => k.done < StagesOf(k.mode),
         pc \in {"complete", "result"} => k.done = StagesOf(k.mode),
         pc = "result" => workflows'[k.id].done = k.done,
         NEW call, call = [k EXCEPT !.pc = pc]
  PROVE  WorkflowCallSafe(call)' /\ call.id = k.id
<1>1. /\ call \in WorkflowCall /\ call.pc = pc /\ call.id = k.id /\ call.mode = k.mode
      /\ call.done = k.done /\ call.answer = NoResult
  BY DEF WorkflowCall
<1>2. WorkflowCallSafe(call)'
  BY <1>1 DEF WorkflowCallSafe, Runs, NoResult
<1> QED BY <1>1, <1>2

\* The steps that write no row.
LEMMA RowsStay ==
  ASSUME WorkflowInv, NEW c \in WorkflowCalls, NEW call, WorkflowCallSafe(call)', Becomes(c, call),
         UNCHANGED workflows, ownerships' \subseteq Workflows,
         Owns(call) => call.id = workflowCalls[c].id /\ Runs(workflowCalls[c])
  PROVE  WorkflowInv'
<1>1. RowsAreTrue' /\ workflows' \in [Workflows -> WorkflowRow \union {NO_WORKFLOW}]
  BY DEF WorkflowInv, WorkflowTypeOK, RowsAreTrue, HasRow
<1>2. \A w \in Workflows : RowGoesOn(workflows[w], workflows'[w])
  BY DEF RowGoesOn
<1> QED BY <1>1, <1>2, WorkflowMoves

LEMMA ThrownSafe ==
  ASSUME NEW k \in WorkflowCall, k.pc # "idle" => k.id \in Workflows, k.pc # "idle", k.answer = NoResult
  PROVE  WorkflowCallSafe([k EXCEPT !.pc = "thrown"])' /\ ~Owns([k EXCEPT !.pc = "thrown"])
<1>1. PICK call : call = [k EXCEPT !.pc = "thrown"]
  OBVIOUS
<1>2. call \in WorkflowCall /\ call.pc = "thrown" /\ call.id = k.id /\ call.answer = NoResult
  BY <1>1 DEF WorkflowCall
<1>3. WorkflowCallSafe(call)' /\ ~Owns(call)
  BY <1>2 DEF WorkflowCallSafe, Runs, Owns, NoResult
<1> QED BY <1>1, <1>3

\* An update of the row by the call that runs the workflow: applied or not.
LEMMA StoreMoves ==
  ASSUME WorkflowInv, NEW c \in WorkflowCalls, Runs(workflowCalls[c]),
         NEW row \in WorkflowRow, NEW next, NEW otherwise,
         row.mode = workflowCalls[c].mode, workflows[workflowCalls[c].id].done <= row.done,
         row.done <= workflowCalls[c].done,
         row.status = "COMPLETED" \/ row.result = "COMPLETED" => row.done = StagesOf(row.mode),
         next.id = workflowCalls[c].id, otherwise.id = workflowCalls[c].id,
         workflows'[workflowCalls[c].id] = row =>
           WorkflowCallSafe(next)' /\ WorkflowCallSafe(otherwise)',
         UNCHANGED workflows => WorkflowCallSafe(otherwise)',
         Store(c, row, Becomes(c, next), Becomes(c, otherwise)), UNCHANGED ownerships
  PROVE  WorkflowInv'
<1> DEFINE k == workflowCalls[c]
<1>0. /\ k.id \in Workflows /\ HasRow(k.id) /\ workflows[k.id] \in WorkflowRow
      /\ workflows[k.id].mode = k.mode /\ k.done <= StagesOf(k.mode) /\ k.done \in 0 .. 8
      /\ StagesOf(k.mode) \in {5, 8} /\ row.done \in 0 .. 8
  BY RunningFacts DEF WorkflowRow
<1>1. workflows \in [Workflows -> WorkflowRow \union {NO_WORKFLOW}] /\ ownerships' \subseteq Workflows
  BY DEF WorkflowInv, WorkflowTypeOK
<1>2. CASE UNCHANGED workflows /\ Becomes(c, otherwise)
  BY <1>1, <1>2, RowsStay
<1>3. CASE UpdateRow(c, row) /\ (Becomes(c, next) \/ Becomes(c, otherwise))
  <2>1. PICK call \in {next, otherwise} : Becomes(c, call)
    BY <1>3
  <2>2. /\ workflows'[k.id] = row /\ \A w \in Workflows \ {k.id} : workflows'[w] = workflows[w]
        /\ workflows' \in [Workflows -> WorkflowRow \union {NO_WORKFLOW}]
    BY <1>0, <1>1, <1>3 DEF UpdateRow
  <2>3. \A w \in Workflows : RowGoesOn(workflows[w], workflows'[w])
    BY <1>0, <2>2 DEF RowGoesOn
  <2>4. RowsAreTrue'
    <3>1. row.done <= StagesOf(row.mode)
      BY <1>0
    <3> QED BY <1>0, <2>2, <3>1 DEF WorkflowInv, RowsAreTrue, HasRow
  <2>5. WorkflowCallSafe(call)' /\ call.id = k.id
    BY <2>1, <2>2
  <2> QED BY <1>1, <2>1, <2>2, <2>3, <2>4, <2>5, WorkflowMoves
<1> QED BY <1>2, <1>3 DEF Store

\* What UpdateContext writes.
LEMMA ContextRow ==
  ASSUME WorkflowInv, NEW c \in WorkflowCalls, Runs(workflowCalls[c]),
         NEW status \in {"RUNNING", "COMPLETED", "FAILED"},
         NEW row, row = ContextWritten(workflows[workflowCalls[c].id], c, status)
  PROVE  /\ row \in WorkflowRow /\ row.mode = workflowCalls[c].mode /\ row.done = workflowCalls[c].done
         /\ row.status = status /\ workflows[workflowCalls[c].id].done <= row.done
         /\ row.result = "COMPLETED" => row.done = StagesOf(row.mode)
<1> DEFINE k == workflowCalls[c]
           old == workflows[k.id]
<1>1. /\ k.id \in Workflows /\ HasRow(k.id) /\ old \in WorkflowRow /\ old.mode = k.mode
      /\ old.done <= k.done /\ k.done <= StagesOf(k.mode) /\ k.done \in 0 .. 8 /\ old.done \in 0 .. 8
      /\ StagesOf(k.mode) \in {5, 8}
  BY RunningFacts
<1>2. /\ row \in WorkflowRow /\ row.mode = old.mode /\ row.done = k.done /\ row.status = status
      /\ row.result = old.result
  BY <1>1 DEF ContextWritten, WorkflowRow, WorkflowStatuses
<1>3. old.result = "COMPLETED" => old.done = StagesOf(old.mode)
  BY <1>1 DEF WorkflowInv, RowsAreTrue
<1> QED BY <1>1, <1>2, <1>3

\* MarkRunning, SaveCandidate, SaveStage, CompleteContext, FailContext.
LEMMA ContextsWritten ==
  ASSUME WorkflowInv, NEW c \in WorkflowCalls,
         MarkRunning(c) \/ SaveCandidate(c) \/ SaveStage(c) \/ CompleteContext(c) \/ FailContext(c)
  PROVE  WorkflowInv'
<1>k. PICK k : k = workflowCalls[c]
  OBVIOUS
<1>0. /\ UNCHANGED ownerships /\ Runs(k)
      /\ k.pc \in {"start", "candidate", "stageDone", "complete", "empty", "fail"}
  BY <1>k DEF MarkRunning, SaveCandidate, SaveStage, CompleteContext, FailContext, AtStep, Runs
<1>1. /\ k \in WorkflowCall /\ k.id \in Workflows /\ HasRow(k.id) /\ k.answer = NoResult
      /\ workflows[k.id].mode = k.mode /\ workflows[k.id].done <= k.done /\ k.done <= StagesOf(k.mode)
      /\ k.done \in 0 .. 8 /\ k.mode \in {"full", "dry-run"} /\ StagesOf(k.mode) \in {5, 8}
      /\ WorkflowCallSafe(k)
  BY <1>k, <1>0, RunningFacts DEF WorkflowInv
<1>2. ASSUME NEW status \in {"RUNNING", "COMPLETED", "FAILED"},
             status = "COMPLETED" => k.done = StagesOf(k.mode),
             NEW pc \in {"candidates", "stage", "complete", "result", "emptyResult", "failResult"},
             NEW otherwise \in {"fail", "thrown"},
             pc \in {"candidates"} => k.done = 0,
             pc = "stage" => k.done < StagesOf(k.mode),
             pc \in {"complete", "result"} => k.done = StagesOf(k.mode),
             UpdateContext(c, status, Then(c, pc), Then(c, otherwise))
      PROVE  WorkflowInv'
  <2>1. PICK row : row = ContextWritten(workflows[k.id], c, status)
    OBVIOUS
  <2>2. /\ row \in WorkflowRow /\ row.mode = k.mode /\ row.done = k.done /\ row.status = status
        /\ workflows[k.id].done <= row.done
        /\ row.result = "COMPLETED" => row.done = StagesOf(row.mode)
    BY <1>k, <1>0, <2>1, ContextRow
  <2>3. row # NO_WORKFLOW /\ row.done <= k.done
    BY <1>1, <2>2, NoWorkflowIsNoRow
  <2>4. PICK next, other : next = [k EXCEPT !.pc = pc] /\ other = [k EXCEPT !.pc = otherwise]
    OBVIOUS
  <2>5. Store(c, row, Becomes(c, next), Becomes(c, other))
    BY <1>k, <1>2, <2>1, <2>4 DEF UpdateContext, Then
  <2>6. ASSUME workflows'[k.id] = row PROVE WorkflowCallSafe(next)' /\ WorkflowCallSafe(other)'
    <3>1. HasRow(k.id)' /\ workflows'[k.id].mode = k.mode /\ workflows'[k.id].done = k.done
      BY <2>2, <2>3, <2>6 DEF HasRow
    <3>2. WorkflowCallSafe(next)'
      BY <1>1, <1>2, <2>4, <3>1, StepSafe
    <3>3. WorkflowCallSafe(other)'
      BY <1>1, <2>4, <3>1, StepSafe
    <3> QED BY <3>2, <3>3
  <2>7. ASSUME UNCHANGED workflows PROVE WorkflowCallSafe(other)'
    <3>1. /\ HasRow(k.id)' /\ workflows'[k.id].mode = k.mode /\ workflows'[k.id].done <= k.done
      BY <1>1, <2>7 DEF HasRow
    <3> QED BY <1>1, <2>4, <3>1, StepSafe
  <2>8. next.id = k.id /\ other.id = k.id
    BY <1>1, <2>4 DEF WorkflowCall
  <2>9. row.status = "COMPLETED" \/ row.result = "COMPLETED" => row.done = StagesOf(row.mode)
    BY <1>2, <2>2
  <2> QED BY <1>k, <1>0, <2>2, <2>3, <2>5, <2>6, <2>7, <2>8, <2>9, StoreMoves
<1>3. CASE MarkRunning(c)
  <2>1. k.done = 0
    BY <1>k, <1>1, <1>3 DEF MarkRunning, AtStep, WorkflowCallSafe
  <2> QED BY <1>2, <1>3, <2>1 DEF MarkRunning
<1>4. CASE SaveCandidate(c)
  <2>1. k.done = 0 /\ 0 < StagesOf(k.mode)
    BY <1>k, <1>1, <1>4 DEF SaveCandidate, AtStep, WorkflowCallSafe
  <2> QED BY <1>2, <1>4, <2>1 DEF SaveCandidate
<1>5. CASE SaveStage(c)
  <2>1. PICK pc \in {"stage", "complete"} :
          /\ UpdateContext(c, "RUNNING", Then(c, pc), Then(c, "fail"))
          /\ pc = IF PipelineDone(c) THEN "complete" ELSE "stage"
    BY <1>5 DEF SaveStage
  <2>2. PipelineDone(c) <=> k.done = StagesOf(k.mode)
    BY <1>k, <1>1, PipelineLength DEF PipelineDone
  <2>3. (pc = "stage" => k.done < StagesOf(k.mode)) /\ (pc = "complete" => k.done = StagesOf(k.mode))
    BY <1>1, <2>1, <2>2
  <2> QED BY <1>2, <2>1, <2>3
<1>6. CASE CompleteContext(c)
  <2>1. k.done = StagesOf(k.mode)
    BY <1>k, <1>1, <1>6 DEF CompleteContext, AtStep, WorkflowCallSafe
  <2> QED BY <1>2, <1>6, <2>1 DEF CompleteContext
<1>7. CASE FailContext(c)
  BY <1>2, <1>7 DEF FailContext
<1> QED BY <1>3, <1>4, <1>5, <1>6, <1>7

\* CompleteResult and FailResult: the answer is what was written.
LEMMA ResultsWritten ==
  ASSUME WorkflowInv, NEW c \in WorkflowCalls, CompleteResult(c) \/ FailResult(c)
  PROVE  WorkflowInv'
<1>k. PICK k : k = workflowCalls[c]
  OBVIOUS
<1>0. UNCHANGED ownerships /\ Runs(k) /\ k.pc \in {"result", "emptyResult", "failResult"}
  BY <1>k DEF CompleteResult, FailResult, AtStep, Runs
<1>1. /\ k \in WorkflowCall /\ k.id \in Workflows /\ HasRow(k.id) /\ k.answer = NoResult
      /\ workflows[k.id].mode = k.mode /\ workflows[k.id].done <= k.done /\ k.done <= StagesOf(k.mode)
      /\ k.done \in 0 .. 8 /\ k.mode \in {"full", "dry-run"} /\ StagesOf(k.mode) \in {5, 8}
      /\ WorkflowCallSafe(k) /\ workflows[k.id] \in WorkflowRow /\ workflows[k.id].done \in 0 .. 8
  BY <1>k, <1>0, RunningFacts DEF WorkflowInv
<1>2. ASSUME NEW status \in {"COMPLETED", "FAILED"},
             status = "COMPLETED" => workflows[k.id].done = StagesOf(k.mode),
             NEW otherwise \in {"fail", "thrown"},
             UpdateResult(c, status, Answers(c, status), Then(c, otherwise))
      PROVE  WorkflowInv'
  <2>1. PICK row : row = [workflows[k.id] EXCEPT !.status = status, !.result = status]
    OBVIOUS
  <2>2. /\ row \in WorkflowRow /\ row.mode = k.mode /\ row.done = workflows[k.id].done
        /\ row.status = status /\ row.result = status
    BY <1>1, <2>1 DEF WorkflowRow, WorkflowStatuses
  <2>3. row # NO_WORKFLOW /\ workflows[k.id].done <= row.done /\ row.done <= k.done
    BY <1>1, <2>2, NoWorkflowIsNoRow
  <2>4. PICK next : next = [k EXCEPT !.pc = "answered", !.answer = status]
    OBVIOUS
  <2>5. /\ next \in WorkflowCall /\ next.pc = "answered" /\ next.id = k.id /\ next.answer = status
    BY <1>1, <2>4 DEF WorkflowCall, WorkflowStatuses
  <2>6. workflows'[k.id] = row => WorkflowCallSafe(next)'
    BY <1>1, <1>2, <2>2, <2>3, <2>5 DEF WorkflowCallSafe, Runs, HasRow
  <2>7. PICK other : other = [k EXCEPT !.pc = otherwise]
    OBVIOUS
  <2>8. ASSUME workflows'[k.id] = row \/ UNCHANGED workflows PROVE WorkflowCallSafe(other)'
    <3>1. /\ HasRow(k.id)' /\ workflows'[k.id].mode = k.mode /\ workflows'[k.id].done <= k.done
      BY <1>1, <2>2, <2>3, <2>8 DEF HasRow
    <3> QED BY <1>1, <2>7, <3>1, StepSafe
  <2>9. other.id = k.id
    BY <1>1, <2>7 DEF WorkflowCall
  <2>10. Store(c, row, Becomes(c, next), Becomes(c, other))
    BY <1>k, <1>2, <2>1, <2>4, <2>7 DEF UpdateResult, Answers, Then
  <2>11. row.status = "COMPLETED" \/ row.result = "COMPLETED" => row.done = StagesOf(row.mode)
    BY <1>2, <2>2
  <2> QED BY <1>k, <1>0, <2>2, <2>3, <2>5, <2>6, <2>8, <2>9, <2>10, <2>11, StoreMoves
<1>3. CASE CompleteResult(c)
  <2>1. workflows[k.id].done = StagesOf(k.mode)
    BY <1>k, <1>1, <1>3 DEF CompleteResult, AtStep, WorkflowCallSafe
  <2> QED BY <1>2, <1>3, <2>1 DEF CompleteResult
<1>4. CASE FailResult(c)
  BY <1>2, <1>4 DEF FailResult
<1> QED BY <1>3, <1>4

\* SaveRow: the row is put, found, or the call gives up.
LEMMA RowIsPut ==
  ASSUME WorkflowInv, NEW c \in WorkflowCalls, SaveRow(c)
  PROVE  WorkflowInv'
<1>0. PICK k : k = workflowCalls[c]
  OBVIOUS
<1>1. /\ k \in WorkflowCall /\ k.pc = "save" /\ k.id \in Workflows /\ k.answer = NoResult /\ k.done = 0
      /\ k.mode \in {"full", "dry-run"} /\ StagesOf(k.mode) \in {5, 8} /\ ownerships' \subseteq Workflows
      /\ workflows \in [Workflows -> WorkflowRow \union {NO_WORKFLOW}] /\ ~Runs(k)
  BY <1>0, PipelineLength
     DEF SaveRow, AtStep, WorkflowInv, WorkflowTypeOK, WorkflowCallSafe, WorkflowCall, Runs, NoResult
<1>2. CASE MayCreateRow(k.id) /\ UNCHANGED ownerships /\ workflows' = [workflows EXCEPT ![k.id] =
             [status |-> "PENDING", mode |-> k.mode, done |-> 0, result |-> NoResult]]
             /\ (Then(c, "own") \/ Then(c, "winner"))
  <2>1. PICK row : row = [status |-> "PENDING", mode |-> k.mode, done |-> 0, result |-> NoResult]
    OBVIOUS
  <2>2. /\ row \in WorkflowRow /\ row.mode = k.mode /\ row.done = 0 /\ row.status = "PENDING"
        /\ row.result = NoResult /\ row # NO_WORKFLOW
    BY <1>1, <2>1, NoWorkflowIsNoRow DEF WorkflowRow, WorkflowStatuses
  <2>3. /\ workflows'[k.id] = row /\ \A w \in Workflows \ {k.id} : workflows'[w] = workflows[w]
        /\ workflows' \in [Workflows -> WorkflowRow \union {NO_WORKFLOW}] /\ workflows[k.id] = NO_WORKFLOW
    BY <1>1, <1>2, <2>1, <2>2 DEF MayCreateRow, HasRow
  <2>4. RowsAreTrue'
    BY <1>1, <2>2, <2>3 DEF WorkflowInv, RowsAreTrue, HasRow, NoResult
  <2>5. \A w \in Workflows : RowGoesOn(workflows[w], workflows'[w])
    BY <2>2, <2>3 DEF RowGoesOn
  <2>6. PICK pc \in {"own", "winner"} : Then(c, pc)
    BY <1>2
  <2>7. PICK call : call = [k EXCEPT !.pc = pc]
    OBVIOUS
  <2>8. WorkflowCallSafe(call)' /\ call.id = k.id
    BY <1>1, <2>2, <2>3, <2>7, StepSafe DEF HasRow
  <2>9. Becomes(c, call)
    BY <1>0, <2>6, <2>7 DEF Then
  <2> QED BY <1>0, <1>1, <2>3, <2>4, <2>5, <2>8, <2>9, WorkflowMoves DEF HasRow
<1>3. CASE HasRow(k.id) /\ Then(c, "winner") /\ UNCHANGED <<workflows, ownerships>>
  <2>1. PICK call : call = [k EXCEPT !.pc = "winner"]
    OBVIOUS
  <2>2. /\ call \in WorkflowCall /\ call.pc = "winner" /\ call.id = k.id /\ call.answer = NoResult
    BY <1>1, <2>1 DEF WorkflowCall
  <2>3. WorkflowCallSafe(call)' /\ ~Owns(call)
    BY <1>1, <1>3, <2>2 DEF WorkflowCallSafe, Runs, Owns, HasRow, NoResult
  <2> QED BY <1>0, <1>1, <1>3, <2>1, <2>3, RowsStay DEF Then
<1>4. CASE Then(c, "thrown") /\ UNCHANGED <<workflows, ownerships>>
  BY <1>0, <1>1, <1>4, ThrownSafe, RowsStay DEF Then
<1> QED BY <1>0, <1>2, <1>3, <1>4 DEF SaveRow

\* A replay answers what the row says: COMPLETED only of a whole context.
LEMMA Replays ==
  ASSUME WorkflowInv, NEW c \in WorkflowCalls, NEW call \in WorkflowCall, call.id \in Workflows,
         HasRow(call.id), Replay(c, call), UNCHANGED <<workflows, ownerships>>
  PROVE  WorkflowInv'
<1>1. PICK w \in Workflows : w = call.id
  OBVIOUS
<1>2. workflows[w] \in WorkflowRow /\ Replayed(workflows[w]) \in WorkflowStatuses
      /\ ownerships \subseteq Workflows
  BY <1>1 DEF WorkflowInv, WorkflowTypeOK, HasRow, WorkflowRow, Replayed, WorkflowStatuses, NoResult
<1>3. Replayed(workflows[w]) = "COMPLETED" => workflows[w].done = StagesOf(workflows[w].mode)
  BY <1>1 DEF WorkflowInv, RowsAreTrue, Replayed
<1>4. PICK k : k = [call EXCEPT !.pc = "answered", !.duplicate = TRUE, !.answer = Replayed(workflows[w])]
  OBVIOUS
<1>5. /\ k \in WorkflowCall /\ k.pc = "answered" /\ k.id = w /\ k.duplicate = TRUE
      /\ k.answer = Replayed(workflows[w])
  BY <1>1, <1>2, <1>4 DEF WorkflowCall
<1>6. WorkflowCallSafe(k)' /\ ~Owns(k)
  BY <1>1, <1>3, <1>5 DEF WorkflowCallSafe, Runs, Owns, HasRow
<1> QED BY <1>1, <1>2, <1>4, <1>6, RowsStay DEF Replay

LEMMA CallsRunOn ==
  ASSUME WorkflowInv, NEW c \in WorkflowCalls,
         \/ ExecuteWorkflow(c) \/ ReplayWinner(c) \/ SaveOwnership(c) \/ CollectCandidates(c)
         \/ ExecuteStage(c) \/ WorkflowCallDies(c)
  PROVE  WorkflowInv'
<1>0. PICK k : k = workflowCalls[c]
  OBVIOUS
<1>1. /\ k \in WorkflowCall /\ WorkflowCallSafe(k) /\ UNCHANGED workflows /\ ownerships \subseteq Workflows
  BY <1>0 DEF ExecuteWorkflow, ReplayWinner, SaveOwnership, CollectCandidates, ExecuteStage,
              WorkflowCallDies, WorkflowInv, WorkflowTypeOK
<1>2. CASE ExecuteWorkflow(c)
  <2>1. PICK w \in Workflows, mode \in {"full", "dry-run"} :
          LET call == [IdleWorkflowCall EXCEPT !.pc = "save", !.id = w, !.mode = mode]
          IN /\ IF HasRow(w) THEN Replay(c, call) ELSE Becomes(c, call)
             /\ UNCHANGED <<workflows, ownerships>>
    BY <1>2 DEF ExecuteWorkflow
  <2>2. /\ IdleWorkflowCall \in WorkflowCall /\ IdleWorkflowCall.answer = NoResult
        /\ IdleWorkflowCall.done = 0
    BY DEF IdleWorkflowCall, WorkflowCall, WorkflowStatuses
  <2>3. PICK call : call = [IdleWorkflowCall EXCEPT !.pc = "save", !.id = w, !.mode = mode]
    OBVIOUS
  <2>4. /\ call \in WorkflowCall /\ call.pc = "save" /\ call.id = w /\ call.answer = NoResult
        /\ call.done = 0
    BY <2>2, <2>3 DEF WorkflowCall
  <2>5. WorkflowCallSafe(call)' /\ ~Owns(call)
    BY <2>4 DEF WorkflowCallSafe, Runs, Owns, NoResult
  <2>6. IF HasRow(w) THEN Replay(c, call) ELSE Becomes(c, call)
    BY <2>1, <2>3
  <2> QED BY <1>1, <2>1, <2>4, <2>5, <2>6, Replays, RowsStay
<1>3. CASE ReplayWinner(c)
  <2>1. k.pc = "winner" /\ k.id \in Workflows /\ HasRow(k.id)
    BY <1>0, <1>1, <1>3 DEF ReplayWinner, AtStep, WorkflowCallSafe
  <2> QED BY <1>0, <1>1, <1>3, <2>1, Replays DEF ReplayWinner
<1>4. CASE WorkflowCallDies(c)
  <2>1. k.pc \notin {"idle", "answered"} /\ k.answer = NoResult /\ k.id \in Workflows
    BY <1>0, <1>1, <1>4 DEF WorkflowCallDies, Over, WorkflowCallSafe
  <2> QED BY <1>0, <1>1, <1>4, <2>1, ThrownSafe, RowsStay DEF WorkflowCallDies, Then
<1>5. ASSUME Runs(k)
      PROVE  /\ k.id \in Workflows /\ k.answer = NoResult /\ HasRow(k.id)
             /\ workflows'[k.id].mode = k.mode /\ workflows'[k.id].done <= k.done
             /\ k.done <= StagesOf(k.mode) /\ HasRow(k.id)' /\ k.done \in 0 .. 8
             /\ StagesOf(k.mode) \in {5, 8} /\ workflows[k.id].done \in 0 .. 8
  BY <1>0, <1>1, <1>5, RunningFacts DEF HasRow
<1>6. ASSUME Runs(k), NEW pc \in {"start", "candidate", "empty", "fail", "thrown"},
             pc \in {"start", "candidate"} => k.done = 0, Then(c, pc),
             ownerships' \subseteq Workflows
      PROVE  WorkflowInv'
  <2>1. PICK call : call = [k EXCEPT !.pc = pc]
    OBVIOUS
  <2>2. WorkflowCallSafe(call)' /\ call.id = k.id
    BY <1>1, <1>5, <1>6, <2>1, StepSafe
  <2> QED BY <1>0, <1>1, <1>6, <2>1, <2>2, RowsStay DEF Then
<1>7. CASE SaveOwnership(c)
  <2>1. k.pc = "own" /\ Runs(k) /\ k.done = 0
    BY <1>0, <1>1, <1>7 DEF SaveOwnership, AtStep, Runs, WorkflowCallSafe
  <2>2. ownerships' \subseteq Workflows /\ (Then(c, "start") \/ Then(c, "thrown"))
    BY <1>0, <1>1, <1>5, <1>7, <2>1 DEF SaveOwnership
  <2> QED BY <1>6, <2>1, <2>2
<1>8. CASE CollectCandidates(c)
  <2>1. k.pc = "candidates" /\ Runs(k) /\ k.done = 0
    BY <1>0, <1>1, <1>8 DEF CollectCandidates, AtStep, Runs, WorkflowCallSafe
  <2> QED BY <1>1, <1>6, <1>8, <2>1 DEF CollectCandidates
<1>9. CASE ExecuteStage(c)
  <2>1. k.pc = "stage" /\ Runs(k) /\ k.done < StagesOf(k.mode)
    BY <1>0, <1>1, <1>9 DEF ExecuteStage, AtStep, Runs, WorkflowCallSafe
  <2>2. CASE Then(c, "fail")
    BY <1>1, <1>6, <1>9, <2>1, <2>2 DEF ExecuteStage
  <2>3. CASE Becomes(c, [k EXCEPT !.pc = "stageDone", !.done = @ + 1])
    <3>1. PICK call : call = [k EXCEPT !.pc = "stageDone", !.done = @ + 1]
      OBVIOUS
    <3>2. k.done + 1 \in 0 .. 8 /\ k.done + 1 <= StagesOf(k.mode)
      BY <1>5, <2>1
    <3>3. /\ call \in WorkflowCall /\ call.pc = "stageDone" /\ call.id = k.id /\ call.mode = k.mode
          /\ call.done = k.done + 1 /\ call.answer = k.answer
      BY <1>1, <3>1, <3>2 DEF WorkflowCall
    <3>4. workflows'[k.id].done <= call.done
      BY <1>1, <1>5, <2>1, <3>3
    <3>5. WorkflowCallSafe(call)'
      BY <1>5, <2>1, <3>2, <3>3, <3>4 DEF WorkflowCallSafe, HasRow, Runs, NoResult
    <3> QED BY <1>0, <1>1, <1>9, <2>1, <2>3, <3>1, <3>3, <3>5, RowsStay DEF ExecuteStage
  <2> QED BY <1>0, <1>9, <2>2, <2>3 DEF ExecuteStage
<1> QED BY <1>2, <1>3, <1>4, <1>7, <1>8, <1>9

-----------------------------------------------------------------------------
(* The theorems.                                                           *)

LEMMA WorkflowInvInit ==
  ASSUME WorkflowInit
  PROVE  WorkflowInv
<1>1. /\ IdleWorkflowCall \in WorkflowCall /\ IdleWorkflowCall.pc = "idle"
      /\ IdleWorkflowCall.answer = NoResult /\ IdleWorkflowCall.done = 0
  BY DEF IdleWorkflowCall, WorkflowCall, WorkflowStatuses
<1>2. WorkflowCallSafe(IdleWorkflowCall) /\ ~Owns(IdleWorkflowCall)
  BY <1>1 DEF WorkflowCallSafe, Owns, Runs, NoResult
<1> QED BY <1>1, <1>2 DEF WorkflowInit, WorkflowInv, WorkflowTypeOK, RowsAreTrue, HasRow, OneOwner

LEMMA WorkflowInvNext ==
  ASSUME WorkflowInv, [WorkflowNext]_workflowVars
  PROVE  WorkflowInv'
<1>1. CASE UNCHANGED workflowVars
  BY <1>1 DEF workflowVars, WorkflowInv, WorkflowTypeOK, WorkflowCallSafe, RowsAreTrue, OneOwner, HasRow
<1>2. CASE WorkflowNext
  BY <1>2, RowIsPut, CallsRunOn, ContextsWritten, ResultsWritten DEF WorkflowNext
<1> QED BY <1>1, <1>2

\* What every request has stored, and what is stored of it: the invariant behind the two
\* theorems about workflows.
THEOREM WorkflowInvariant == WorkflowSpec => []WorkflowInv
<1>1. WorkflowInit => WorkflowInv
  BY WorkflowInvInit
<1>2. WorkflowInv /\ [WorkflowNext]_workflowVars => WorkflowInv'
  BY WorkflowInvNext
<1> QED BY <1>1, <1>2, PTL DEF WorkflowSpec

\* However many requests with one idempotency key are between the lookup and the creation
\* of executeWorkflow, one of them runs the workflow.
THEOREM OneRunnerPerWorkflow == WorkflowSpec => []OneRunner
<1>1. WorkflowInv => OneRunner
  BY DEF WorkflowInv, OneOwner, OneRunner, Owns, Runs, RunsWorkflow, Over, AtStep
<1> QED BY <1>1, WorkflowInvariant, PTL

\* No answer, of the original call or of a replay, says COMPLETED of a context that lacks a
\* stage, and what the original call was told stays what the row says: failWorkflow, lost
\* answers and replays of the same key included.
THEOREM WorkflowAnswersAreTrue == WorkflowSpec => []AnswersAreTrue
<1>1. WorkflowInv => AnswersAreTrue
  <2> SUFFICES ASSUME WorkflowInv, NEW c \in WorkflowCalls
               PROVE  CompletedHasAllStages(c) /\ AnswerIsStored(c)
    BY DEF AnswersAreTrue
  <2>1. WorkflowCallSafe(workflowCalls[c])
    BY DEF WorkflowInv
  <2>2. AnswerIsStored(c)
    BY <2>1 DEF WorkflowCallSafe, AnswerIsStored
  <2>3. ASSUME workflowCalls[c].answer = "COMPLETED" PROVE CompletedHasAllStages(c)
    <3>1. PICK w \in Workflows : w = workflowCalls[c].id /\ HasRow(w)
      BY <2>1, <2>3 DEF WorkflowCallSafe, NoResult
    <3>2. workflows[w].mode \in {"full", "dry-run"}
      BY <3>1 DEF WorkflowInv, WorkflowTypeOK, WorkflowRow, HasRow
    <3> QED BY <2>1, <2>3, <3>1, <3>2, PipelineLength DEF WorkflowCallSafe, CompletedHasAllStages
  <2> QED BY <2>2, <2>3 DEF CompletedHasAllStages
<1> QED BY <1>1, WorkflowInvariant, PTL

-----------------------------------------------------------------------------
(* The lifecycle.                                                          *)

\* How far the stored context is when its call is at a step: it is the call's own, or a
\* stage behind.
InStep(pc, done, row) ==
  /\ pc \in {"own", "start"} => row.status = "PENDING" /\ row.done = done
  /\ pc \in {"candidates", "candidate", "empty", "stage", "complete"} =>
       row.status = "RUNNING" /\ row.done = done
  /\ pc = "stageDone" => row.status = "RUNNING" /\ done = row.done + 1
  /\ pc = "result" => row.status = "COMPLETED" /\ row.done = done
  /\ pc = "fail" => row.status # "PENDING" /\ done \in {row.done, row.done + 1}
  /\ pc = "fail" /\ row.status = "FAILED" => row.done = done
  /\ pc = "failResult" => row.status = "FAILED"
  /\ pc = "emptyResult" => row.status = "FAILED" /\ row.done = done

RunsInStep ==
  \A c \in WorkflowCalls :
    /\ workflowCalls[c].pc # "answered" => ~workflowCalls[c].duplicate
    /\ Runs(workflowCalls[c]) =>
         InStep(workflowCalls[c].pc, workflowCalls[c].done, workflows[workflowCalls[c].id])

LifecycleInv == WorkflowInv /\ RunsInStep

LifecycleStep == [Lifecycle!Next]_(Lifecycle!lifecycleVars)

Runners == [w \in Workflows |-> Runner(w)]
Answered == [w \in Workflows |-> Told(w)]

Tells(call, w) == call.id = w /\ call.answer # NoResult /\ ~call.duplicate

LEMMA RunnerIsAlone ==
  ASSUME WorkflowInv, NEW c \in WorkflowCalls, Runs(workflowCalls[c]),
         NEW d \in WorkflowCalls, Owns(workflowCalls[d]), workflowCalls[d].id = workflowCalls[c].id
  PROVE  d = c
BY DEF WorkflowInv, OneOwner, Owns

LEMMA RunnersAndTold ==
  ASSUME NEW w
  PROVE  /\ Runner(w) = {c \in WorkflowCalls : Runs(workflowCalls[c]) /\ workflowCalls[c].id = w}
         /\ Told(w) = {workflowCalls[c].answer : c \in {d \in WorkflowCalls : Tells(workflowCalls[d], w)}}
<1>1. \A c \in WorkflowCalls : RunsWorkflow(c) <=> Runs(workflowCalls[c])
  BY DEF RunsWorkflow, Runs, Over, AtStep
<1> QED BY <1>1 DEF Runner, Told, Tells

\* A step of the call that runs a workflow, which is not answered by it.
LEMMA RunnerStep ==
  ASSUME WorkflowInv, NEW c \in WorkflowCalls, Runs(workflowCalls[c]), NEW call, Becomes(c, call),
         call.id = workflowCalls[c].id, call.answer = NoResult
  PROVE  /\ Runners[workflowCalls[c].id] = {c} /\ Answered' = Answered
         /\ IF Runs(call) THEN Runners' = Runners
            ELSE Runners' = [Runners EXCEPT ![workflowCalls[c].id] = {}]
<1>1. /\ workflowCalls[c].id \in Workflows /\ workflowCalls[c].answer = NoResult
      /\ workflowCalls \in [WorkflowCalls -> WorkflowCall]
  BY RunningFacts DEF WorkflowInv, WorkflowTypeOK
<1>2. workflowCalls'[c] = call /\ \A d \in WorkflowCalls \ {c} : workflowCalls'[d] = workflowCalls[d]
  BY <1>1 DEF Becomes
<1>3. \A d \in WorkflowCalls : Runs(workflowCalls[d]) /\ workflowCalls[d].id = workflowCalls[c].id => d = c
  BY RunnerIsAlone DEF Owns
<1>4. Runner(workflowCalls[c].id) = {c}
  BY <1>3, RunnersAndTold
<1>5. \A w \in Workflows : Told(w)' = Told(w)
  <2>1. \A d \in WorkflowCalls, w \in Workflows :
          /\ Tells(workflowCalls[d], w)' <=> Tells(workflowCalls[d], w)
          /\ Tells(workflowCalls[d], w) => workflowCalls'[d].answer = workflowCalls[d].answer
    BY <1>1, <1>2 DEF Tells
  <2> QED BY <2>1 DEF Told, Tells
<1>6. \A w \in Workflows :
        Runner(w)' = IF ~Runs(call) /\ w = workflowCalls[c].id THEN {} ELSE Runner(w)
  <2>1. \A w : Runner(w)' =
          {d \in WorkflowCalls : Runs(workflowCalls'[d]) /\ workflowCalls'[d].id = w}
    <3>1. \A d \in WorkflowCalls : RunsWorkflow(d)' <=> Runs(workflowCalls'[d])
      BY DEF RunsWorkflow, Runs, Over, AtStep
    <3> QED BY <3>1 DEF Runner
  <2> QED BY <1>2, <1>3, <2>1, RunnersAndTold
<1> QED BY <1>1, <1>4, <1>5, <1>6 DEF Runners, Answered

\* What such a step is of the lifecycle, with the row it leaves.
LEMMA WorkStep ==
  ASSUME WorkflowInv, NEW c \in WorkflowCalls, Runs(workflowCalls[c]), NEW call, Becomes(c, call),
         call.id = workflowCalls[c].id, call.answer = NoResult,
         NEW row,
         \/ row = workflows[call.id] \/ Lifecycle!Continues(workflows[call.id], row)
         \/ Lifecycle!Concludes(workflows[call.id], row),
         workflows' = [workflows EXCEPT ![call.id] = row]
  PROVE  LifecycleStep
<1>1. PICK w \in Workflows : w = call.id /\ w = workflowCalls[c].id /\ workflows[w] # NO_WORKFLOW
  BY RunningFacts DEF HasRow
<1>2. workflows'[w] = row /\ workflows' = [workflows EXCEPT ![w] = workflows'[w]]
  BY <1>1 DEF WorkflowInv, WorkflowTypeOK
<1>3. /\ Runners[w] # {} /\ Answered' = Answered
      /\ Runners' = Runners \/ Runners' = [Runners EXCEPT ![w] = {}]
  BY <1>1, RunnerStep
<1>4. Lifecycle!Work(w)
  BY <1>1, <1>2, <1>3 DEF Lifecycle!Work, Runners, Answered
<1> QED BY <1>4 DEF LifecycleStep, Lifecycle!Next

\* The rows of the others stay, and so does what is known of them.
LEMMA OthersInStep ==
  ASSUME LifecycleInv, NEW c \in WorkflowCalls, NEW call, Becomes(c, call),
         call.pc # "answered" => ~call.duplicate,
         Runs(call) => InStep(call.pc, call.done, workflows'[call.id]),
         \A d \in WorkflowCalls \ {c} : Runs(workflowCalls[d]) =>
           workflows'[workflowCalls[d].id] = workflows[workflowCalls[d].id]
  PROVE  RunsInStep'
<1>1. workflowCalls'[c] = call /\ \A d \in WorkflowCalls \ {c} : workflowCalls'[d] = workflowCalls[d]
  BY DEF Becomes, LifecycleInv, WorkflowInv, WorkflowTypeOK
<1> SUFFICES ASSUME NEW d \in WorkflowCalls
             PROVE  /\ workflowCalls'[d].pc # "answered" => ~workflowCalls'[d].duplicate
                    /\ Runs(workflowCalls'[d]) =>
                         InStep(workflowCalls'[d].pc, workflowCalls'[d].done,
                                workflows'[workflowCalls'[d].id])
  BY DEF RunsInStep, Runs, InStep
<1>2. CASE d = c
  BY <1>1, <1>2
<1>3. CASE d # c
  <2>1. /\ workflowCalls[d].pc # "answered" => ~workflowCalls[d].duplicate
        /\ Runs(workflowCalls[d]) =>
             InStep(workflowCalls[d].pc, workflowCalls[d].done, workflows[workflowCalls[d].id])
    BY <1>1, <1>3 DEF LifecycleInv, RunsInStep
  <2> QED BY <1>1, <1>3, <2>1
<1> QED BY <1>2, <1>3

\* A step of the call that runs a workflow, and the row it leaves.
LEMMA RowStep ==
  ASSUME LifecycleInv, NEW c \in WorkflowCalls, Runs(workflowCalls[c]), NEW call, Becomes(c, call),
         call.id = workflowCalls[c].id, call.answer = NoResult, ~call.duplicate,
         NEW row,
         \/ row = workflows[call.id] \/ Lifecycle!Continues(workflows[call.id], row)
         \/ Lifecycle!Concludes(workflows[call.id], row),
         workflows' = [workflows EXCEPT ![call.id] = row],
         Runs(call) => InStep(call.pc, call.done, row)
  PROVE  RunsInStep' /\ LifecycleStep
<1>1. call.id \in Workflows /\ workflowCalls[c].answer = NoResult /\ WorkflowInv
      /\ workflows \in [Workflows -> WorkflowRow \union {NO_WORKFLOW}]
  BY RunningFacts DEF LifecycleInv, WorkflowInv, WorkflowTypeOK
<1>2. workflows'[call.id] = row /\ \A w \in Workflows \ {call.id} : workflows'[w] = workflows[w]
  BY <1>1
<1>3. ASSUME NEW d \in WorkflowCalls \ {c}, Runs(workflowCalls[d])
      PROVE  workflows'[workflowCalls[d].id] = workflows[workflowCalls[d].id]
  <2>1. workflowCalls[d].id \in Workflows
    BY <1>1, <1>3, RunningFacts
  <2>2. workflowCalls[d].id # call.id
    BY <1>1, <1>3, RunnerIsAlone DEF Owns
  <2> QED BY <1>2, <2>1, <2>2
<1>4. RunsInStep'
  BY <1>2, <1>3, OthersInStep
<1>5. LifecycleStep
  BY <1>1, WorkStep
<1> QED BY <1>4, <1>5

LEMMA PassOn ==
  ASSUME LifecycleInv, NEW c \in WorkflowCalls, Runs(workflowCalls[c]), NEW pc, Then(c, pc),
         NEW row,
         \/ row = workflows[workflowCalls[c].id]
         \/ Lifecycle!Continues(workflows[workflowCalls[c].id], row)
         \/ Lifecycle!Concludes(workflows[workflowCalls[c].id], row),
         workflows' = [workflows EXCEPT ![workflowCalls[c].id] = row],
         InStep(pc, workflowCalls[c].done, row)
  PROVE  RunsInStep' /\ LifecycleStep
<1>1. PICK call : call = [workflowCalls[c] EXCEPT !.pc = pc]
  OBVIOUS
<1>2. /\ workflowCalls[c] \in WorkflowCall /\ workflowCalls[c].answer = NoResult
      /\ ~workflowCalls[c].duplicate
  BY RunningFacts DEF LifecycleInv, RunsInStep, Runs
<1>3. /\ call.pc = pc /\ call.id = workflowCalls[c].id /\ call.answer = NoResult
      /\ call.done = workflowCalls[c].done /\ ~call.duplicate
  BY <1>1, <1>2 DEF WorkflowCall
<1>4. Becomes(c, call)
  BY <1>1 DEF Then
<1> QED BY <1>3, <1>4, RowStep

LEMMA RowsKept ==
  ASSUME WorkflowInv, UNCHANGED workflows, NEW w
  PROVE  workflows' = [workflows EXCEPT ![w] = workflows[w]]
  BY DEF WorkflowInv, WorkflowTypeOK

\* A write by it: applied, lost, or applied with the answer lost.
LEMMA StoreStep ==
  ASSUME LifecycleInv, NEW c \in WorkflowCalls, Runs(workflowCalls[c]), NEW row, NEW pc, NEW otherwise,
         Store(c, row, Then(c, pc), Then(c, otherwise)),
         \/ row = workflows[workflowCalls[c].id]
         \/ Lifecycle!Continues(workflows[workflowCalls[c].id], row)
         \/ Lifecycle!Concludes(workflows[workflowCalls[c].id], row),
         InStep(pc, workflowCalls[c].done, row), InStep(otherwise, workflowCalls[c].done, row),
         InStep(otherwise, workflowCalls[c].done, workflows[workflowCalls[c].id])
  PROVE  RunsInStep' /\ LifecycleStep
<1>1. CASE UpdateRow(c, row) /\ (Then(c, pc) \/ Then(c, otherwise))
  BY <1>1, PassOn DEF UpdateRow
<1>2. CASE UNCHANGED workflows /\ Then(c, otherwise)
  <2>1. workflows' = [workflows EXCEPT ![workflowCalls[c].id] = workflows[workflowCalls[c].id]]
    BY <1>2, RowsKept DEF LifecycleInv
  <2> QED BY <1>2, <2>1, PassOn
<1> QED BY <1>1, <1>2 DEF Store

\* MarkRunning, SaveCandidate, SaveStage, CompleteContext, FailContext.
LEMMA ContextsContinue ==
  ASSUME LifecycleInv, NEW c \in WorkflowCalls,
         MarkRunning(c) \/ SaveCandidate(c) \/ SaveStage(c) \/ CompleteContext(c) \/ FailContext(c)
  PROVE  RunsInStep' /\ LifecycleStep
<1>k. PICK k : k = workflowCalls[c]
  OBVIOUS
<1>o. PICK old : old = workflows[k.id]
  OBVIOUS
<1>0. Runs(k) /\ k.pc \in {"start", "candidate", "stageDone", "complete", "empty", "fail"} /\ WorkflowInv
  BY <1>k DEF MarkRunning, SaveCandidate, SaveStage, CompleteContext, FailContext, AtStep, Runs,
              LifecycleInv
<1>1. /\ old \in WorkflowRow /\ k.mode = old.mode /\ k.done \in 0 .. 8 /\ old.done \in 0 .. 8
      /\ InStep(k.pc, k.done, old)
  BY <1>k, <1>o, <1>0, RunningFacts DEF LifecycleInv, RunsInStep
<1>2. ASSUME NEW status \in {"RUNNING", "COMPLETED", "FAILED"},
             \/ old.status = status /\ k.done = old.done
             \/ <<old.status, status>> \in Lifecycle!StatusSteps /\ k.done \in {old.done, old.done + 1},
             status = "COMPLETED" => k.done = StagesOf(k.mode),
             NEW pc, NEW otherwise, UpdateContext(c, status, Then(c, pc), Then(c, otherwise)),
             \A row : row.done = k.done /\ row.status = status =>
               InStep(pc, k.done, row) /\ InStep(otherwise, k.done, row),
             InStep(otherwise, k.done, old)
      PROVE  RunsInStep' /\ LifecycleStep
  <2>1. PICK row : row = ContextWritten(old, c, status)
    OBVIOUS
  <2>2. row.mode = k.mode /\ row.done = k.done /\ row.status = status /\ row.result = old.result
    BY <1>k, <1>1, <2>1 DEF ContextWritten, WorkflowRow
  <2>3. row = old \/ Lifecycle!Continues(old, row)
    <3>1. CASE old.status = status /\ k.done = old.done
      BY <1>k, <1>1, <2>1, <3>1 DEF ContextWritten, WorkflowRow
    <3>2. CASE <<old.status, status>> \in Lifecycle!StatusSteps /\ k.done \in {old.done, old.done + 1}
      BY <1>1, <1>2, <2>2, <3>2 DEF Lifecycle!Continues, Lifecycle!NumStages, StagesOf
    <3> QED BY <1>2, <3>1, <3>2
  <2>4. Store(c, row, Then(c, pc), Then(c, otherwise))
    BY <1>k, <1>o, <1>2, <2>1 DEF UpdateContext
  <2> QED BY <1>k, <1>o, <1>0, <1>2, <2>2, <2>3, <2>4, StoreStep
<1>3. CASE MarkRunning(c)
  <2>1. k.pc = "start" /\ UpdateContext(c, "RUNNING", Then(c, "candidates"), Then(c, "thrown"))
    BY <1>k, <1>3 DEF MarkRunning, AtStep
  <2> QED BY <1>1, <1>2, <2>1 DEF InStep, Lifecycle!StatusSteps
<1>4. CASE SaveCandidate(c)
  <2>1. k.pc = "candidate" /\ UpdateContext(c, "RUNNING", Then(c, "stage"), Then(c, "fail"))
    BY <1>k, <1>4 DEF SaveCandidate, AtStep
  <2> QED BY <1>1, <1>2, <2>1 DEF InStep, Lifecycle!StatusSteps
<1>5. CASE SaveStage(c)
  <2>1. /\ k.pc = "stageDone"
        /\ \E pc \in {"complete", "stage"} : UpdateContext(c, "RUNNING", Then(c, pc), Then(c, "fail"))
    BY <1>k, <1>5 DEF SaveStage, AtStep
  <2>2. ASSUME NEW pc \in {"complete", "stage"}, NEW row, row.done = k.done, row.status = "RUNNING"
        PROVE  InStep(pc, k.done, row) /\ InStep("fail", k.done, row)
    BY <2>2 DEF InStep
  <2>3. InStep("fail", k.done, old) /\ k.done = old.done + 1
        /\ <<old.status, "RUNNING">> \in Lifecycle!StatusSteps
    BY <1>1, <2>1 DEF InStep, Lifecycle!StatusSteps
  <2> QED BY <1>2, <2>1, <2>2, <2>3
<1>6. CASE CompleteContext(c)
  <2>1. k.pc = "complete" /\ UpdateContext(c, "COMPLETED", Then(c, "result"), Then(c, "fail"))
    BY <1>k, <1>6 DEF CompleteContext, AtStep
  <2>2. k.done = StagesOf(k.mode)
    BY <1>k, <1>0, <2>1 DEF WorkflowInv, WorkflowCallSafe
  <2> QED BY <1>1, <1>2, <2>1, <2>2 DEF InStep, Lifecycle!StatusSteps
<1>7. CASE FailContext(c)
  <2>1. CASE k.pc = "empty" /\ UpdateContext(c, "FAILED", Then(c, "emptyResult"), Then(c, "fail"))
    BY <1>1, <1>2, <2>1 DEF InStep, Lifecycle!StatusSteps
  <2>2. CASE k.pc = "fail" /\ UpdateContext(c, "FAILED", Then(c, "failResult"), Then(c, "thrown"))
    <3>1. \/ old.status = "FAILED" /\ k.done = old.done
          \/ <<old.status, "FAILED">> \in Lifecycle!StatusSteps /\ k.done \in {old.done, old.done + 1}
      BY <1>1, <2>2 DEF InStep, Lifecycle!StatusSteps, WorkflowRow, WorkflowStatuses
    <3> QED BY <1>2, <2>2, <3>1 DEF InStep
  <2> QED BY <1>k, <1>7, <2>1, <2>2 DEF FailContext, AtStep
<1> QED BY <1>3, <1>4, <1>5, <1>6, <1>7

\* The call that runs the workflow is answered what it has stored.
LEMMA AnswerStep ==
  ASSUME LifecycleInv, NEW c \in WorkflowCalls, Runs(workflowCalls[c]), NEW status \in WorkflowStatuses,
         status = workflows[workflowCalls[c].id].status, status \in {"COMPLETED", "FAILED"},
         Answers(c, status),
         NEW row, Lifecycle!Concludes(workflows[workflowCalls[c].id], row),
         workflows' = [workflows EXCEPT ![workflowCalls[c].id] = row]
  PROVE  RunsInStep' /\ LifecycleStep
<1>k. PICK k : k = workflowCalls[c]
  OBVIOUS
<1>w. PICK w \in Workflows : w = k.id
  BY <1>k, RunningFacts DEF LifecycleInv
<1>1. PICK call : call = [k EXCEPT !.pc = "answered", !.answer = status]
  OBVIOUS
<1>2. /\ k \in WorkflowCall /\ k.answer = NoResult /\ HasRow(w) /\ WorkflowInv /\ ~k.duplicate
      /\ workflowCalls \in [WorkflowCalls -> WorkflowCall]
      /\ workflows \in [Workflows -> WorkflowRow \union {NO_WORKFLOW}]
  BY <1>k, <1>w, RunningFacts DEF LifecycleInv, WorkflowInv, WorkflowTypeOK, RunsInStep, Runs
<1>3. /\ call.pc = "answered" /\ call.id = w /\ call.answer = status /\ ~call.duplicate
      /\ ~Runs(call) /\ Becomes(c, call) /\ Tells(call, w)
  BY <1>k, <1>w, <1>1, <1>2 DEF WorkflowCall, Answers, Runs, Tells, NoResult
<1>4. workflowCalls'[c] = call /\ \A d \in WorkflowCalls \ {c} : workflowCalls'[d] = workflowCalls[d]
  BY <1>2, <1>3 DEF Becomes
<1>5. workflows'[w] = row /\ workflows' = [workflows EXCEPT ![w] = workflows'[w]]
      /\ \A v \in Workflows \ {w} : workflows'[v] = workflows[v]
  BY <1>k, <1>w, <1>2
<1>6. \A d \in WorkflowCalls : Owns(workflowCalls[d]) /\ workflowCalls[d].id = w => d = c
  BY <1>k, <1>w, <1>2, RunnerIsAlone
<1>7. RunsInStep'
  <2>1. ASSUME NEW d \in WorkflowCalls \ {c}, Runs(workflowCalls[d])
        PROVE  workflows'[workflowCalls[d].id] = workflows[workflowCalls[d].id]
    BY <1>2, <1>5, <1>6, <2>1, RunningFacts DEF Owns
  <2> QED BY <1>3, <2>1, OthersInStep
<1>8. Runners[w] # {} /\ Runners' = [Runners EXCEPT ![w] = {}]
  <2>1. \A d \in WorkflowCalls : RunsWorkflow(d)' <=> Runs(workflowCalls'[d])
    BY DEF RunsWorkflow, Runs, Over, AtStep
  <2>2. \A v \in Workflows : Runner(v)' = {d \in WorkflowCalls : Runs(workflowCalls'[d]) /\ workflowCalls'[d].id = v}
    BY <2>1 DEF Runner
  <2>3. \A v \in Workflows : Runner(v)' = IF v = w THEN {} ELSE Runner(v)
    <3> SUFFICES ASSUME NEW v \in Workflows PROVE Runner(v)' = IF v = w THEN {} ELSE Runner(v)
      OBVIOUS
    <3>1. \A d \in WorkflowCalls :
            Runs(workflowCalls'[d]) /\ workflowCalls'[d].id = v
              <=> v # w /\ Runs(workflowCalls[d]) /\ workflowCalls[d].id = v
      BY <1>k, <1>w, <1>3, <1>4, <1>6 DEF Owns
    <3>2. Runner(v) = {d \in WorkflowCalls : Runs(workflowCalls[d]) /\ workflowCalls[d].id = v}
      BY RunnersAndTold
    <3>3. CASE v = w
      BY <2>2, <3>1, <3>3
    <3>4. CASE v # w
      BY <2>2, <3>1, <3>2, <3>4
    <3> QED BY <3>3, <3>4
  <2>4. c \in Runner(w)
    BY <1>k, <1>w, RunnersAndTold
  <2> QED BY <2>3, <2>4 DEF Runners
<1>9. Answered' = [Answered EXCEPT ![w] = {status}]
  <2>1. \A v \in Workflows :
          Told(v)' = {workflowCalls'[d].answer : d \in {e \in WorkflowCalls : Tells(workflowCalls'[e], v)}}
    BY DEF Told, Tells
  <2>2. \A d \in WorkflowCalls : Tells(workflowCalls'[d], w) <=> d = c
    BY <1>3, <1>4, <1>6 DEF Tells, Owns
  <2>3. Told(w)' = {status}
    BY <1>3, <1>4, <2>1, <2>2
  <2>4. ASSUME NEW v \in Workflows, v # w PROVE Told(v)' = Told(v)
    <3>1. \A d \in WorkflowCalls :
            /\ Tells(workflowCalls'[d], v) <=> Tells(workflowCalls[d], v)
            /\ Tells(workflowCalls[d], v) => workflowCalls'[d].answer = workflowCalls[d].answer
      BY <1>k, <1>w, <1>2, <1>3, <1>4, <2>4 DEF Tells
    <3> QED BY <3>1 DEF Told, Tells
  <2> QED BY <2>3, <2>4 DEF Answered
<1>10. Lifecycle!Answer(w)
  BY <1>k, <1>w, <1>2, <1>5, <1>8, <1>9 DEF Lifecycle!Answer, Runners, Answered, HasRow
<1>11. LifecycleStep
  BY <1>10 DEF LifecycleStep, Lifecycle!Next
<1> QED BY <1>7, <1>11

\* CompleteResult and FailResult.
LEMMA ResultsConclude ==
  ASSUME LifecycleInv, NEW c \in WorkflowCalls, CompleteResult(c) \/ FailResult(c)
  PROVE  RunsInStep' /\ LifecycleStep
<1>k. PICK k : k = workflowCalls[c]
  OBVIOUS
<1>o. PICK old : old = workflows[k.id]
  OBVIOUS
<1>0. Runs(k) /\ k.pc \in {"result", "emptyResult", "failResult"} /\ WorkflowInv
  BY <1>k DEF CompleteResult, FailResult, AtStep, Runs, LifecycleInv
<1>1. old \in WorkflowRow /\ InStep(k.pc, k.done, old)
  BY <1>k, <1>o, <1>0, RunningFacts DEF LifecycleInv, RunsInStep
<1>2. ASSUME NEW status \in {"COMPLETED", "FAILED"}, old.status = status,
             NEW otherwise \in {"fail", "thrown"}, otherwise = "fail" => old.done = k.done,
             UpdateResult(c, status, Answers(c, status), Then(c, otherwise))
      PROVE  RunsInStep' /\ LifecycleStep
  <2>1. PICK row : row = [old EXCEPT !.status = status, !.result = status]
    OBVIOUS
  <2>2. row = [old EXCEPT !.result = old.status] /\ row.status = status /\ row.done = old.done
    BY <1>1, <1>2, <2>1 DEF WorkflowRow
  <2>3. Lifecycle!Concludes(old, row)
    BY <1>2, <2>2 DEF Lifecycle!Concludes
  <2>4. InStep(otherwise, k.done, row) /\ InStep(otherwise, k.done, old)
    <3>1. row.done \in Nat /\ old.done \in Nat
      BY <1>1, <2>2 DEF WorkflowRow
    <3> QED BY <1>2, <2>2, <3>1 DEF InStep
  <2>5. CASE UpdateRow(c, row) /\ Answers(c, status)
    BY <1>k, <1>o, <1>0, <1>2, <2>3, <2>5, AnswerStep DEF UpdateRow, WorkflowStatuses
  <2>6. CASE UpdateRow(c, row) /\ Then(c, otherwise)
    BY <1>k, <1>o, <1>0, <2>3, <2>4, <2>6, PassOn DEF UpdateRow
  <2>7. CASE UNCHANGED workflows /\ Then(c, otherwise)
    <3>1. workflows' = [workflows EXCEPT ![k.id] = old]
      BY <1>o, <1>0, <2>7, RowsKept
    <3> QED BY <1>k, <1>o, <1>0, <2>4, <2>7, <3>1, PassOn
  <2> QED BY <1>k, <1>o, <1>2, <2>1, <2>5, <2>6, <2>7 DEF UpdateResult, Store
<1>3. CASE CompleteResult(c)
  <2>1. k.pc = "result" /\ UpdateResult(c, "COMPLETED", Answers(c, "COMPLETED"), Then(c, "fail"))
    BY <1>k, <1>3 DEF CompleteResult, AtStep
  <2> QED BY <1>1, <1>2, <2>1 DEF InStep
<1>4. CASE FailResult(c)
  <2>1. PICK otherwise \in {"fail", "thrown"} :
          /\ k.pc = IF otherwise = "fail" THEN "emptyResult" ELSE "failResult"
          /\ UpdateResult(c, "FAILED", Answers(c, "FAILED"), Then(c, otherwise))
    BY <1>k, <1>4 DEF FailResult, AtStep
  <2> QED BY <1>1, <1>2, <2>1 DEF InStep
<1> QED BY <1>3, <1>4

\* The steps between the writes of the call that runs the workflow.
LEMMA CallsGoOn ==
  ASSUME LifecycleInv, NEW c \in WorkflowCalls, Runs(workflowCalls[c]),
         SaveOwnership(c) \/ CollectCandidates(c) \/ ExecuteStage(c) \/ WorkflowCallDies(c)
  PROVE  RunsInStep' /\ LifecycleStep
<1>k. PICK k : k = workflowCalls[c]
  OBVIOUS
<1>o. PICK old : old = workflows[k.id]
  OBVIOUS
<1>0. /\ UNCHANGED workflows /\ WorkflowInv
      /\ SaveOwnership(c) \/ CollectCandidates(c) \/ ExecuteStage(c) => k.pc \in {"own", "candidates", "stage"}
  BY <1>k DEF SaveOwnership, CollectCandidates, ExecuteStage, WorkflowCallDies, AtStep, LifecycleInv
<1>1. /\ k \in WorkflowCall /\ k.answer = NoResult /\ ~k.duplicate /\ old \in WorkflowRow
      /\ k.done \in 0 .. 8 /\ old.done \in 0 .. 8 /\ InStep(k.pc, k.done, old)
  BY <1>k, <1>o, <1>0, RunningFacts DEF LifecycleInv, RunsInStep, Runs
<1>2. workflows' = [workflows EXCEPT ![k.id] = old]
  BY <1>o, <1>0, RowsKept
<1>3. ASSUME NEW pc, Then(c, pc), InStep(pc, k.done, old)
      PROVE  RunsInStep' /\ LifecycleStep
  BY <1>k, <1>o, <1>2, <1>3, PassOn
<1>4. CASE SaveOwnership(c)
  <2>1. k.pc = "own" /\ (Then(c, "start") \/ Then(c, "thrown"))
    BY <1>k, <1>4 DEF SaveOwnership, AtStep
  <2> QED BY <1>1, <1>3, <2>1 DEF InStep
<1>5. CASE CollectCandidates(c)
  <2>1. k.pc = "candidates" /\ (Then(c, "candidate") \/ Then(c, "empty") \/ Then(c, "fail"))
    BY <1>k, <1>5 DEF CollectCandidates, AtStep
  <2> QED BY <1>1, <1>3, <2>1 DEF InStep
<1>6. CASE WorkflowCallDies(c)
  <2>1. InStep("thrown", k.done, old)
    BY DEF InStep
  <2> QED BY <1>3, <1>6, <2>1 DEF WorkflowCallDies
<1>7. CASE ExecuteStage(c)
  <2>1. k.pc = "stage" /\ (Becomes(c, [k EXCEPT !.pc = "stageDone", !.done = @ + 1]) \/ Then(c, "fail"))
    BY <1>k, <1>7 DEF ExecuteStage, AtStep
  <2>2. CASE Then(c, "fail")
    BY <1>1, <1>3, <2>1, <2>2 DEF InStep
  <2>3. CASE Becomes(c, [k EXCEPT !.pc = "stageDone", !.done = @ + 1])
    <3>1. PICK call : call = [k EXCEPT !.pc = "stageDone", !.done = @ + 1]
      OBVIOUS
    <3>2. /\ call.pc = "stageDone" /\ call.done = k.done + 1 /\ call.id = k.id /\ call.answer = NoResult
          /\ ~call.duplicate
      BY <1>1, <3>1 DEF WorkflowCall
    <3>3. InStep(call.pc, call.done, old)
      BY <1>1, <2>1, <3>2 DEF InStep
    <3>4. /\ Becomes(c, call) /\ call.id = workflowCalls[c].id /\ old = workflows[call.id]
          /\ workflows' = [workflows EXCEPT ![call.id] = old]
      BY <1>k, <1>o, <1>2, <2>3, <3>1, <3>2
    <3> QED BY <3>2, <3>3, <3>4, RowStep
  <2> QED BY <2>1, <2>2, <2>3
<1> QED BY <1>4, <1>5, <1>6, <1>7

\* What is known of the lifecycle when a call moves that owned nothing.
LEMMA NonOwnerMoves ==
  ASSUME WorkflowInv, NEW c \in WorkflowCalls, ~Owns(workflowCalls[c]), NEW call, Becomes(c, call),
         call.answer = NoResult \/ call.duplicate
  PROVE  /\ Answered' = Answered
         /\ \A w \in Workflows :
              Runners'[w] = IF Runs(call) /\ call.id = w THEN Runners[w] \union {c} ELSE Runners[w]
<1>1. workflowCalls'[c] = call /\ \A d \in WorkflowCalls \ {c} : workflowCalls'[d] = workflowCalls[d]
  BY DEF Becomes, WorkflowInv, WorkflowTypeOK
<1>2. ASSUME NEW w \in Workflows PROVE Told(w)' = Told(w)
  <2>1. \A d \in WorkflowCalls :
          /\ Tells(workflowCalls'[d], w) <=> Tells(workflowCalls[d], w)
          /\ Tells(workflowCalls[d], w) => workflowCalls'[d].answer = workflowCalls[d].answer
    BY <1>1 DEF Tells, Owns
  <2> QED BY <2>1 DEF Told, Tells
<1>3. ASSUME NEW w \in Workflows
      PROVE  Runner(w)' = IF Runs(call) /\ call.id = w THEN Runner(w) \union {c} ELSE Runner(w)
  <2>1. \A d \in WorkflowCalls : RunsWorkflow(d)' <=> Runs(workflowCalls'[d])
    BY DEF RunsWorkflow, Runs, Over, AtStep
  <2>2. Runner(w)' = {d \in WorkflowCalls : Runs(workflowCalls'[d]) /\ workflowCalls'[d].id = w}
    BY <2>1 DEF Runner
  <2>3. Runner(w) = {d \in WorkflowCalls : Runs(workflowCalls[d]) /\ workflowCalls[d].id = w}
    BY RunnersAndTold
  <2>4. CASE Runs(call) /\ call.id = w
    BY <1>1, <2>2, <2>3, <2>4
  <2>5. CASE ~(Runs(call) /\ call.id = w)
    BY <1>1, <2>2, <2>3, <2>5 DEF Owns
  <2> QED BY <2>4, <2>5
<1> QED BY <1>2, <1>3 DEF Answered, Runners

\* Nothing happens to a workflow when such a call goes on without one.
LEMMA NonOwnerStays ==
  ASSUME LifecycleInv, NEW c \in WorkflowCalls, ~Owns(workflowCalls[c]), NEW call, Becomes(c, call),
         call.answer = NoResult \/ call.duplicate, call.pc # "answered" => ~call.duplicate, ~Runs(call),
         UNCHANGED workflows
  PROVE  RunsInStep' /\ LifecycleStep
<1>1. RunsInStep'
  BY OthersInStep
<1>2. Runners' = Runners /\ Answered' = Answered
  BY NonOwnerMoves DEF LifecycleInv, Runners
<1> QED BY <1>1, <1>2 DEF LifecycleStep, Lifecycle!lifecycleVars, Runners, Answered

LEMMA ReplayStays ==
  ASSUME LifecycleInv, NEW c \in WorkflowCalls, ~Owns(workflowCalls[c]), NEW k \in WorkflowCall,
         Replay(c, k), UNCHANGED workflows
  PROVE  RunsInStep' /\ LifecycleStep
<1>1. PICK call : call = [k EXCEPT !.pc = "answered", !.duplicate = TRUE,
                                   !.answer = Replayed(workflows[k.id])]
  OBVIOUS
<1>2. call.pc = "answered" /\ call.duplicate /\ ~Runs(call) /\ Becomes(c, call)
  BY <1>1 DEF WorkflowCall, Runs, Replay
<1> QED BY <1>2, NonOwnerStays

LEMMA ThenStays ==
  ASSUME LifecycleInv, NEW c \in WorkflowCalls, ~Owns(workflowCalls[c]),
         workflowCalls[c].pc # "answered", NEW pc \in {"winner", "thrown"}, Then(c, pc),
         UNCHANGED workflows
  PROVE  RunsInStep' /\ LifecycleStep
<1>1. PICK call : call = [workflowCalls[c] EXCEPT !.pc = pc]
  OBVIOUS
<1>2. /\ workflowCalls[c] \in WorkflowCall /\ ~workflowCalls[c].duplicate
      /\ workflowCalls[c].answer = NoResult
  BY DEF LifecycleInv, WorkflowInv, WorkflowCallSafe, RunsInStep
<1>3. /\ call.pc = pc /\ call.answer = NoResult /\ ~call.duplicate /\ ~Runs(call) /\ Becomes(c, call)
  BY <1>1, <1>2 DEF WorkflowCall, Runs, Then
<1> QED BY <1>3, NonOwnerStays

LEMMA WorkflowCreated ==
  ASSUME LifecycleInv, NEW c \in WorkflowCalls, SaveRow(c)
  PROVE  RunsInStep' /\ LifecycleStep
<1>k. PICK k : k = workflowCalls[c]
  OBVIOUS
<1>1. /\ k \in WorkflowCall /\ k.pc = "save" /\ k.id \in Workflows /\ k.answer = NoResult /\ k.done = 0
      /\ ~Owns(k) /\ ~k.duplicate /\ WorkflowInv
  BY <1>k DEF SaveRow, AtStep, LifecycleInv, WorkflowInv, WorkflowCallSafe, Owns, Runs, RunsInStep
<1>w. PICK w \in Workflows : w = k.id
  BY <1>1
<1>2. CASE (Then(c, "thrown") \/ (HasRow(w) /\ Then(c, "winner"))) /\ UNCHANGED workflows
  BY <1>k, <1>1, <1>2, ThenStays
<1>3. ASSUME MayCreateRow(w), workflows' = [workflows EXCEPT ![w] = Lifecycle!Created(k.mode)],
             NEW pc \in {"own", "winner"}, Then(c, pc)
      PROVE  RunsInStep' /\ LifecycleStep
  <2>1. PICK call : call = [k EXCEPT !.pc = pc]
    OBVIOUS
  <2>2. /\ call.pc = pc /\ call.id = w /\ call.answer = NoResult /\ ~call.duplicate /\ call.done = 0
        /\ Becomes(c, call)
        /\ Runs(call) <=> pc = "own"
    BY <1>k, <1>w, <1>1, <1>3, <2>1 DEF WorkflowCall, Then, Runs
  <2>3. /\ workflows[w] = NO_WORKFLOW /\ workflows'[w] = Lifecycle!Created(k.mode)
        /\ \A v \in Workflows \ {w} : workflows'[v] = workflows[v]
    BY <1>1, <1>3 DEF MayCreateRow, HasRow, WorkflowInv, WorkflowTypeOK
  <2>4. \A d \in WorkflowCalls : Runs(workflowCalls[d]) =>
          workflowCalls[d].id \in Workflows /\ workflowCalls[d].id # w
    BY <1>1, <2>3, RunningFacts DEF HasRow
  <2>5. RunsInStep'
    <3>1. Runs(call) => InStep(call.pc, call.done, workflows'[w])
      BY <2>2, <2>3 DEF InStep, Lifecycle!Created
    <3>2. \A d \in WorkflowCalls \ {c} : Runs(workflowCalls[d]) =>
            workflows'[workflowCalls[d].id] = workflows[workflowCalls[d].id]
      BY <2>3, <2>4
    <3> QED BY <2>2, <3>1, <3>2, OthersInStep
  <2>6. Runners[w] = {}
    BY <2>4, RunnersAndTold DEF Runners
  <2>7. /\ Answered' = Answered
        /\ Runners' = Runners \/ Runners' = [Runners EXCEPT ![w] = {c}]
    <3>1. /\ Answered' = Answered
          /\ \A v \in Workflows :
               Runners'[v] = IF Runs(call) /\ call.id = v THEN Runners[v] \union {c} ELSE Runners[v]
      BY <1>k, <1>1, <2>2, NonOwnerMoves
    <3> QED BY <2>2, <2>6, <3>1 DEF Runners
  <2>8. k.mode \in {"full", "dry-run"}
    BY <1>1 DEF WorkflowCall
  <2>9. Lifecycle!Create(w)
    BY <1>3, <2>3, <2>7, <2>8 DEF Lifecycle!Create, Runners, Answered
  <2> QED BY <2>5, <2>9 DEF LifecycleStep, Lifecycle!Next
<1>4. Lifecycle!Created(k.mode) = [status |-> "PENDING", mode |-> k.mode, done |-> 0, result |-> NoResult]
  BY DEF Lifecycle!Created, NoResult
<1> QED BY <1>k, <1>w, <1>2, <1>3, <1>4 DEF SaveRow

LEMMA LifecycleInit ==
  ASSUME WorkflowInit
  PROVE  LifecycleInv /\ Lifecycle!Init
<1>1. \A c \in WorkflowCalls : /\ workflowCalls[c].pc = "idle" /\ workflowCalls[c].answer = NoResult
                                /\ ~workflowCalls[c].duplicate
  BY DEF WorkflowInit, IdleWorkflowCall
<1>2. \A w : Runner(w) = {} /\ Told(w) = {}
  BY <1>1 DEF Runner, Told, RunsWorkflow, Over
<1>3. RunsInStep
  BY <1>1 DEF RunsInStep, Runs
<1> QED BY <1>2, <1>3, WorkflowInvInit DEF LifecycleInv, Lifecycle!Init, WorkflowInit

LEMMA LifecycleNext ==
  ASSUME LifecycleInv, [WorkflowNext]_workflowVars
  PROVE  LifecycleInv' /\ LifecycleStep
<1>1. WorkflowInv'
  BY WorkflowInvNext DEF LifecycleInv
<1>2. CASE UNCHANGED workflowVars
  <2>1. RunsInStep'
    BY <1>2 DEF workflowVars, LifecycleInv, RunsInStep
  <2>2. Runners' = Runners /\ Answered' = Answered /\ UNCHANGED workflows
    BY <1>2 DEF workflowVars, Runners, Answered, Runner, Told, RunsWorkflow, Over, AtStep
  <2> QED BY <1>1, <2>1, <2>2
          DEF LifecycleInv, LifecycleStep, Lifecycle!lifecycleVars, Runners, Answered
<1>3. CASE WorkflowNext
  <2> SUFFICES RunsInStep' /\ LifecycleStep
    BY <1>1 DEF LifecycleInv
  <2>c. PICK c \in WorkflowCalls :
          \/ ExecuteWorkflow(c) \/ SaveRow(c) \/ SaveOwnership(c) \/ ReplayWinner(c)
          \/ MarkRunning(c) \/ CollectCandidates(c) \/ SaveCandidate(c)
          \/ ExecuteStage(c) \/ SaveStage(c) \/ CompleteContext(c) \/ CompleteResult(c)
          \/ FailContext(c) \/ FailResult(c) \/ WorkflowCallDies(c)
    BY <1>3 DEF WorkflowNext
  <2>0. WorkflowCallSafe(workflowCalls[c]) /\ workflowCalls[c] \in WorkflowCall
    BY DEF LifecycleInv, WorkflowInv, WorkflowCallSafe
  <2>1. CASE ExecuteWorkflow(c)
    <3>1. ~Owns(workflowCalls[c])
      BY <2>0, <2>1 DEF ExecuteWorkflow, AtStep, Owns, Runs, WorkflowCallSafe
    <3>2. PICK w \in Workflows, mode \in {"full", "dry-run"} :
            LET call == [IdleWorkflowCall EXCEPT !.pc = "save", !.id = w, !.mode = mode]
            IN (Replay(c, call) \/ Becomes(c, call)) /\ UNCHANGED workflows
      BY <2>1 DEF ExecuteWorkflow
    <3>3. PICK call : call = [IdleWorkflowCall EXCEPT !.pc = "save", !.id = w, !.mode = mode]
      OBVIOUS
    <3>4. /\ call \in WorkflowCall /\ call.pc = "save" /\ call.answer = NoResult /\ ~call.duplicate
          /\ ~Runs(call)
      <4>1. /\ IdleWorkflowCall \in WorkflowCall /\ IdleWorkflowCall.answer = NoResult
            /\ ~IdleWorkflowCall.duplicate
        BY DEF IdleWorkflowCall, WorkflowCall, WorkflowStatuses
      <4> QED BY <3>3, <4>1 DEF WorkflowCall, Runs
    <3>5. (Replay(c, call) \/ Becomes(c, call)) /\ UNCHANGED workflows
      BY <3>2, <3>3
    <3> QED BY <3>1, <3>4, <3>5, ReplayStays, NonOwnerStays
  <2>2. CASE ReplayWinner(c)
    <3>1. ~Owns(workflowCalls[c])
      BY <2>0, <2>2 DEF ReplayWinner, AtStep, Owns, Runs, WorkflowCallSafe
    <3> QED BY <2>0, <2>2, <3>1, ReplayStays DEF ReplayWinner
  <2>3. CASE WorkflowCallDies(c)
    <3>1. CASE Runs(workflowCalls[c])
      BY <2>3, <3>1, CallsGoOn
    <3>2. CASE ~Runs(workflowCalls[c])
      <4>1. ~Owns(workflowCalls[c]) /\ workflowCalls[c].pc # "answered"
        BY <2>0, <2>3, <3>2 DEF WorkflowCallDies, Over, Owns, WorkflowCallSafe
      <4> QED BY <2>3, <4>1, ThenStays DEF WorkflowCallDies
    <3> QED BY <3>1, <3>2
  <2>4. CASE SaveOwnership(c) \/ CollectCandidates(c) \/ ExecuteStage(c)
    <3>1. Runs(workflowCalls[c])
      BY <2>4 DEF SaveOwnership, CollectCandidates, ExecuteStage, AtStep, Runs
    <3> QED BY <2>4, <3>1, CallsGoOn
  <2> QED BY <2>c, <2>1, <2>2, <2>3, <2>4, WorkflowCreated, ContextsContinue, ResultsConclude
<1> QED BY <1>2, <1>3

\* However the requests of one idempotency key overlap, fail to write, lose answers or die:
\* a workflow is created by one call, which runs it alone; its stored context goes from
\* stage to stage and is COMPLETED with the last; it is told to its caller as it is stored;
\* and then, or when that call is lost, nobody touches it again (executeWorkflow,
\* runPipeline and failWorkflow).
THEOREM WorkflowsImplementLifecycle ==
  WorkflowSpec => Lifecycle!Spec /\ ImplementsWorkflowLifecycle
<1>1. WorkflowInit => LifecycleInv /\ Lifecycle!Init
  BY LifecycleInit
<1>2. LifecycleInv /\ [WorkflowNext]_workflowVars =>
        /\ LifecycleInv'
        /\ [Lifecycle!Next]_(Lifecycle!lifecycleVars)
        /\ [UNCHANGED workflowVars \/ Lifecycle!Next]_(Lifecycle!lifecycleVars)
  BY LifecycleNext DEF LifecycleStep
<1> QED BY <1>1, <1>2, PTL DEF WorkflowSpec, Lifecycle!Spec, ImplementsWorkflowLifecycle
=============================================================================
