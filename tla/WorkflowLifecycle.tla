-------------------------- MODULE WorkflowLifecycle --------------------------
(***************************************************************************)
(* What the engine promises of a workflow, whatever requests with its key  *)
(* overlap, writes fail and answers are lost: it is created once, by a     *)
(* call that alone runs it; its stages are stored one after another and    *)
(* none is taken back; it is COMPLETED with all of them, and FAILED for    *)
(* good; its caller is told what was stored; and when that call is over,   *)
(* nothing about the workflow changes any more.                            *)
(***************************************************************************)
EXTENDS Naturals

CONSTANTS Workflows, Calls, NONE

VARIABLES
  row,     \* row[w]: what is stored of w
  runner,  \* runner[w]: the call that runs w, if one does
  told     \* told[w]: what that call was answered

lifecycleVars == <<row, runner, told>>

NumStages(mode) == IF mode = "dry-run" THEN 5 ELSE 8

Created(mode) == [status |-> "PENDING", mode |-> mode, done |-> 0, result |-> "none"]

Init ==
  /\ row = [w \in Workflows |-> NONE]
  /\ runner = [w \in Workflows |-> {}]
  /\ told = [w \in Workflows |-> {}]

\* The call may be lost as soon as the workflow is created.
Create(w) ==
  /\ row[w] = NONE
  /\ \E mode \in {"full", "dry-run"} : row' = [row EXCEPT ![w] = Created(mode)]
  /\ UNCHANGED runner \/ \E c \in Calls : runner' = [runner EXCEPT ![w] = {c}]
  /\ UNCHANGED told

StatusSteps ==
  {<<"PENDING", "RUNNING">>, <<"RUNNING", "RUNNING">>, <<"RUNNING", "COMPLETED">>,
   <<"RUNNING", "FAILED">>, <<"COMPLETED", "FAILED">>}

\* The context goes on by a stage at most; the result follows the status.
Continues(old, new) ==
  /\ new.mode = old.mode /\ new.result = old.result
  /\ new.done \in {old.done, old.done + 1}
  /\ <<old.status, new.status>> \in StatusSteps
  /\ new.status = "COMPLETED" => new.done = NumStages(new.mode)

Concludes(old, new) ==
  /\ old.status \in {"COMPLETED", "FAILED"}
  /\ new = [old EXCEPT !.result = old.status]

\* The runner goes on, or is lost with the write or before it.
Work(w) ==
  /\ runner[w] # {} /\ row[w] # NONE
  /\ row'[w] = row[w] \/ Continues(row[w], row'[w]) \/ Concludes(row[w], row'[w])
  /\ row' = [row EXCEPT ![w] = row'[w]]
  /\ UNCHANGED runner \/ runner' = [runner EXCEPT ![w] = {}]
  /\ UNCHANGED told

Answer(w) ==
  /\ runner[w] # {} /\ row[w] # NONE
  /\ Concludes(row[w], row'[w])
  /\ row' = [row EXCEPT ![w] = row'[w]]
  /\ runner' = [runner EXCEPT ![w] = {}]
  /\ told' = [told EXCEPT ![w] = {row[w].status}]

Next == \E w \in Workflows : Create(w) \/ Work(w) \/ Answer(w)

Spec == Init /\ [][Next]_lifecycleVars
=============================================================================
