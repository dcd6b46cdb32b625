----------------------------- MODULE MCAnalysis ------------------------------
(***************************************************************************)
(* A small instance of what lies at the two ends of a job: the dashboard   *)
(* page that follows it, and the tables that its engines keep.  They have  *)
(* no state in common, so that each is explored by itself: focus chooses   *)
(* the one that runs, and the other stays as it starts.                    *)
(***************************************************************************)
EXTENDS Ec2JobDashboard, Ec2Inventory, TLC

CONSTANTS j1, j2, j3, s1

MCScopeOf == [j \in Jobs |-> s1]

VARIABLE focus

AnalysisInit ==
  /\ focus \in {"dashboard", "inventory"}
  /\ DashboardInit /\ InventoryInit
  /\ focus # "dashboard" => ~stageCompletion
  /\ focus # "inventory" =>
       resources = [i \in Instances |-> NoResource] /\ pageSize = NumInstances

DashboardStep == focus = "dashboard" /\ DashboardNext /\ UNCHANGED <<focus, inventoryVars>>

InventoryStep == focus = "inventory" /\ InventoryNext /\ UNCHANGED <<focus, dashboardVars>>

AnalysisSpec ==
  AnalysisInit /\ [][DashboardStep \/ InventoryStep]_<<focus, dashboardVars, inventoryVars>>

\* Of the jobs that are started from the page; the runs of the engines are named for them.
Symmetry == Permutations({j2, j3})

\* The answers of a poller of an earlier generation are ignored for ever: what counts is that
\* the page has it.
PollersView == {IF p.gen = generation THEN p ELSE NONE : p \in pollers}

\* An analysis asks of an instance only if a rule applies to it: one that it knows and one
\* that it does not are the same to it.
RunsView ==
  [r \in EngineRuns |->
     IF Run(r).engine = "discovery" THEN Run(r)
     ELSE [Run(r) EXCEPT !.view = [i \in Instances |-> @[i] = "flagged"]]]

\* What TLC tells states apart by: the state of the one part that is explored.  The other is
\* the same in all states of one focus; states that are taken for one have the same future.
View ==
  CASE focus = "dashboard" ->
         <<focus, backend, tracked, PollersView, historyItems, starts, list, refreshed>>
    [] focus = "inventory" -> <<focus, untouched, RunsView>>

AnalysisTypeOK ==
  /\ focus = "dashboard" => DashboardTypeOK
  /\ focus = "inventory" => InventoryTypeOK
==============================================================================
