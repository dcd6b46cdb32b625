----------------------------- MODULE Ec2Inventory -----------------------------
(***************************************************************************)
(* What the three EC2 engines do to the tables of one account and region:  *)
(* discovery keeps the inventory; the security and the cost analysis read  *)
(* it and keep their findings and recommendations.  Runs overlap (two jobs *)
(* of one scope, a lease that was taken over, a synchronous request), fail *)
(* between any two table accesses and are repeated.  What AWS answers, and *)
(* what the rules say of it, is open; one security check and one cost      *)
(* category stand for all.  The run rows are those of Ec2StageRun.  No     *)
(* code acknowledges or dismisses a finding, so that none here is.  No     *)
(* read is consistent: a list shows any of its rows as it was one write    *)
(* before; an upsert that reads so is refused, and dies (RunDies).         *)
(***************************************************************************)
EXTENDS Naturals, FiniteSets

CONSTANTS
  NumInstances,  \* bound: the instances, numbered in the order of their sort keys
  EngineRuns     \* bound: the runs

ASSUME InventoryAssumption == NumInstances \in Nat \ {0}

Instances == 1 .. NumInstances

VARIABLES
  resources,        \* the inventory rows
  findings,         \* the security findings
  recommendations,  \* the cost recommendations
  summary,          \* the run that wrote the region's security summary
  engineRuns,
  pageSize          \* MAX_PAGE_SIZE, in proportion to the account: some fit a page

inventoryVars == <<resources, findings, recommendations, summary, engineRuns, pageSize>>

untouched == <<resources, findings, recommendations, summary, pageSize>>

\* What a run holds true of an instance; flagged: a rule applies to it.
Views == {"absent", "clear", "flagged"}

\* A row with its version, 0 where there is none, and the metadata of an inventory row.
ResourceRow == [version : Nat, status : {"ACTIVE", "NOT_SEEN"}, view : Views]
FindingRow == [version : Nat, status : {"OPEN", "RESOLVED"}]

NoResource == [version |-> 0, status |-> "NOT_SEEN", view |-> "absent"]
NoFinding == [version |-> 0, status |-> "RESOLVED"]

Engines == {"discovery", "security", "cost"}

\* An engine run.  at and read: the row of an upsert and the version that was read; marks:
\* the versions of the rows that were listed and will be closed; next: where the list goes
\* on.  alone, lapsed and sighted are history: has the run overlapped with none of its
\* engine, has a list of it lagged or a mark of it failed and the run gone on, and which of
\* its marks has another written since it listed them?
EngineRun ==
  [engine : Engines \union {"none"},
   pc : {"idle", "upsert", "put", "close", "complete", "over"},
   view : [Instances -> Views], todo : SUBSET Instances, at : 0 .. NumInstances, read : Nat,
   marks : [Instances -> Nat], next : 0 .. NumInstances, alone : BOOLEAN, lapsed : BOOLEAN,
   sighted : SUBSET Instances]

NoMarks == [i \in Instances |-> 0]

IdleEngineRun ==
  [engine |-> "none", pc |-> "idle", view |-> [i \in Instances |-> "absent"], todo |-> {},
   at |-> 0, read |-> 0, marks |-> NoMarks, next |-> 0, alone |-> TRUE, lapsed |-> FALSE, sighted |-> {}]

\* What earlier runs may have left: no finding is without its instance.  One of the analyses
\* has not run before, since they write no table in common; what is NOT_SEEN or RESOLVED,
\* the runs that are modelled make so.
InventoryInit ==
  /\ resources \in [Instances -> {NoResource} \union
       [version : {1}, status : {"ACTIVE"}, view : {"clear", "flagged"}]]
  /\ findings \in [Instances -> {NoFinding} \union [version : {1}, status : {"OPEN"}]]
  /\ recommendations \in [Instances -> {NoFinding} \union [version : {1}, status : {"OPEN"}]]
  /\ \A i \in Instances :
       resources[i] = NoResource => findings[i] = NoFinding /\ recommendations[i] = NoFinding
  /\ {NoFinding} \in {{findings[i] : i \in Instances}, {recommendations[i] : i \in Instances}}
  /\ summary = "none"
  /\ pageSize \in Instances
  /\ engineRuns = [r \in EngineRuns |-> IdleEngineRun]

(* Lists.  late: the rows that a list shows as they were before their last write. *)

Exists(table, i) == table[i].version > 0

\* The first n of a set of rows.
FirstOf(rows, n) == {i \in rows : Cardinality({k \in rows : k <= i}) <= n}

\* The rows of a query that goes on after a row: a late row that is new is not among them.
Rows(table, after, late) ==
  {i \in Instances : i > after /\ Exists(table, i) /\ ~(i \in late /\ table[i].version = 1)}

ListResourcesInScope(late) == FirstOf(Rows(resources, 0, late), pageSize)

\* A late row that is OPEN was RESOLVED, or OPEN as if it were not late; one that is RESOLVED
\* was OPEN, since only such rows are resolved.
ShownOpen(table, i, late) == table[i].status = (IF i \in late THEN "RESOLVED" ELSE "OPEN")

\* listFindings and listRecommendations: the status is asked of twice a page of rows.
ListOpen(table, after, late) ==
  FirstOf({i \in FirstOf(Rows(table, after, late), 2 * pageSize) : ShownOpen(table, i, late)}, pageSize)

\* The versions of the rows that a run will close.  A late row is not among them: if it was
\* to be closed its mark is refused, which the run does not survive (RunDies) or, of a
\* finding, does not heed.
Versions(table, rows) == [i \in Instances |-> IF i \in rows THEN table[i].version ELSE 0]

(* Runs. *)

Run(r) == engineRuns[r]
RunIsAt(r, engine, pc) == Run(r).engine = engine /\ Run(r).pc = pc
Live(r) == Run(r).pc \notin {"idle", "over"}
Step(r, run) == engineRuns' = [engineRuns EXCEPT ![r] = run]
RunOver(r) == Step(r, [IdleEngineRun EXCEPT !.pc = "over"])

\* A run, which was created or claimed from a worker that may still be at it, has its
\* first answer.
BeginRun(r, run) ==
  /\ Run(r).pc = "idle"
  /\ engineRuns' = [q \in EngineRuns |->
       IF q = r THEN [run EXCEPT !.alone = \A o \in EngineRuns : Run(o).engine # run.engine]
       ELSE IF Run(q).engine = run.engine THEN [Run(q) EXCEPT !.alone = FALSE] ELSE Run(q)]

\* A crash, an access that fails, or AWS that does: the run is FAILED, if by its takeover.
\* So it is when the condition of its write refuses what a read or a list showed too late.
RunDies(r) ==
  /\ Live(r) /\ RunOver(r)
  /\ UNCHANGED untouched

\* An upsert of the next instance reads its row first.
ReadForUpsert(r, next, table) ==
  \E i \in next :
    Step(r, [Run(r) EXCEPT !.pc = "put", !.at = i, !.todo = @ \ {i}, !.read = table[i].version])

\* Mutant: the put is not conditional on the version.
VersionHeldBy_Ignored(row, version) == TRUE

\* The condition of a put or an update: the version that was read, or no row yet.
VersionHeldBy(row, version) == row.version = version

\* Run r goes on, having seen instance i: so knows a run that listed the row before.
Upserted(r) ==
  engineRuns' = [q \in EngineRuns |->
    IF q = r THEN [Run(r) EXCEPT !.pc = "upsert", !.at = 0, !.read = 0]
    ELSE IF Run(q).engine = Run(r).engine /\ Run(q).marks[Run(r).at] > 0
         THEN [Run(q) EXCEPT !.sighted = @ \union {Run(r).at}] ELSE Run(q)]

Marked(r) == {i \in Instances : Run(r).marks[i] > 0}
Unmarked(r, i) == [Run(r) EXCEPT !.marks[i] = 0, !.sighted = @ \ {i}]

(* Discovery. *)

\* plugin.discover, of a region that answers: of one that does not, no scope is completed.
DiscoverRegion(r) ==
  /\ \E view \in [Instances -> Views] :
       BeginRun(r, [IdleEngineRun EXCEPT !.engine = "discovery", !.pc = "upsert", !.view = view,
                                      !.todo = {i \in Instances : view[i] # "absent"}])
  /\ UNCHANGED untouched

\* AWS answers in an order of its own; lists are in the order of the sort keys.
ReadResource(r) ==
  /\ RunIsAt(r, "discovery", "upsert") /\ ReadForUpsert(r, Run(r).todo, resources)
  /\ UNCHANGED untouched

\* A version conflict ends the run.
UpsertDiscoveredResource(r) ==
  /\ RunIsAt(r, "discovery", "put")
  /\ LET i == Run(r).at
     IN \/ /\ VersionHeldBy(resources[i], Run(r).read)
           /\ resources' = [resources EXCEPT ![i] =
                [version |-> @.version + 1, status |-> "ACTIVE", view |-> Run(r).view[i]]]
           /\ Upserted(r)
        \/ ~VersionHeldBy(resources[i], Run(r).read) /\ RunOver(r) /\ UNCHANGED resources
  /\ UNCHANGED <<findings, recommendations, summary, pageSize>>

Unseen(r, late) ==
  {i \in ListResourcesInScope(late) \ late : Run(r).view[i] = "absent" /\ resources[i].status = "ACTIVE"}

ListUnseen(r) ==
  /\ RunIsAt(r, "discovery", "upsert") /\ Run(r).todo = {}
  /\ \E late \in SUBSET Instances :
       Step(r, [Run(r) EXCEPT !.pc = "close", !.marks = Versions(resources, Unseen(r, late)),
                            !.lapsed = Unseen(r, late) # Unseen(r, {})])
  /\ UNCHANGED untouched

MarkNotSeen(r) ==
  /\ RunIsAt(r, "discovery", "close")
  /\ \E i \in FirstOf(Marked(r), 1) :
       \/ /\ VersionHeldBy(resources[i], Run(r).marks[i])
          /\ resources' = [resources EXCEPT ![i].version = @ + 1, ![i].status = "NOT_SEEN"]
          /\ Step(r, Unmarked(r, i))
       \/ ~VersionHeldBy(resources[i], Run(r).marks[i]) /\ RunOver(r) /\ UNCHANGED resources
  /\ UNCHANGED <<findings, recommendations, summary, pageSize>>

(* Security. *)

\* What a list shows of the inventory, rows that are NOT_SEEN included; late ones with the
\* metadata they had.
InventoryView(late, had) ==
  [i \in Instances |-> IF i \notin ListResourcesInScope(late) THEN "absent"
                       ELSE IF i \in late THEN had[i] ELSE resources[i].view]

AnalyzeInventory(r) ==
  /\ \E late \in SUBSET Instances : \E had \in [late -> {"clear", "flagged"}] :
       LET view == InventoryView(late, had)
       IN BeginRun(r, [IdleEngineRun EXCEPT !.engine = "security", !.pc = "upsert", !.view = view,
                                         !.todo = {i \in Instances : view[i] = "flagged"}])
  /\ UNCHANGED untouched

ReadFinding(r) ==
  /\ RunIsAt(r, "security", "upsert") /\ ReadForUpsert(r, FirstOf(Run(r).todo, 1), findings)
  /\ UNCHANGED untouched

\* Mutant: a RESOLVED finding that is detected again stays RESOLVED.
Redetected_AsItWas(row) ==
  [version |-> row.version + 1, status |-> IF row.version = 0 THEN "OPEN" ELSE row.status]

\* mergeRecommendationLifecycleOnUpsert, preservedStatus: RESOLVED reopens.
Redetected(row) == [version |-> row.version + 1, status |-> "OPEN"]

Resolved(row) == [version |-> row.version + 1, status |-> "RESOLVED"]

\* A conflict ends the run.
UpsertFinding(r) ==
  /\ RunIsAt(r, "security", "put")
  /\ LET i == Run(r).at
     IN \/ /\ VersionHeldBy(findings[i], Run(r).read)
           /\ findings' = [findings EXCEPT ![i] = Redetected(@)]
           /\ Upserted(r)
        \/ ~VersionHeldBy(findings[i], Run(r).read) /\ RunOver(r) /\ UNCHANGED findings
  /\ UNCHANGED <<resources, recommendations, summary, pageSize>>

Undetected(r, late) == {i \in ListOpen(findings, 0, late) \ late : Run(r).view[i] # "flagged"}

ListUndetected(r) ==
  /\ RunIsAt(r, "security", "upsert") /\ Run(r).todo = {}
  /\ \E late \in SUBSET Instances :
       Step(r, [Run(r) EXCEPT !.pc = "close", !.marks = Versions(findings, Undetected(r, late)),
                            !.lapsed = Undetected(r, late) # Undetected(r, {})])
  /\ UNCHANGED untouched

\* markResolved looks for the finding on one page of a list of its own.
MarkFindingResolved(r) ==
  /\ RunIsAt(r, "security", "close")
  /\ \E i \in FirstOf(Marked(r), 1), late \in SUBSET Instances :
       /\ i \in FirstOf(Rows(findings, 0, late), pageSize) \ late
       /\ VersionHeldBy(findings[i], Run(r).marks[i])
       /\ findings' = [findings EXCEPT ![i] = Resolved(@)]
       /\ Step(r, Unmarked(r, i))
  /\ UNCHANGED <<resources, recommendations, summary, pageSize>>

\* "Version conflict - leave finding open for a later rerun": so the code says, of any error
\* of markResolved, be it that the page lacks the finding, that the list was late or that an
\* access failed.  The run goes on to SUCCEEDED.
LeaveFindingOpen(r) ==
  /\ RunIsAt(r, "security", "close")
  /\ \E i \in FirstOf(Marked(r), 1) : Step(r, [Unmarked(r, i) EXCEPT !.lapsed = TRUE])
  /\ UNCHANGED untouched

\* The last put wins.  What it says (scores, and a count of a list that may be late) is left
\* out.
UpsertSummary(r) ==
  /\ RunIsAt(r, "security", "close") /\ Marked(r) = {}
  /\ summary' = r
  /\ Step(r, [Run(r) EXCEPT !.pc = "complete"])
  /\ UNCHANGED <<resources, findings, recommendations, pageSize>>

(* Cost. *)

\* The ACTIVE instances, late ones if they were, and the metrics of each.  Without any
\* nothing is collected; of a region whose metrics fail nothing is flagged or resolved, and
\* the run is FAILED.
EvaluateRules(r) ==
  /\ \E late \in SUBSET Instances : \E were \in SUBSET late :
       LET active == {i \in ListResourcesInScope(late) :
                        IF i \in late THEN i \in were ELSE resources[i].status = "ACTIVE"}
       IN \E flagged \in SUBSET active :
            BeginRun(r, [IdleEngineRun EXCEPT !.engine = "cost", !.pc = "upsert", !.todo = flagged,
                       !.view = [i \in Instances |-> IF i \in flagged THEN "flagged"
                                                     ELSE IF i \in active THEN "clear" ELSE "absent"]])
  /\ UNCHANGED untouched

ReadRecommendation(r) ==
  /\ RunIsAt(r, "cost", "upsert") /\ ReadForUpsert(r, FirstOf(Run(r).todo, 1), recommendations)
  /\ UNCHANGED untouched

UpsertRecommendation(r) ==
  /\ RunIsAt(r, "cost", "put")
  /\ LET i == Run(r).at
     IN \/ /\ VersionHeldBy(recommendations[i], Run(r).read)
           /\ recommendations' = [recommendations EXCEPT ![i] = Redetected(@)]
           /\ Upserted(r)
        \/ ~VersionHeldBy(recommendations[i], Run(r).read) /\ RunOver(r) /\ UNCHANGED recommendations
  /\ UNCHANGED <<resources, findings, summary, pageSize>>

\* shouldResolveOpenRecommendation, of a run without a failed region.
ShouldResolve(r, i) == Run(r).view[i] # "flagged"

\* resolveStaleFindings lists page by page; a page that is not full is the last.
ListStale(r) ==
  /\ \/ RunIsAt(r, "cost", "upsert") /\ Run(r).todo = {}
     \/ RunIsAt(r, "cost", "close") /\ Marked(r) = {} /\ Run(r).next > 0
  /\ \E late \in SUBSET Instances :
       LET page == ListOpen(recommendations, Run(r).next, late)
       IN Step(r, [Run(r) EXCEPT !.pc = "close",
                     !.lapsed = @ \/ page # ListOpen(recommendations, Run(r).next, {}),
                     !.marks = Versions(recommendations, {i \in page \ late : ShouldResolve(r, i)}),
                     !.next = IF Cardinality(page) = pageSize
                              THEN CHOOSE i \in page : \A k \in page : k <= i ELSE 0])
  /\ UNCHANGED untouched

\* A conflict ends the run, which may have resolved others.
MarkRecommendationResolved(r) ==
  /\ RunIsAt(r, "cost", "close")
  /\ \E i \in FirstOf(Marked(r), 1) :
       \/ /\ VersionHeldBy(recommendations[i], Run(r).marks[i])
          /\ recommendations' = [recommendations EXCEPT ![i] = Resolved(@)]
          /\ Step(r, Unmarked(r, i))
       \/ ~VersionHeldBy(recommendations[i], Run(r).marks[i]) /\ RunOver(r) /\ UNCHANGED recommendations
  /\ UNCHANGED <<resources, findings, summary, pageSize>>

\* A run that has written all it had to.
Done(r) ==
  \/ RunIsAt(r, "discovery", "close") /\ Marked(r) = {}
  \/ RunIsAt(r, "security", "complete")
  \/ RunIsAt(r, "cost", "close") /\ Marked(r) = {} /\ Run(r).next = 0

\* completeRun, as SUCCEEDED.
RunSucceeds(r) ==
  /\ Done(r) /\ RunOver(r)
  /\ UNCHANGED untouched

InventoryNext ==
  \E r \in EngineRuns :
    \/ RunDies(r) \/ RunSucceeds(r)
    \/ DiscoverRegion(r) \/ ReadResource(r) \/ UpsertDiscoveredResource(r) \/ ListUnseen(r)
    \/ MarkNotSeen(r)
    \/ AnalyzeInventory(r) \/ ReadFinding(r) \/ UpsertFinding(r) \/ ListUndetected(r)
    \/ MarkFindingResolved(r) \/ LeaveFindingOpen(r) \/ UpsertSummary(r)
    \/ EvaluateRules(r) \/ ReadRecommendation(r) \/ UpsertRecommendation(r) \/ ListStale(r)
    \/ MarkRecommendationResolved(r)

InventorySpec == InventoryInit /\ [][InventoryNext]_inventoryVars

(* Properties. *)

InventoryTypeOK ==
  /\ resources \in [Instances -> ResourceRow]
  /\ findings \in [Instances -> FindingRow] /\ recommendations \in [Instances -> FindingRow]
  /\ summary \in EngineRuns \union {"none"}
  /\ engineRuns \in [EngineRuns -> EngineRun] /\ pageSize \in Instances

Closed(row, later) == row.status \in {"ACTIVE", "OPEN"} /\ later.status \in {"NOT_SEEN", "RESOLVED"}

\* What a run holds against an instance whose row it closes.
NotFound(r, i) == Run(r).view[i] \in (IF Run(r).engine = "discovery" THEN {"absent"} ELSE {"absent", "clear"})

\* "Version conflict - leave finding open for a later rerun" (runAnalysis), NOT_SEEN "only
\* when ... the resource ID was absent from that run" (ec2-discovery-plugin.md:30): a row is
\* closed by a run that did not find the instance, and never when another run has found it
\* since the row was listed.
NothingNewerIsClosed ==
  [][\A i \in Instances :
       \/ Closed(resources[i], resources'[i]) \/ Closed(findings[i], findings'[i])
       \/ Closed(recommendations[i], recommendations'[i])
       => \E r \in EngineRuns :
            i \in Marked(r) /\ i \notin Marked(r)' /\ NotFound(r, i) /\ i \notin Run(r).sighted
    ]_inventoryVars

OnPage(table) == FirstOf(Rows(table, 0, {}), pageSize)

TableOf(engine) ==
  CASE engine = "discovery" -> resources [] engine = "security" -> findings
    [] engine = "cost" -> recommendations

\* A run that overlapped with none of its engine leaves open all that it found, whatever a
\* run before it left half done and however its lists lag: "reopen RESOLVED when detected
\* again".  Of what it did not find it leaves nothing open on the page that a list answers
\* ("OPEN findings absent after a SUCCEEDED run ... are resolved",
\* ec2-security-governance-analysis.md:28) if no list was late and no error of markResolved
\* was swallowed: after those it ends SUCCEEDED too, with the finding OPEN.
UndisturbedRunConverges ==
  \A r \in EngineRuns :
    LET table == TableOf(Run(r).engine)
        Open(i) == table[i].status \in {"ACTIVE", "OPEN"}
    IN Done(r) /\ Run(r).alone =>
         /\ \A i \in Instances : ~NotFound(r, i) => Open(i)
         /\ ~Run(r).lapsed => \A i \in OnPage(table) : NotFound(r, i) => ~Open(i)
         /\ Run(r).engine = "discovery" =>
              \A i \in Instances : ~NotFound(r, i) => resources[i].view = Run(r).view[i]
         /\ Run(r).engine = "security" => summary = r

===============================================================================
