--------------------------- MODULE Ec2JobDashboard ---------------------------
(***************************************************************************)
(* The dashboard's Ec2AsyncJobController with its poller, over the job     *)
(* API.  The page is one thread: an action runs from one answered request  *)
(* to the next await.  Requests are served, and their answers arrive, in   *)
(* any order; each may fail.  The jobs themselves move on in the backend,  *)
(* whose steps are only what the API can show of the worker.               *)
(*                                                                         *)
(* Only the latest request for the job list counts (historyFetchGeneration *)
(* makes the page ignore the others), so one list is kept.  "Load more" is *)
(* left out: a page holds 20 jobs, more than any instance.  So are wording, *)
(* tickers, notifications, which job the user looks at (viewJobProgress,   *)
(* displayJob): nothing else reads them.                                   *)
(***************************************************************************)
EXTENDS Ec2AsyncJobApi, FiniteSets

CONSTANTS
  Jobs, Scopes,
  PastJobs,       \* the jobs that failed before the page was opened
  ScopeOf,        \* the scope a job was started for
  NONE,
  MaxGeneration   \* bound: starts, retries and resumptions of the page

ASSUME DashboardAssumption ==
  /\ ScopeOf \in [Jobs -> Scopes] /\ PastJobs \subseteq Jobs /\ NONE \notin Jobs
  /\ MaxGeneration \in Nat

Starters == {"start", "retry", "resume"}

VARIABLES
  rows,            \* the backend's job rows, NONE where there is none
  stageCompletion, \* is the API service built with the stage completion service?
  generation, activeJobId,
  pollers,         \* this.poller, {} once stopPolling has dropped it
  historyItems,
  starts,          \* startAnalysis of a start and of a retry, resumeExistingActiveJob
  list,            \* the answer of the latest refreshHistory, until it arrives
  refreshed

backend == <<rows, stageCompletion>>
tracked == <<generation, activeJobId>>
dashboardVars ==
  <<backend, tracked, pollers, historyItems, starts, list, refreshed>>

Shown == [job : Jobs, status : JobStatuses, stage : JobStages, enqueueFailed : BOOLEAN,
          blocking : BlockingAnswers]

ASSUME NoneIsNoRow == NONE \notin JobRow \union Shown

Idle == [pc |-> "idle", job |-> NONE, scope |-> NONE, gen |-> 0, known |-> NONE]

NoPage == [j \in Jobs |-> NONE]

Poller(j, g) == [job |-> j, gen |-> g, fetch |-> "idle", reply |-> NONE]

NewRow == [status |-> "QUEUED", stage |-> "ENQUEUE", proof |-> "ambiguous", fresh |-> TRUE,
           enqueueFailed |-> FALSE]

EndedRow(status) ==
  [status |-> status, stage |-> IF status = "SUCCEEDED" THEN "COMPLETE" ELSE "DISCOVERY",
   proof |-> "complete", fresh |-> FALSE, enqueueFailed |-> FALSE]

DashboardInit ==
  /\ rows = [j \in Jobs |-> IF j \in PastJobs THEN EndedRow("FAILED") ELSE NONE]
  /\ stageCompletion \in BOOLEAN
  /\ generation = 0 /\ activeJobId = NONE
  /\ pollers = {}
  /\ historyItems = NoPage
  /\ starts = [t \in Starters |-> Idle]
  /\ list = NONE
  /\ refreshed = {}

Present(j) == PresentJob(j, rows[j], stageCompletion)

(* The backend. *)

Worker(j, row) == rows' = [rows EXCEPT ![j] = row] /\ UNCHANGED <<stageCompletion, tracked,
                    pollers, historyItems, starts, list, refreshed>>

\* The worker as the API shows it: a job is claimed with its first run, the run stalls
\* and is resumed, the job ends.
Running(proof) == [NewRow EXCEPT !.status = "RUNNING", !.stage = "DISCOVERY", !.proof = proof]

WorkerStep(j) ==
  \/ rows[j] = NewRow /\ Worker(j, Running("in_progress_active"))
  \/ rows[j] = Running("in_progress_active")
     /\ (Worker(j, Running("in_progress_stale")) \/ Worker(j, EndedRow("SUCCEEDED")))
  \/ rows[j] = Running("in_progress_stale") /\ Worker(j, Running("in_progress_active"))
  \/ rows[j] \in {NewRow} \union {Running(x) : x \in StageProofs} /\ Worker(j, EndedRow("FAILED"))

(* History. *)

\* Mutant: what the list lacks is dropped, unless it has ended.
ReconcileHistoryItemsFromList_DropsActive(fetched) ==
  LET Ended(j) == historyItems[j] # NONE /\ IsTerminalJobStatus(historyItems[j])
      KeepsLocal(j) ==
        Ended(j) /\ (IF fetched[j] # NONE THEN ~IsTerminalJobStatus(fetched[j]) ELSE TRUE)
  IN [j \in Jobs |-> IF KeepsLocal(j) THEN historyItems[j] ELSE fetched[j]]

\* Mutant: the list replaces what polling already told.
ReconcileHistoryItemsFromList_Replaces(fetched) ==
  [j \in Jobs |-> IF fetched[j] # NONE THEN fetched[j] ELSE
                  IF j = activeJobId THEN historyItems[j] ELSE NONE]

ReconcileHistoryItemsFromList(fetched) ==
  LET Known(j) == historyItems[j] # NONE
      Ended(j) == Known(j) /\ IsTerminalJobStatus(historyItems[j])
      KeepsLocal(j) ==
        IF fetched[j] # NONE THEN Ended(j) /\ ~IsTerminalJobStatus(fetched[j])
                             ELSE Ended(j) \/ (Known(j) /\ j = activeJobId)
  IN [j \in Jobs |-> IF KeepsLocal(j) THEN historyItems[j] ELSE fetched[j]]

\* Mutant: the history keeps the row of the table, not the job as the API presents it.
UpsertHistoryItem_Raw(v) == historyItems' = [historyItems EXCEPT ![v.job] = rows[v.job]]

UpsertHistoryItem(v) == historyItems' = [historyItems EXCEPT ![v.job] = v]

\* A job as an index that lags by one write shows it.
Before(j) ==
  CASE rows[j] = NONE \/ j \in PastJobs \/ rows[j] = NewRow -> NONE
    [] rows[j] = EndedRow("SUCCEEDED") ->
         PresentJob(j, Running("in_progress_active"), stageCompletion)
    [] OTHER -> PresentJob(j, NewRow, stageCompletion)

\* refreshHistory: the page asks whenever it likes, and the list is answered now.  It
\* comes from an index that may be one write behind on one job.
RefreshHistory ==
  /\ \E late \in Jobs \union {NONE} :
       list' = [j \in Jobs |-> IF j = late THEN Before(j) ELSE
                               IF rows[j] = NONE THEN NONE ELSE Present(j)]
  /\ UNCHANGED <<backend, tracked, pollers, historyItems, starts, refreshed>>

\* The answer arrives.
ListDelivered ==
  /\ list # NONE
  /\ historyItems' = ReconcileHistoryItemsFromList(list)
  /\ list' = NONE
  /\ UNCHANGED <<backend, tracked, pollers, starts, refreshed>>

(* Start, retry, resume. *)

ActiveInHistory(s) ==
  {j \in Jobs : historyItems[j] # NONE /\ ScopeOf[j] = s /\ IsScopeBlocking(historyItems[j])}

\* stopPolling and a new generation, with which startAnalysis begins.
BeginStart(t, s) ==
  /\ starts[t] = Idle /\ generation < MaxGeneration
  /\ pollers' = {} /\ generation' = generation + 1
  /\ starts' = [starts EXCEPT ![t] = [Idle EXCEPT !.pc = "posting", !.scope = s, !.gen = generation + 1]]
  /\ UNCHANGED <<backend, activeJobId, historyItems, list, refreshed>>

StartAnalysisFromUi(s) == ActiveInHistory(s) = {} /\ BeginStart("start", s)

\* A job that was retried often, by the history; one that does not block its scope is
\* shown as inactive instead.
Abandoned(j) ==
  historyItems[j].status = "RUNNING" /\ historyItems[j].blocking # "no" /\ j # activeJobId

\* The history offers it for a job that failed and for one that it shows as abandoned.
RetryJob(j) ==
  /\ historyItems[j] # NONE
  /\ historyItems[j].status = "FAILED" \/ Abandoned(j)
  /\ BeginStart("retry", ScopeOf[j])

\* Unless the page already follows the job, or has a poller that once did.
Resume(s) ==
  /\ starts["start"] = Idle /\ starts["resume"] = Idle /\ generation < MaxGeneration
  /\ \E j \in ActiveInHistory(s) :
       /\ ~(activeJobId = j /\ pollers # {})
       /\ activeJobId' = j
       /\ starts' = [starts EXCEPT !["resume"] =
            [pc |-> "getting", job |-> j, scope |-> s, gen |-> generation + 1,
             known |-> historyItems[j]]]
  /\ pollers' = {} /\ generation' = generation + 1
  /\ UNCHANGED <<backend, historyItems, list, refreshed>>

ThreadGoes(t, thread) == starts' = [starts EXCEPT ![t] = thread]

\* POST /analysis/ec2/start and its answer: the producer answers the job that already
\* analyses the scope, or creates one.
StartAnswered(t) ==
  /\ starts[t].pc = "posting"
  /\ \E j \in {j \in Jobs : ScopeOf[j] = starts[t].scope} :
       /\ \/ rows[j] # NONE /\ IsBlockingSameScopeStart(rows[j]) /\ UNCHANGED rows
          \/ rows[j] = NONE /\ rows' = [rows EXCEPT ![j] = NewRow]
       /\ IF starts[t].gen = generation
          THEN /\ activeJobId' = j
               /\ ThreadGoes(t, [starts[t] EXCEPT !.pc = "getting", !.job = j])
          ELSE ThreadGoes(t, Idle) /\ UNCHANGED activeJobId
  /\ UNCHANGED <<stageCompletion, generation, pollers, historyItems, list, refreshed>>

\* The call throws; the job may have been created, and enqueued or not.
StartFails(t) ==
  /\ starts[t].pc = "posting"
  /\ ThreadGoes(t, Idle)
  /\ \/ UNCHANGED rows
     \/ \E j \in {j \in Jobs : ScopeOf[j] = starts[t].scope /\ rows[j] = NONE} :
          \E failed \in BOOLEAN : rows' = [rows EXCEPT ![j] = [NewRow EXCEPT !.enqueueFailed = failed]]
  /\ UNCHANGED <<stageCompletion, tracked, pollers, historyItems, list, refreshed>>

\* What the page makes of a job it could not fetch: the row as the start answered it,
\* or as the history holds it.
Fallback(t) ==
  IF t = "resume" THEN starts[t].known
  ELSE [PresentJob(starts[t].job, NewRow, FALSE) EXCEPT !.status = "QUEUED"]

Fetched(t) == {Fallback(t), Present(starts[t].job)}

BeginPolling(j, g) == {Poller(j, g)}

\* The generation is not compared again: a start that was overtaken while it fetched its
\* job replaces the poller of the one that overtook it.
StartShown(t) ==
  /\ starts[t].pc = "getting" /\ t # "resume"
  /\ \E v \in Fetched(t) : UpsertHistoryItem(v)
  /\ list' = NONE
  /\ pollers' = BeginPolling(starts[t].job, starts[t].gen)
  /\ ThreadGoes(t, Idle)
  /\ UNCHANGED <<backend, generation, activeJobId, refreshed>>

ResumeShown ==
  /\ starts["resume"].pc = "getting"
  /\ \E v \in Fetched("resume") :
       pollers' = IF IsTerminalJobStatus(v) THEN pollers ELSE BeginPolling(v.job, starts["resume"].gen)
  /\ ThreadGoes("resume", Idle)
  /\ UNCHANGED <<backend, generation, activeJobId, historyItems, list, refreshed>>

(* The poller. *)

Fetch(p, fetch, v) == (pollers \ {p}) \union {[p EXCEPT !.fetch = fetch, !.reply = v]}

\* tick: the poller asks and the API answers now; a request that fails changes
\* nothing but the delay before the next.
PollServed(p) ==
  /\ p.fetch = "idle" /\ pollers' = Fetch(p, "answered", Present(p.job))
  /\ UNCHANGED <<backend, tracked, historyItems, starts, list, refreshed>>

\* What a poller does after an answer: it stops after a terminal one, and is kept.
AfterAnswer(p) == Fetch(p, IF IsTerminalJobStatus(p.reply) THEN "stopped" ELSE "idle", NONE)

\* The guard of onUpdate and onTerminal.
IsCurrent(p) == p.gen = generation /\ p.job = activeJobId

PollIgnored(p) ==
  /\ p.fetch = "answered" /\ ~IsCurrent(p)
  /\ pollers' = AfterAnswer(p)
  /\ UNCHANGED <<backend, tracked, historyItems, starts, list, refreshed>>

\* onUpdate with reconcileStaleActiveJob: a job that does not block its scope is no
\* longer active, and a terminal answer then finds no active job to end.
PollReleased(p) ==
  /\ p.fetch = "answered" /\ IsCurrent(p) /\ p.reply.blocking = "no"
  /\ activeJobId' = NONE /\ pollers' = {}
  /\ UNCHANGED <<backend, generation, historyItems, starts, list, refreshed>>

PollShown(p) ==
  /\ p.fetch = "answered" /\ IsCurrent(p) /\ p.reply.blocking # "no" /\ ~IsTerminalJobStatus(p.reply)
  /\ pollers' = AfterAnswer(p)
  /\ UNCHANGED <<backend, generation, activeJobId, historyItems, starts, list, refreshed>>

\* onTerminal with the completion refresh.
PollEnded(p) ==
  /\ p.fetch = "answered" /\ IsCurrent(p) /\ p.reply.blocking # "no" /\ IsTerminalJobStatus(p.reply)
  /\ pollers' = AfterAnswer(p)
  /\ UpsertHistoryItem(p.reply) /\ list' = NONE
  /\ refreshed' = IF p.reply.status = "FAILED" THEN refreshed ELSE refreshed \union {p.job}
  /\ UNCHANGED <<backend, generation, activeJobId, starts>>

PollAnswered(p) == PollIgnored(p) \/ PollReleased(p) \/ PollShown(p) \/ PollEnded(p)

DashboardNext ==
  \/ \E j \in Jobs : WorkerStep(j) \/ RetryJob(j)
  \/ \E s \in Scopes : StartAnalysisFromUi(s) \/ Resume(s)
  \/ RefreshHistory \/ ListDelivered
  \/ \E t \in Starters :
       StartAnswered(t) \/ StartFails(t) \/ StartShown(t)
  \/ ResumeShown
  \/ \E p \in pollers : PollServed(p) \/ PollAnswered(p)

DashboardSpec == DashboardInit /\ [][DashboardNext]_dashboardVars

(* Properties. *)

DashboardTypeOK ==
  /\ rows \in [Jobs -> JobRow \union {NONE}] /\ stageCompletion \in BOOLEAN
  /\ generation \in 0 .. MaxGeneration
  /\ activeJobId \in Jobs \union {NONE}
  /\ pollers \subseteq [job : Jobs, gen : 1 .. MaxGeneration, fetch : {"idle", "answered", "stopped"},
                        reply : Shown \union {NONE}]
  /\ historyItems \in [Jobs -> Shown \union {NONE}]
  /\ refreshed \subseteq Jobs

\* The job the page follows is in its history, or about to be: no list that was answered
\* before the job existed, or lags, takes it away, in whatever order starts, resumptions
\* and lists are answered (reconcileHistoryItemsFromList).
ActiveJobIsListed ==
  activeJobId # NONE =>
    \/ historyItems[activeJobId] # NONE
    \/ \E t \in Starters \ {"resume"} : starts[t].pc = "getting" /\ starts[t].job = activeJobId

\* A job the history shows as ended is not shown as running again by a list that was
\* answered before or lags; only a start's own job is written as it was fetched
\* (reconcileHistoryItemsFromList).
ListsNeverRegress ==
  [][\A j \in Jobs :
       historyItems[j] # NONE /\ IsTerminalJobStatus(historyItems[j]) =>
         \/ historyItems'[j] # NONE /\ IsTerminalJobStatus(historyItems'[j])
         \/ \E t \in Starters : starts[t].pc = "getting" /\ starts[t].job = j /\ starts'[t] = Idle]_dashboardVars

\* On terminal success for the active job, of the matching generation, the dashboard
\* reloads its data and marks the job completed (docs/frontend/ec2-async-job-dashboard.md).
CompletionIsRefreshed ==
  [][\A p \in pollers :
       p.fetch = "answered" /\ p.reply.status = "SUCCEEDED" /\ IsCurrent(p)
         /\ generation' = generation /\ p \notin pollers'
         => p.job \in refreshed']_dashboardVars

\* "One poller per active job", "stale responses: generation + active jobId guards"
\* (docs/frontend/ec2-async-job-dashboard.md:74, :78): while the page follows the same job in
\* the same generation, the poller whose answers it shows is not replaced.  It is, by a start
\* or a resumption that was overtaken while it fetched its job (startAnalysis).
CurrentPollerStays ==
  [][\A p \in pollers :
       IsCurrent(p) /\ UNCHANGED tracked => \E q \in pollers' : q.job = p.job /\ q.gen = p.gen
    ]_dashboardVars
==============================================================================
