------------------------ MODULE Ec2JobDashboardProofs ------------------------
(***************************************************************************)
(* What holds of the dashboard for every number of jobs and scopes, and    *)
(* however often its user starts, retries and resumes.                     *)
(***************************************************************************)
EXTENDS Ec2JobDashboard, TLAPS

-----------------------------------------------------------------------------
(* The invariant.                                                          *)

Thread ==
  [pc : {"idle", "posting", "getting"}, job : Jobs \union {NONE}, scope : Scopes \union {NONE},
   gen : 0 .. MaxGeneration, known : Shown \union {NONE}]

PollerRecord ==
  [job : Jobs, gen : 1 .. MaxGeneration, fetch : {"idle", "answered", "stopped"},
   reply : Shown \union {NONE}]

PageTypeOK ==
  /\ DashboardTypeOK
  /\ starts \in [Starters -> Thread]
  /\ list \in [Jobs -> Shown \union {NONE}] \union {NONE}

HasRow(j) == rows[j] # NONE

\* A list of the page shows jobs of the backend, each under its own id.
PageShows(page) ==
  \A j \in Jobs : page[j] # NONE => page[j] \in Shown /\ page[j].job = j /\ HasRow(j)

Busy(t) == starts[t].pc # "idle"

IsLatest(t) == Busy(t) /\ starts[t].gen = generation

\* A start that was not overtaken by another follows the active job, and its poller has
\* not begun.
ThreadIsSound(t) ==
  /\ Busy(t) => starts[t].gen \in 1 .. generation
  /\ starts[t].pc = "posting" => t # "resume"
  /\ starts[t].pc = "getting" =>
       /\ starts[t].job \in Jobs /\ HasRow(starts[t].job)
       /\ starts[t].gen = generation => activeJobId = starts[t].job
       /\ t = "resume" => starts[t].known \in Shown /\ starts[t].known.job = starts[t].job
  /\ IsLatest(t) => \A p \in pollers : p.gen # generation

PollerIsSound(p) ==
  /\ p.gen \in 1 .. generation
  /\ HasRow(p.job)
  /\ p.gen = generation => p.job = activeJobId
  /\ p.fetch = "answered" => p.reply \in Shown /\ p.reply.job = p.job

OneLatest == \A t, u \in Starters : IsLatest(t) /\ IsLatest(u) => t = u

DashboardInv ==
  /\ PageTypeOK
  /\ PageShows(historyItems)
  /\ list # NONE => PageShows(list)
  /\ \A t \in Starters : ThreadIsSound(t)
  /\ \A p \in pollers : PollerIsSound(p)
  /\ OneLatest

LEMMA PageTypes ==
  DashboardInv =>
    /\ rows \in [Jobs -> JobRow \union {NONE}] /\ stageCompletion \in BOOLEAN
    /\ generation \in 0 .. MaxGeneration /\ generation \in Nat /\ MaxGeneration \in Nat
    /\ activeJobId \in Jobs \union {NONE}
    /\ pollers \subseteq PollerRecord
    /\ historyItems \in [Jobs -> Shown \union {NONE}]
    /\ refreshed \subseteq Jobs
    /\ starts \in [Starters -> Thread]
    /\ list \in [Jobs -> Shown \union {NONE}] \union {NONE}
BY DashboardAssumption DEF DashboardInv, PageTypeOK, DashboardTypeOK, PollerRecord

-----------------------------------------------------------------------------
(* Rows and what the API shows of them.                                    *)

LEMMA BackendRows ==
  /\ NewRow \in JobRow
  /\ \A failed \in BOOLEAN : [NewRow EXCEPT !.enqueueFailed = failed] \in JobRow
  /\ \A status \in {"SUCCEEDED", "FAILED"} : EndedRow(status) \in JobRow
  /\ \A proof \in StageProofs : Running(proof) \in JobRow
BY DEF NewRow, EndedRow, Running, JobRow, JobStatuses, JobStages, StageProofs

LEMMA PresentedIsShown ==
  ASSUME NEW j \in Jobs, NEW row \in JobRow, NEW completion \in BOOLEAN
  PROVE  /\ PresentJob(j, row, completion) \in Shown
         /\ PresentJob(j, row, completion).job = j
<1>1. PICK blocking : blocking =
        CASE ~completion -> "unsaid"
          [] completion /\ IsBlockingSameScopeStart(row) -> "yes"
          [] completion /\ ~IsBlockingSameScopeStart(row) -> "no"
  OBVIOUS
<1>2. blocking \in BlockingAnswers
  BY <1>1 DEF BlockingAnswers
<1>3. PresentJob(j, row, completion) =
        [job |-> j, status |-> row.status, stage |-> row.stage,
         enqueueFailed |-> row.enqueueFailed, blocking |-> blocking]
  BY <1>1 DEF PresentJob
<1> QED BY <1>2, <1>3 DEF JobRow, Shown

LEMMA PresentIsShown ==
  ASSUME DashboardInv, NEW j \in Jobs, HasRow(j)
  PROVE  Present(j) \in Shown /\ Present(j).job = j
<1>1. rows[j] \in JobRow /\ stageCompletion \in BOOLEAN
  BY PageTypes DEF HasRow
<1> QED BY <1>1, PresentedIsShown DEF Present

LEMMA BeforeIsShown ==
  ASSUME DashboardInv, NEW j \in Jobs, Before(j) # NONE
  PROVE  Before(j) \in Shown /\ Before(j).job = j /\ HasRow(j)
<1>1. /\ PresentJob(j, NewRow, stageCompletion) \in Shown
      /\ PresentJob(j, NewRow, stageCompletion).job = j
      /\ PresentJob(j, Running("in_progress_active"), stageCompletion) \in Shown
      /\ PresentJob(j, Running("in_progress_active"), stageCompletion).job = j
  BY PageTypes, BackendRows, PresentedIsShown DEF StageProofs
<1>2. rows[j] # NONE
  BY NoneIsNoRow, BackendRows DEF Before
<1> QED BY <1>1, <1>2 DEF Before, HasRow

\* What a start shows of its job, fetched or remembered.
LEMMA FetchedIsShown ==
  ASSUME DashboardInv, NEW t \in Starters, starts[t].pc = "getting", NEW v \in Fetched(t)
  PROVE  v \in Shown /\ v.job = starts[t].job
<1>1. starts[t].job \in Jobs /\ HasRow(starts[t].job)
      /\ (t = "resume" => starts[t].known \in Shown /\ starts[t].known.job = starts[t].job)
  BY DEF DashboardInv, ThreadIsSound
<1>2. CASE v = Present(starts[t].job)
  BY <1>1, <1>2, PresentIsShown
<1>3. CASE v = Fallback(t) /\ t = "resume"
  BY <1>1, <1>3 DEF Fallback
<1>4. CASE v = Fallback(t) /\ t # "resume"
  <2>1. PICK shown : shown = PresentJob(starts[t].job, NewRow, FALSE)
    OBVIOUS
  <2>2. shown \in Shown /\ shown.job = starts[t].job
    BY <1>1, <2>1, BackendRows, PresentedIsShown
  <2>3. v = [shown EXCEPT !.status = "QUEUED"]
    BY <1>4, <2>1 DEF Fallback
  <2> QED BY <2>2, <2>3 DEF Shown, JobStatuses
<1> QED BY <1>2, <1>3, <1>4 DEF Fetched

\* The backend keeps every row that it has.
LEMMA RowsStay ==
  ASSUME DashboardInv, DashboardNext
  PROVE  /\ rows' \in [Jobs -> JobRow \union {NONE}] /\ UNCHANGED stageCompletion
         /\ \A j \in Jobs : HasRow(j) => HasRow(j)'
<1>0. rows \in [Jobs -> JobRow \union {NONE}] /\ NONE \notin JobRow
  BY PageTypes, NoneIsNoRow
<1>1. ASSUME NEW j \in Jobs, NEW row \in JobRow, rows' = [rows EXCEPT ![j] = row]
      PROVE  rows' \in [Jobs -> JobRow \union {NONE}] /\ \A i \in Jobs : HasRow(i) => HasRow(i)'
  BY <1>0, <1>1 DEF HasRow
<1>2. ASSUME NEW j \in Jobs, WorkerStep(j)
      PROVE  \E row \in JobRow : rows' = [rows EXCEPT ![j] = row] /\ UNCHANGED stageCompletion
  <2>1. /\ Running("in_progress_active") \in JobRow /\ Running("in_progress_stale") \in JobRow
        /\ EndedRow("SUCCEEDED") \in JobRow /\ EndedRow("FAILED") \in JobRow
    BY BackendRows DEF StageProofs
  <2> QED BY <1>2, <2>1 DEF WorkerStep, Worker
<1>3. ASSUME NEW t \in Starters, StartAnswered(t) \/ StartFails(t)
      PROVE  /\ UNCHANGED stageCompletion
             /\ UNCHANGED rows \/ \E j \in Jobs : \E row \in JobRow : rows' = [rows EXCEPT ![j] = row]
  BY <1>3, BackendRows DEF StartAnswered, StartFails
<1>4. CASE UNCHANGED backend
  BY <1>0, <1>4 DEF backend, HasRow
<1>5. \/ UNCHANGED backend
      \/ \E j \in Jobs : WorkerStep(j)
      \/ \E t \in Starters : StartAnswered(t) \/ StartFails(t)
  BY DEF DashboardNext, RetryJob, StartAnalysisFromUi, BeginStart, Resume, RefreshHistory,
         ListDelivered, StartShown, ResumeShown, PollServed, PollAnswered, PollIgnored, PollReleased,
         PollShown, PollEnded
<1>6. ASSUME UNCHANGED stageCompletion,
             UNCHANGED rows \/ \E j \in Jobs : \E row \in JobRow : rows' = [rows EXCEPT ![j] = row]
      PROVE  /\ rows' \in [Jobs -> JobRow \union {NONE}] /\ UNCHANGED stageCompletion
             /\ \A j \in Jobs : HasRow(j) => HasRow(j)'
  BY <1>0, <1>1, <1>6 DEF HasRow
<1> QED BY <1>2, <1>3, <1>4, <1>5, <1>6

-----------------------------------------------------------------------------
(* The lists.                                                              *)

\* Steps that answer nothing and show nothing.
Silent ==
  \/ \E j \in Jobs : WorkerStep(j) \/ RetryJob(j)
  \/ \E s \in Scopes : StartAnalysisFromUi(s) \/ Resume(s)
  \/ \E t \in Starters : StartAnswered(t) \/ StartFails(t)
  \/ ResumeShown
  \/ \E p \in pollers : PollServed(p) \/ PollIgnored(p) \/ PollReleased(p) \/ PollShown(p)

LEMMA SilentSteps == Silent => UNCHANGED <<historyItems, list>>
BY DEF Silent, WorkerStep, Worker, RetryJob, StartAnalysisFromUi, BeginStart, Resume, StartAnswered,
       StartFails, ResumeShown, PollServed, PollIgnored, PollReleased, PollShown

LEMMA UpsertShows ==
  ASSUME DashboardInv, NEW v \in Shown, HasRow(v.job), UpsertHistoryItem(v)
  PROVE  /\ historyItems' \in [Jobs -> Shown \union {NONE}]
         /\ \A j \in Jobs : (historyItems')[j] # NONE =>
              (historyItems')[j] \in Shown /\ (historyItems')[j].job = j /\ HasRow(j)
         /\ (historyItems')[v.job] = v
         /\ \A j \in Jobs : j # v.job => (historyItems')[j] = historyItems[j]
<1>1. historyItems \in [Jobs -> Shown \union {NONE}] /\ PageShows(historyItems)
  BY PageTypes DEF DashboardInv
<1>2. v.job \in Jobs
  BY DEF Shown
<1>3. PICK k : k = v.job
  OBVIOUS
<1>4. historyItems' = [historyItems EXCEPT ![k] = v] /\ k \in Jobs
  BY <1>2, <1>3 DEF UpsertHistoryItem
<1>5. /\ historyItems' \in [Jobs -> Shown \union {NONE}] /\ (historyItems')[k] = v
      /\ \A j \in Jobs : j # k => (historyItems')[j] = historyItems[j]
  BY <1>1, <1>4
<1> QED BY <1>1, <1>3, <1>5 DEF PageShows

LEMMA ReconciledShows ==
  ASSUME DashboardInv, list # NONE, historyItems' = ReconcileHistoryItemsFromList(list)
  PROVE  /\ historyItems' \in [Jobs -> Shown \union {NONE}]
         /\ \A j \in Jobs : (historyItems')[j] \in {historyItems[j], list[j]}
<1>1. historyItems \in [Jobs -> Shown \union {NONE}] /\ list \in [Jobs -> Shown \union {NONE}]
  BY PageTypes
<1>2. historyItems' = [j \in Jobs |-> (historyItems')[j]]
  BY DEF ReconcileHistoryItemsFromList
<1>3. \A j \in Jobs : (historyItems')[j] \in {historyItems[j], list[j]}
  BY DEF ReconcileHistoryItemsFromList
<1>4. \A j \in Jobs : (historyItems')[j] \in Shown \union {NONE}
  BY <1>1, <1>3
<1> QED BY <1>2, <1>3, <1>4

LEMMA ListsNext ==
  ASSUME DashboardInv, DashboardNext
  PROVE  /\ historyItems' \in [Jobs -> Shown \union {NONE}]
         /\ list' \in [Jobs -> Shown \union {NONE}] \union {NONE}
         /\ PageShows(historyItems)'
         /\ (list # NONE => PageShows(list))'
<1>0. /\ historyItems \in [Jobs -> Shown \union {NONE}]
      /\ list \in [Jobs -> Shown \union {NONE}] \union {NONE}
      /\ PageShows(historyItems) /\ (list # NONE => PageShows(list))
      /\ \A j \in Jobs : HasRow(j) => HasRow(j)'
  BY PageTypes, RowsStay DEF DashboardInv
<1>1. CASE Silent
  BY <1>0, <1>1, SilentSteps DEF PageShows
<1>2. CASE RefreshHistory
  <2>1. PICK late \in Jobs \union {NONE} :
          list' = [j \in Jobs |-> IF j = late THEN Before(j) ELSE
                                  IF rows[j] = NONE THEN NONE ELSE Present(j)]
    BY <1>2 DEF RefreshHistory
  <2>2. ASSUME NEW j \in Jobs
        PROVE  /\ (list')[j] \in Shown \union {NONE}
               /\ (list')[j] # NONE => (list')[j] \in Shown /\ (list')[j].job = j /\ HasRow(j)
    <3>1. CASE (list')[j] = Before(j)
      BY <3>1, BeforeIsShown
    <3>2. CASE rows[j] = NONE /\ (list')[j] = NONE
      BY <3>2
    <3>3. CASE rows[j] # NONE /\ (list')[j] = Present(j)
      BY <3>3, PresentIsShown DEF HasRow
    <3> QED BY <2>1, <3>1, <3>2, <3>3
  <2>3. list' = [j \in Jobs |-> (list')[j]]
    BY <2>1
  <2>4. list' \in [Jobs -> Shown \union {NONE}]
    BY <2>2, <2>3
  <2>5. UNCHANGED historyItems
    BY <1>2 DEF RefreshHistory
  <2> QED BY <1>0, <2>2, <2>4, <2>5 DEF PageShows
<1>3. CASE ListDelivered
  <2>1. list # NONE /\ historyItems' = ReconcileHistoryItemsFromList(list) /\ list' = NONE
    BY <1>3 DEF ListDelivered
  <2>2. /\ historyItems' \in [Jobs -> Shown \union {NONE}]
        /\ \A j \in Jobs : (historyItems')[j] \in {historyItems[j], list[j]}
    BY <2>1, ReconciledShows
  <2> QED BY <1>0, <2>1, <2>2 DEF PageShows
<1>4. ASSUME NEW v \in Shown, HasRow(v.job), UpsertHistoryItem(v), list' = NONE
      PROVE  /\ historyItems' \in [Jobs -> Shown \union {NONE}]
             /\ list' \in [Jobs -> Shown \union {NONE}] \union {NONE}
             /\ PageShows(historyItems)'
             /\ (list # NONE => PageShows(list))'
  BY <1>0, <1>4, UpsertShows DEF PageShows
<1>5. ASSUME NEW t \in Starters, StartShown(t)
      PROVE  \E v \in Shown : HasRow(v.job) /\ UpsertHistoryItem(v) /\ list' = NONE
  <2>1. PICK v \in Fetched(t) : UpsertHistoryItem(v)
    BY <1>5 DEF StartShown
  <2>2. v \in Shown /\ v.job = starts[t].job /\ HasRow(starts[t].job)
    BY <1>5, FetchedIsShown DEF StartShown, DashboardInv, ThreadIsSound
  <2> QED BY <1>5, <2>1, <2>2 DEF StartShown
<1>6. ASSUME NEW p \in pollers, PollEnded(p)
      PROVE  \E v \in Shown : HasRow(v.job) /\ UpsertHistoryItem(v) /\ list' = NONE
  <2>1. p.reply \in Shown /\ p.reply.job = p.job /\ HasRow(p.job)
    BY <1>6 DEF PollEnded, DashboardInv, PollerIsSound
  <2> QED BY <1>6, <2>1 DEF PollEnded
<1> QED BY <1>1, <1>2, <1>3, <1>4, <1>5, <1>6 DEF DashboardNext, Silent, PollAnswered

-----------------------------------------------------------------------------
(* Starts.                                                                 *)

\* The steps of the pollers and of the backend leave every start alone.
LEMMA OthersLeaveStarts ==
  ASSUME DashboardNext
  PROVE  \/ UNCHANGED <<starts, generation>>
         \/ \E t \in Starters, s \in Scopes : BeginStart(t, s) /\ t # "resume"
         \/ \E s \in Scopes : Resume(s)
         \/ \E t \in Starters : StartAnswered(t) \/ StartFails(t) \/ StartShown(t)
         \/ ResumeShown
<1>1. ASSUME NEW j \in Jobs, RetryJob(j)
      PROVE  \E t \in Starters, s \in Scopes : BeginStart(t, s) /\ t # "resume"
  BY <1>1, DashboardAssumption DEF RetryJob, Starters
<1>2. ASSUME NEW s \in Scopes, StartAnalysisFromUi(s)
      PROVE  \E t \in Starters, x \in Scopes : BeginStart(t, x) /\ t # "resume"
  BY <1>2 DEF StartAnalysisFromUi, Starters
<1> QED BY <1>1, <1>2
        DEF DashboardNext, WorkerStep, Worker, RefreshHistory, ListDelivered, PollServed,
            PollAnswered, PollIgnored, PollReleased, PollShown, PollEnded, tracked

\* What a step may make of the start t and of those that are not t.
LEMMA ThreadTypes ==
  ASSUME DashboardInv, DashboardNext
  PROVE  starts' \in [Starters -> Thread] /\ generation' \in 0 .. MaxGeneration
         /\ activeJobId' \in Jobs \union {NONE}
<1>0. /\ starts \in [Starters -> Thread] /\ generation \in 0 .. MaxGeneration /\ generation \in Nat
      /\ activeJobId \in Jobs \union {NONE} /\ MaxGeneration \in Nat
      /\ historyItems \in [Jobs -> Shown \union {NONE}]
  BY PageTypes
<1>1. Idle \in Thread
  BY <1>0 DEF Idle, Thread
<1>2. ASSUME NEW t \in Starters, NEW s \in Scopes, BeginStart(t, s)
      PROVE  starts' \in [Starters -> Thread] /\ generation' \in 0 .. MaxGeneration
             /\ activeJobId' \in Jobs \union {NONE}
  <2>1. PICK next : next = generation + 1
    OBVIOUS
  <2>2. next \in 0 .. MaxGeneration /\ generation' = next
    BY <1>0, <1>2, <2>1 DEF BeginStart
  <2>3. PICK thread : thread = [Idle EXCEPT !.pc = "posting", !.scope = s, !.gen = next]
    OBVIOUS
  <2>4. thread \in Thread
    BY <1>0, <2>2, <2>3 DEF Idle, Thread
  <2>5. starts' = [starts EXCEPT ![t] = thread] /\ UNCHANGED activeJobId
    BY <1>2, <2>1, <2>3 DEF BeginStart
  <2> QED BY <1>0, <2>2, <2>4, <2>5
<1>3. ASSUME NEW s \in Scopes, Resume(s)
      PROVE  starts' \in [Starters -> Thread] /\ generation' \in 0 .. MaxGeneration
             /\ activeJobId' \in Jobs \union {NONE}
  <2>1. PICK j \in ActiveInHistory(s) :
          /\ activeJobId' = j
          /\ starts' = [starts EXCEPT !["resume"] =
               [pc |-> "getting", job |-> j, scope |-> s, gen |-> generation + 1,
                known |-> historyItems[j]]]
    BY <1>3 DEF Resume
  <2>2. j \in Jobs /\ historyItems[j] \in Shown
    BY <1>0 DEF ActiveInHistory
  <2>3. PICK thread : thread = [pc |-> "getting", job |-> j, scope |-> s, gen |-> generation + 1,
                                known |-> historyItems[j]]
    OBVIOUS
  <2>4. generation + 1 \in 0 .. MaxGeneration /\ generation' = generation + 1
    BY <1>0, <1>3 DEF Resume
  <2>5. thread \in Thread
    BY <2>2, <2>3, <2>4 DEF Thread
  <2> QED BY <1>0, <2>1, <2>2, <2>3, <2>4, <2>5
<1>4. ASSUME NEW t \in Starters, StartAnswered(t)
      PROVE  starts' \in [Starters -> Thread] /\ generation' \in 0 .. MaxGeneration
             /\ activeJobId' \in Jobs \union {NONE}
  <2>1. UNCHANGED generation
    BY <1>4 DEF StartAnswered
  <2>2. CASE ThreadGoes(t, Idle) /\ UNCHANGED activeJobId
    BY <1>0, <1>1, <2>1, <2>2 DEF ThreadGoes
  <2>3. ASSUME NEW j \in Jobs, activeJobId' = j,
               ThreadGoes(t, [starts[t] EXCEPT !.pc = "getting", !.job = j])
        PROVE  starts' \in [Starters -> Thread] /\ activeJobId' \in Jobs \union {NONE}
    <3>1. PICK old : old = starts[t]
      OBVIOUS
    <3>2. PICK thread : thread = [old EXCEPT !.pc = "getting", !.job = j]
      OBVIOUS
    <3>3. thread \in Thread
      BY <1>0, <3>1, <3>2 DEF Thread
    <3> QED BY <1>0, <2>3, <3>1, <3>2, <3>3 DEF ThreadGoes
  <2> QED BY <1>0, <1>4, <2>1, <2>2, <2>3 DEF StartAnswered
<1>5. CASE \/ \E t \in Starters : StartFails(t) \/ StartShown(t)
           \/ ResumeShown
  BY <1>0, <1>1, <1>5 DEF StartFails, StartShown, ResumeShown, ThreadGoes, tracked, Starters
<1>6. ASSUME UNCHANGED <<starts, generation>>
      PROVE  activeJobId' \in Jobs \union {NONE}
  BY <1>0, <1>6
     DEF DashboardNext, WorkerStep, Worker, RetryJob, StartAnalysisFromUi, BeginStart, Resume,
         RefreshHistory, ListDelivered, StartAnswered, StartFails, StartShown, ResumeShown,
         PollServed, PollAnswered, PollIgnored, PollReleased, PollShown, PollEnded, tracked,
         ActiveInHistory
<1> QED BY <1>0, <1>2, <1>3, <1>4, <1>5, <1>6, OthersLeaveStarts

\* The steps of the pollers and of the backend, and the answered list.
Elsewhere ==
  \/ UNCHANGED <<activeJobId, pollers>>
  \/ \E p \in pollers :
       \/ PollServed(p) \/ PollIgnored(p) \/ PollShown(p) \/ PollEnded(p)
       \/ PollReleased(p)

LEMMA PollersOfElsewhere ==
  ASSUME DashboardInv, Elsewhere
  PROVE  /\ \A q \in pollers' : \E p \in pollers : q.gen = p.gen /\ q.job = p.job
         /\ UNCHANGED activeJobId \/ \E p \in pollers : p.gen = generation
<1>0. pollers \subseteq PollerRecord
  BY PageTypes
<1>1. ASSUME NEW p \in pollers, NEW fetch, NEW reply, NEW q \in Fetch(p, fetch, reply)
      PROVE  \E x \in pollers : q.gen = x.gen /\ q.job = x.job
  BY <1>0, <1>1 DEF Fetch, PollerRecord
<1>2. ASSUME NEW p \in pollers, PollServed(p) \/ PollIgnored(p) \/ PollShown(p) \/ PollEnded(p)
      PROVE  /\ \A q \in pollers' : \E x \in pollers : q.gen = x.gen /\ q.job = x.job
             /\ UNCHANGED activeJobId
  BY <1>1, <1>2 DEF PollServed, PollIgnored, PollShown, PollEnded, AfterAnswer, tracked
<1>3. ASSUME NEW p \in pollers, PollReleased(p)
      PROVE  pollers' = {} /\ p.gen = generation
  BY <1>3 DEF PollReleased, IsCurrent
<1> QED BY <1>2, <1>3 DEF Elsewhere

LEMMA StepsElsewhere ==
  ASSUME DashboardNext, UNCHANGED <<starts, generation>>
  PROVE  \/ Elsewhere
         \/ \E t \in Starters : StartAnswered(t) \/ StartFails(t) \/ StartShown(t)
         \/ \E t \in Starters, s \in Scopes : BeginStart(t, s) /\ t # "resume"
         \/ \E s \in Scopes : Resume(s)
         \/ ResumeShown
<1>1. ASSUME NEW j \in Jobs, RetryJob(j)
      PROVE  \E t \in Starters, s \in Scopes : BeginStart(t, s) /\ t # "resume"
  BY <1>1, DashboardAssumption DEF RetryJob, Starters
<1>2. ASSUME NEW s \in Scopes, StartAnalysisFromUi(s)
      PROVE  \E t \in Starters, x \in Scopes : BeginStart(t, x) /\ t # "resume"
  BY <1>2 DEF StartAnalysisFromUi, Starters
<1>3. ASSUME \/ \E j \in Jobs : WorkerStep(j)
             \/ RefreshHistory \/ ListDelivered
      PROVE  Elsewhere
  BY <1>3 DEF WorkerStep, Worker, RefreshHistory, ListDelivered, Elsewhere, tracked
<1> QED BY <1>1, <1>2, <1>3 DEF DashboardNext, PollAnswered, Elsewhere

\* Everything a start may do to the page, so that no other case is left.
Starts(t) ==
  \/ \E s \in Scopes : BeginStart(t, s) /\ t # "resume"
  \/ StartAnswered(t) \/ StartFails(t) \/ StartShown(t)
  \/ t = "resume" /\ (ResumeShown \/ \E s \in Scopes : Resume(s))

LEMMA Steps ==
  ASSUME DashboardNext
  PROVE  \/ Elsewhere /\ UNCHANGED <<starts, generation>>
         \/ \E t \in Starters : Starts(t)
<1>1. "resume" \in Starters
  BY DEF Starters
<1>2. CASE UNCHANGED <<starts, generation>>
  BY <1>1, <1>2, StepsElsewhere DEF Starts
<1>3. CASE ~ UNCHANGED <<starts, generation>>
  BY <1>1, <1>3, OthersLeaveStarts DEF Starts
<1> QED BY <1>2, <1>3

\* A start writes its own thread.
LEMMA OtherThreadsWait ==
  ASSUME DashboardInv, NEW t \in Starters, Starts(t)
  PROVE  \A u \in Starters : u # t => (starts')[u] = starts[u]
<1>1. starts \in [Starters -> Thread] /\ "resume" \in Starters
  BY PageTypes DEF Starters
<1> QED BY <1>1
        DEF Starts, BeginStart, StartAnswered, StartFails, StartShown, ResumeShown, Resume, ThreadGoes

\* What the start t becomes, and what it does to the generation, the active job and the
\* pollers.
Begun(t) ==
  /\ generation' = generation + 1 /\ pollers' = {}
  /\ (starts')[t].gen = generation + 1
  /\ (starts')[t].pc \in {"posting", "getting"}
  /\ (starts')[t].pc = "posting" => t # "resume"
  /\ (starts')[t].pc = "getting" =>
       /\ (starts')[t].job \in Jobs /\ HasRow((starts')[t].job)
       /\ activeJobId' = (starts')[t].job
       /\ (starts')[t].known \in Shown /\ (starts')[t].known.job = (starts')[t].job

Answered(t) ==
  /\ UNCHANGED <<generation, pollers>>
  /\ starts[t].gen = generation /\ Busy(t) /\ t # "resume"
  /\ (starts')[t].pc = "getting" /\ (starts')[t].gen = generation
  /\ (starts')[t].job \in Jobs /\ (rows')[(starts')[t].job] # NONE
  /\ activeJobId' = (starts')[t].job

GivesUp(t) ==
  /\ UNCHANGED <<generation, pollers, activeJobId>>
  /\ (starts')[t].pc = "idle"

BeginsToPoll(t) ==
  /\ UNCHANGED <<generation, activeJobId>>
  /\ starts[t].pc = "getting" /\ (starts')[t].pc = "idle"
  /\ pollers' = {Poller(starts[t].job, starts[t].gen)}

LEMMA StartEffects ==
  ASSUME DashboardInv, NEW t \in Starters, Starts(t)
  PROVE  Begun(t) \/ Answered(t) \/ GivesUp(t) \/ BeginsToPoll(t)
<1>0. /\ starts \in [Starters -> Thread] /\ rows \in [Jobs -> JobRow \union {NONE}]
      /\ generation \in Nat /\ historyItems \in [Jobs -> Shown \union {NONE}]
  BY PageTypes
<1>1. ASSUME NEW s \in Scopes, BeginStart(t, s), t # "resume" PROVE Begun(t)
  <2>1. (starts')[t] = [Idle EXCEPT !.pc = "posting", !.scope = s, !.gen = generation + 1]
    BY <1>0, <1>1 DEF BeginStart
  <2>2. (starts')[t].pc = "posting" /\ (starts')[t].gen = generation + 1
    BY <2>1 DEF Idle
  <2> QED BY <1>1, <2>2 DEF BeginStart, Begun
<1>2. ASSUME NEW s \in Scopes, Resume(s), t = "resume" PROVE Begun(t)
  <2>1. PICK j \in ActiveInHistory(s) :
          /\ activeJobId' = j
          /\ starts' = [starts EXCEPT !["resume"] =
               [pc |-> "getting", job |-> j, scope |-> s, gen |-> generation + 1,
                known |-> historyItems[j]]]
    BY <1>2 DEF Resume
  <2>2. j \in Jobs /\ historyItems[j] \in Shown /\ historyItems[j].job = j /\ HasRow(j)
    BY DEF ActiveInHistory, DashboardInv, PageShows
  <2>3. /\ (starts')[t].pc = "getting" /\ (starts')[t].job = j
        /\ (starts')[t].gen = generation + 1 /\ (starts')[t].known = historyItems[j]
    BY <1>0, <1>2, <2>1
  <2> QED BY <1>2, <2>1, <2>2, <2>3 DEF Resume, Begun
<1>3. CASE StartAnswered(t)
  <2>1. PICK j \in Jobs :
          /\ (rows')[j] # NONE
          /\ \/ /\ starts[t].gen = generation /\ activeJobId' = j
                /\ ThreadGoes(t, [starts[t] EXCEPT !.pc = "getting", !.job = j])
             \/ ThreadGoes(t, Idle) /\ UNCHANGED activeJobId
    <3>1. PICK j \in {j \in Jobs : ScopeOf[j] = starts[t].scope} :
            /\ \/ rows[j] # NONE /\ IsBlockingSameScopeStart(rows[j]) /\ UNCHANGED rows
               \/ rows[j] = NONE /\ rows' = [rows EXCEPT ![j] = NewRow]
            /\ IF starts[t].gen = generation
               THEN /\ activeJobId' = j
                    /\ ThreadGoes(t, [starts[t] EXCEPT !.pc = "getting", !.job = j])
               ELSE ThreadGoes(t, Idle) /\ UNCHANGED activeJobId
      BY <1>3 DEF StartAnswered
    <3>2. (rows')[j] # NONE
      BY <1>0, <3>1, BackendRows, NoneIsNoRow
    <3> QED BY <3>1, <3>2
  <2>2. UNCHANGED <<generation, pollers>> /\ starts[t].pc = "posting" /\ t # "resume"
    BY <1>3 DEF StartAnswered, DashboardInv, ThreadIsSound
  <2>3. CASE ThreadGoes(t, Idle) /\ UNCHANGED activeJobId
    BY <1>0, <2>2, <2>3 DEF ThreadGoes, Idle, GivesUp
  <2>4. CASE /\ starts[t].gen = generation /\ activeJobId' = j
             /\ ThreadGoes(t, [starts[t] EXCEPT !.pc = "getting", !.job = j])
    <3>1. (starts')[t] = [starts[t] EXCEPT !.pc = "getting", !.job = j]
      BY <1>0, <2>4 DEF ThreadGoes
    <3>2. /\ (starts')[t].pc = "getting" /\ (starts')[t].job = j
          /\ (starts')[t].gen = starts[t].gen
      BY <1>0, <3>1 DEF Thread
    <3> QED BY <2>1, <2>2, <2>4, <3>2 DEF Busy, Answered
  <2> QED BY <2>1, <2>3, <2>4
<1>4. CASE StartFails(t)
  BY <1>0, <1>4 DEF StartFails, ThreadGoes, Idle, GivesUp, tracked
<1>5. CASE StartShown(t)
  BY <1>0, <1>5 DEF StartShown, ThreadGoes, Idle, BeginsToPoll, BeginPolling
<1>6. CASE ResumeShown /\ t = "resume"
  <2>1. PICK v \in Fetched("resume") :
          pollers' = IF IsTerminalJobStatus(v) THEN pollers
                     ELSE BeginPolling(v.job, starts["resume"].gen)
    BY <1>6 DEF ResumeShown
  <2>2. v.job = starts[t].job
    BY <1>6, FetchedIsShown DEF ResumeShown
  <2>3. /\ UNCHANGED <<generation, activeJobId>> /\ (starts')[t].pc = "idle"
        /\ starts[t].pc = "getting"
    BY <1>0, <1>6 DEF ResumeShown, ThreadGoes, Idle
  <2> QED BY <1>6, <2>1, <2>2, <2>3 DEF GivesUp, BeginsToPoll, BeginPolling
<1> QED BY <1>1, <1>2, <1>3, <1>4, <1>5, <1>6 DEF Starts

LEMMA ThreadsNext ==
  ASSUME DashboardInv, DashboardNext
  PROVE  (\A u \in Starters : ThreadIsSound(u))' /\ OneLatest'
<1>0. /\ generation \in Nat /\ \A j \in Jobs : HasRow(j) => HasRow(j)'
      /\ \A u \in Starters : ThreadIsSound(u)
      /\ OneLatest /\ starts \in [Starters -> Thread]
      /\ \A p \in pollers : p.gen \in Nat /\ p.gen <= generation
  BY PageTypes, RowsStay DEF DashboardInv, PollerIsSound
<1>1. CASE Elsewhere /\ UNCHANGED <<starts, generation>>
  <2>1. /\ \A q \in pollers' : \E p \in pollers : q.gen = p.gen /\ q.job = p.job
        /\ UNCHANGED activeJobId \/ \E p \in pollers : p.gen = generation
    BY <1>1, PollersOfElsewhere
  <2>2. ASSUME NEW u \in Starters PROVE ThreadIsSound(u)'
    <3>1. ThreadIsSound(u)
      BY <1>0
    <3> QED BY <1>0, <1>1, <2>1, <3>1 DEF ThreadIsSound, IsLatest, Busy, HasRow
  <2> QED BY <1>0, <1>1, <2>2 DEF OneLatest, IsLatest, Busy
<1>2. ASSUME NEW t \in Starters, Begun(t), \A u \in Starters : u # t => (starts')[u] = starts[u]
      PROVE  (\A u \in Starters : ThreadIsSound(u))' /\ OneLatest'
  <2>1. ASSUME NEW u \in Starters, u # t PROVE ThreadIsSound(u)' /\ ~IsLatest(u)'
    <3>1. ThreadIsSound(u) /\ (starts')[u] = starts[u] /\ generation' = generation + 1
      BY <1>0, <1>2, <2>1 DEF Begun
    <3>2. Busy(u) => starts[u].gen \in Nat /\ starts[u].gen <= generation /\ 1 <= starts[u].gen
      BY <1>0, <3>1 DEF ThreadIsSound
    <3>3. Busy(u) => starts[u].gen \in 1 .. (generation + 1) /\ starts[u].gen # generation + 1
      BY <1>0, <3>2
    <3> QED BY <1>0, <3>1, <3>3 DEF ThreadIsSound, IsLatest, Busy, HasRow
  <2>2. ThreadIsSound(t)'
    <3>1. generation + 1 \in 1 .. (generation + 1)
      BY <1>0
    <3>2. \A j \in Jobs : HasRow(j) => (rows')[j] # NONE
      BY <1>0 DEF HasRow
    <3> QED BY <1>2, <3>1, <3>2 DEF Begun, ThreadIsSound, IsLatest, Busy, HasRow
  <2> QED BY <2>1, <2>2 DEF OneLatest
<1>3. ASSUME NEW t \in Starters, Answered(t), \A u \in Starters : u # t => (starts')[u] = starts[u]
      PROVE  (\A u \in Starters : ThreadIsSound(u))' /\ OneLatest'
  <2>1. IsLatest(t)
    BY <1>3 DEF Answered, IsLatest
  <2>2. ASSUME NEW u \in Starters, u # t PROVE ThreadIsSound(u)' /\ ~IsLatest(u)'
    <3>1. ThreadIsSound(u) /\ (starts')[u] = starts[u] /\ ~IsLatest(u)
      BY <1>0, <1>3, <2>1, <2>2 DEF OneLatest
    <3> QED BY <1>0, <1>3, <3>1 DEF Answered, ThreadIsSound, IsLatest, Busy, HasRow
  <2>3. ThreadIsSound(t)'
    <3>1. ThreadIsSound(t)
      BY <1>0
    <3> QED BY <1>3, <2>1, <3>1 DEF Answered, ThreadIsSound, IsLatest, Busy, HasRow
  <2> QED BY <2>2, <2>3 DEF OneLatest
<1>4. ASSUME NEW t \in Starters, GivesUp(t), \A u \in Starters : u # t => (starts')[u] = starts[u]
      PROVE  (\A u \in Starters : ThreadIsSound(u))' /\ OneLatest'
  <2>1. ASSUME NEW u \in Starters, u # t PROVE ThreadIsSound(u)' /\ (IsLatest(u)' => IsLatest(u))
    <3>1. ThreadIsSound(u) /\ (starts')[u] = starts[u]
      BY <1>0, <1>4, <2>1
    <3> QED BY <1>0, <1>4, <3>1 DEF GivesUp, ThreadIsSound, IsLatest, Busy, HasRow
  <2>2. ThreadIsSound(t)' /\ ~IsLatest(t)'
    BY <1>4 DEF GivesUp, ThreadIsSound, IsLatest, Busy
  <2> QED BY <1>0, <2>1, <2>2 DEF OneLatest
<1>5. ASSUME NEW t \in Starters, BeginsToPoll(t),
             \A u \in Starters : u # t => (starts')[u] = starts[u]
      PROVE  (\A u \in Starters : ThreadIsSound(u))' /\ OneLatest'
  <2>1. \A p \in pollers' : p.gen = starts[t].gen
    BY <1>5 DEF BeginsToPoll, Poller
  <2>2. ASSUME NEW u \in Starters, u # t PROVE ThreadIsSound(u)' /\ (IsLatest(u)' => IsLatest(u))
    <3>1. ThreadIsSound(u) /\ (starts')[u] = starts[u]
      BY <1>0, <1>5, <2>2
    <3>2. IsLatest(u) => starts[t].gen # generation
      BY <1>0, <1>5, <2>2 DEF OneLatest, IsLatest, Busy, BeginsToPoll
    <3> QED BY <1>0, <1>5, <2>1, <3>1, <3>2 DEF BeginsToPoll, ThreadIsSound, IsLatest, Busy, HasRow
  <2>3. ThreadIsSound(t)' /\ ~IsLatest(t)'
    BY <1>5 DEF BeginsToPoll, ThreadIsSound, IsLatest, Busy
  <2> QED BY <1>0, <2>2, <2>3 DEF OneLatest
<1> QED BY <1>1, <1>2, <1>3, <1>4, <1>5, Steps, StartEffects, OtherThreadsWait

-----------------------------------------------------------------------------
(* Pollers.                                                                *)

LEMMA PolledNext ==
  ASSUME DashboardInv, Elsewhere, NEW q \in pollers'
  PROVE  /\ q \in PollerRecord
         /\ \E p \in pollers : q.gen = p.gen /\ q.job = p.job
         /\ q.fetch = "answered" => q.reply \in Shown /\ q.reply.job = q.job
<1>0. pollers \subseteq PollerRecord /\ \A p \in pollers : PollerIsSound(p)
  BY PageTypes DEF DashboardInv
<1>1. CASE q \in pollers
  BY <1>0, <1>1 DEF PollerIsSound
<1>2. ASSUME NEW p \in pollers, NEW v, q = [p EXCEPT !.fetch = "answered", !.reply = v],
             v \in Shown, v.job = p.job
      PROVE  /\ q \in PollerRecord /\ q.gen = p.gen /\ q.job = p.job
             /\ q.reply \in Shown /\ q.reply.job = q.job
  BY <1>0, <1>2 DEF PollerRecord
<1>3. ASSUME NEW p \in pollers, NEW fetch \in {"idle", "stopped"},
             q = [p EXCEPT !.fetch = fetch, !.reply = NONE]
      PROVE  q \in PollerRecord /\ q.gen = p.gen /\ q.job = p.job /\ q.fetch # "answered"
  BY <1>0, <1>3 DEF PollerRecord
<1>4. ASSUME NEW p \in pollers, PollServed(p)
      PROVE  \/ q \in pollers
             \/ /\ q = [p EXCEPT !.fetch = "answered", !.reply = Present(p.job)]
                /\ Present(p.job) \in Shown /\ Present(p.job).job = p.job
  <2>1. p.job \in Jobs /\ HasRow(p.job)
    BY <1>0 DEF PollerIsSound, PollerRecord
  <2> QED BY <1>4, <2>1, PresentIsShown DEF PollServed, Fetch
<1>5. ASSUME NEW p \in pollers, PollIgnored(p) \/ PollShown(p) \/ PollEnded(p)
      PROVE  \/ q \in pollers
             \/ \E fetch \in {"idle", "stopped"} : q = [p EXCEPT !.fetch = fetch, !.reply = NONE]
  BY <1>5 DEF PollIgnored, PollShown, PollEnded, AfterAnswer, Fetch
<1>6. ASSUME NEW p \in pollers, PollReleased(p)
      PROVE  FALSE
  BY <1>6 DEF PollReleased
<1>7. CASE \E p \in pollers : PollServed(p)
  BY <1>1, <1>2, <1>4, <1>7
<1>8. CASE \E p \in pollers : PollIgnored(p) \/ PollShown(p) \/ PollEnded(p)
  BY <1>1, <1>3, <1>5, <1>8
<1> QED BY <1>1, <1>6, <1>7, <1>8 DEF Elsewhere

LEMMA PollersNext ==
  ASSUME DashboardInv, DashboardNext
  PROVE  /\ pollers' \subseteq PollerRecord
         /\ (\A p \in pollers : PollerIsSound(p))'
<1>0. /\ generation \in Nat /\ pollers \subseteq PollerRecord
      /\ \A j \in Jobs : HasRow(j) => HasRow(j)'
      /\ \A p \in pollers : PollerIsSound(p) /\ p.job \in Jobs
  BY PageTypes, RowsStay DEF DashboardInv, PollerRecord
<1>1. CASE Elsewhere /\ UNCHANGED <<starts, generation>>
  <2>1. ASSUME NEW q \in pollers' PROVE q \in PollerRecord /\ PollerIsSound(q)'
    <3>1. PICK p \in pollers : q.gen = p.gen /\ q.job = p.job
      BY <1>1, PolledNext
    <3>2. PollerIsSound(p) /\ p.job \in Jobs /\ (HasRow(p.job) => HasRow(p.job)')
      BY <1>0
    <3>3. q.gen = generation => q.job = activeJobId'
      <4>1. CASE UNCHANGED activeJobId
        BY <3>1, <3>2, <4>1 DEF PollerIsSound
      <4>2. CASE \E x \in pollers : PollReleased(x)
        BY <4>2 DEF PollReleased
      <4> QED BY <1>1, <4>1, <4>2 DEF Elsewhere, PollServed, PollIgnored, PollShown, PollEnded, tracked
    <3> QED BY <1>1, <3>1, <3>2, <3>3, PolledNext DEF PollerIsSound, HasRow
  <2> QED BY <2>1
<1>2. CASE pollers' = {}
  BY <1>2
<1>3. ASSUME NEW t \in Starters, Answered(t)
      PROVE  /\ pollers' \subseteq PollerRecord
             /\ (\A p \in pollers : PollerIsSound(p))'
  <2>1. \A p \in pollers : p.gen # generation
    BY <1>3 DEF Answered, DashboardInv, ThreadIsSound, IsLatest
  <2> QED BY <1>0, <1>3, <2>1 DEF Answered, PollerIsSound, HasRow
<1>4. ASSUME NEW t \in Starters, GivesUp(t)
      PROVE  /\ pollers' \subseteq PollerRecord
             /\ (\A p \in pollers : PollerIsSound(p))'
  BY <1>0, <1>4 DEF GivesUp, PollerIsSound, HasRow
<1>5. ASSUME NEW t \in Starters, BeginsToPoll(t)
      PROVE  /\ pollers' \subseteq PollerRecord
             /\ (\A p \in pollers : PollerIsSound(p))'
  <2>1. /\ ThreadIsSound(t) /\ starts[t].pc = "getting" /\ starts[t].gen \in 0 .. MaxGeneration
        /\ generation \in 0 .. MaxGeneration /\ MaxGeneration \in Nat
    BY <1>5, PageTypes DEF BeginsToPoll, DashboardInv, Thread
  <2>2. /\ starts[t].gen \in 1 .. generation /\ starts[t].job \in Jobs /\ HasRow(starts[t].job)
        /\ starts[t].gen = generation => starts[t].job = activeJobId
    BY <2>1 DEF ThreadIsSound, Busy
  <2>3. starts[t].gen \in 1 .. MaxGeneration
    BY <1>0, <2>1, <2>2
  <2>4. PICK p : p = Poller(starts[t].job, starts[t].gen)
    OBVIOUS
  <2>5. p \in PollerRecord /\ p.gen = starts[t].gen /\ p.job = starts[t].job /\ p.fetch = "idle"
    BY <2>2, <2>3, <2>4 DEF Poller, PollerRecord
  <2> QED BY <1>0, <1>5, <2>2, <2>4, <2>5 DEF BeginsToPoll, PollerIsSound, HasRow
<1> QED BY <1>1, <1>2, <1>3, <1>4, <1>5, Steps, StartEffects DEF Begun

-----------------------------------------------------------------------------
(* The theorems.                                                           *)

LEMMA RefreshedNext ==
  ASSUME DashboardInv, DashboardNext
  PROVE  refreshed' \subseteq Jobs
<1>1. ASSUME NEW p \in pollers, PollEnded(p) PROVE refreshed' \subseteq Jobs
  <2>1. p.job \in Jobs /\ refreshed \subseteq Jobs
    BY PageTypes DEF PollerRecord
  <2> QED BY <1>1, <2>1 DEF PollEnded
<1>2. CASE UNCHANGED refreshed
  BY <1>2, PageTypes
<1> QED BY <1>1, <1>2
        DEF DashboardNext, WorkerStep, Worker, RetryJob, StartAnalysisFromUi, BeginStart, Resume,
            RefreshHistory, ListDelivered, StartAnswered, StartFails, StartShown, ResumeShown,
            PollServed, PollAnswered, PollIgnored, PollReleased, PollShown

LEMMA DashboardStep == DashboardInv /\ [DashboardNext]_dashboardVars => DashboardInv'
<1> SUFFICES ASSUME DashboardInv, [DashboardNext]_dashboardVars PROVE DashboardInv'
  OBVIOUS
<1>1. CASE UNCHANGED dashboardVars
  BY <1>1
     DEF dashboardVars, backend, tracked, DashboardInv, PageTypeOK, DashboardTypeOK, PageShows,
         ThreadIsSound, IsLatest, Busy, PollerIsSound, HasRow, OneLatest
<1>2. CASE DashboardNext
  <2>1. PageTypeOK'
    BY <1>2, RowsStay, ListsNext, ThreadTypes, PollersNext, RefreshedNext, PageTypes
       DEF PageTypeOK, DashboardTypeOK, PollerRecord
  <2> QED BY <1>2, <2>1, ListsNext, ThreadsNext, PollersNext DEF DashboardInv
<1> QED BY <1>1, <1>2

LEMMA DashboardStart == DashboardInit => DashboardInv
<1> SUFFICES ASSUME DashboardInit PROVE DashboardInv
  OBVIOUS
<1>1. rows \in [Jobs -> JobRow \union {NONE}]
  BY BackendRows DEF DashboardInit
<1>2. starts \in [Starters -> Thread] /\ \A t \in Starters : starts[t].pc = "idle"
  BY DashboardAssumption DEF DashboardInit, Idle, Thread
<1>3. /\ historyItems \in [Jobs -> Shown \union {NONE}] /\ \A j \in Jobs : historyItems[j] = NONE
      /\ list = NONE /\ generation = 0 /\ generation \in 0 .. MaxGeneration
      /\ pollers = {} /\ refreshed = {} /\ activeJobId = NONE /\ stageCompletion \in BOOLEAN
  BY DashboardAssumption DEF DashboardInit, NoPage
<1>4. PageTypeOK
  BY <1>1, <1>2, <1>3 DEF PageTypeOK, DashboardTypeOK
<1>5. \A t \in Starters : ThreadIsSound(t) /\ ~IsLatest(t)
  BY <1>2 DEF ThreadIsSound, IsLatest, Busy
<1> QED BY <1>3, <1>4, <1>5 DEF DashboardInv, PageShows, OneLatest

\* However starts, retries and resumptions overlap, and in whatever order their answers
\* arrive: Ec2AsyncJobController's generation keeps one start current.
THEOREM DashboardInvariant == DashboardSpec => []DashboardInv
BY DashboardStart, DashboardStep, PTL DEF DashboardSpec

\* Every job the page holds is shown as the API presents it, under its own id.
THEOREM DashboardTypes == DashboardSpec => []DashboardTypeOK
<1>1. DashboardInv => DashboardTypeOK
  BY DEF DashboardInv, PageTypeOK
<1> QED BY <1>1, DashboardInvariant, PTL

LEMMA ActiveStaysListed ==
  ASSUME DashboardInv, ActiveJobIsListed, DashboardNext
  PROVE  ActiveJobIsListed'
<1> DEFINE Gets(j) == \E t \in Starters \ {"resume"} : starts[t].pc = "getting" /\ starts[t].job = j
<1>0. /\ starts \in [Starters -> Thread] /\ "resume" \in Starters
      /\ historyItems \in [Jobs -> Shown \union {NONE}] /\ list \in [Jobs -> Shown \union {NONE}] \union {NONE}
      /\ activeJobId \in Jobs \union {NONE} /\ NONE \notin Shown
  BY PageTypes, NoneIsNoRow DEF Starters
<1>1. ASSUME UNCHANGED <<starts, historyItems>>, activeJobId' \in {activeJobId, NONE}
      PROVE  ActiveJobIsListed'
  BY <1>1 DEF ActiveJobIsListed
<1>2. ASSUME NEW t \in Starters, starts[t].pc # "getting" \/ t = "resume",
             \A u \in Starters : u # t => (starts')[u] = starts[u],
             UNCHANGED <<activeJobId, historyItems>>
      PROVE  ActiveJobIsListed'
  BY <1>2 DEF ActiveJobIsListed
<1>3. ASSUME NEW v \in Shown, HasRow(v.job), UpsertHistoryItem(v), UNCHANGED activeJobId,
             \A j \in Jobs : Gets(j) => j = v.job \/ Gets(j)'
      PROVE  ActiveJobIsListed'
  <2>1. /\ (historyItems')[v.job] = v
        /\ \A j \in Jobs : j # v.job => (historyItems')[j] = historyItems[j]
    BY <1>3, UpsertShows
  <2> QED BY <1>0, <1>3, <2>1 DEF ActiveJobIsListed
<1>4. ASSUME NEW t \in Starters, NEW s \in Scopes, BeginStart(t, s)
      PROVE  starts[t].pc # "getting" /\ UNCHANGED <<activeJobId, historyItems>>
  BY <1>4 DEF BeginStart, Idle
<1>5. ASSUME NEW s \in Scopes, Resume(s) PROVE ActiveJobIsListed'
  <2>1. PICK j \in ActiveInHistory(s) : activeJobId' = j
    BY <1>5 DEF Resume
  <2>2. historyItems[j] # NONE /\ UNCHANGED historyItems
    BY <1>5 DEF ActiveInHistory, Resume
  <2> QED BY <2>1, <2>2 DEF ActiveJobIsListed
<1>6. ASSUME NEW t \in Starters, StartAnswered(t) PROVE ActiveJobIsListed'
  <2>0. starts[t].pc = "posting" /\ t # "resume" /\ UNCHANGED historyItems
    BY <1>6 DEF StartAnswered, DashboardInv, ThreadIsSound
  <2>1. CASE ThreadGoes(t, Idle) /\ UNCHANGED activeJobId
    BY <1>0, <1>2, <2>0, <2>1 DEF ThreadGoes
  <2>2. ASSUME NEW j \in Jobs, activeJobId' = j,
               ThreadGoes(t, [starts[t] EXCEPT !.pc = "getting", !.job = j])
        PROVE  ActiveJobIsListed'
    <3>1. (starts')[t] = [starts[t] EXCEPT !.pc = "getting", !.job = j]
      BY <1>0, <2>2 DEF ThreadGoes
    <3>2. (starts')[t].pc = "getting" /\ (starts')[t].job = j
      BY <1>0, <3>1 DEF Thread
    <3> QED BY <2>0, <2>2, <3>2 DEF ActiveJobIsListed
  <2> QED BY <1>6, <2>1, <2>2 DEF StartAnswered
<1>7. ASSUME NEW t \in Starters, StartFails(t) PROVE ActiveJobIsListed'
  BY <1>0, <1>2, <1>7 DEF StartFails, ThreadGoes, tracked
<1>8. ASSUME NEW t \in Starters, StartShown(t) PROVE ActiveJobIsListed'
  <2>1. PICK v \in Fetched(t) : UpsertHistoryItem(v)
    BY <1>8 DEF StartShown
  <2>2. v \in Shown /\ v.job = starts[t].job /\ HasRow(v.job)
    BY <1>8, FetchedIsShown DEF StartShown, DashboardInv, ThreadIsSound
  <2>3. \A u \in Starters : u # t => (starts')[u] = starts[u]
    BY <1>8, OtherThreadsWait DEF Starts
  <2> QED BY <1>3, <1>8, <2>1, <2>2, <2>3 DEF StartShown
<1>9. ASSUME ResumeShown PROVE ActiveJobIsListed'
  BY <1>0, <1>2, <1>9 DEF ResumeShown, ThreadGoes
<1>10. ASSUME ListDelivered PROVE ActiveJobIsListed'
  <2>1. historyItems' = ReconcileHistoryItemsFromList(list) /\ UNCHANGED <<activeJobId, starts>>
    BY <1>10 DEF ListDelivered, tracked
  <2>2. activeJobId # NONE /\ historyItems[activeJobId] # NONE => (historyItems')[activeJobId] # NONE
    BY <1>0, <2>1 DEF ReconcileHistoryItemsFromList
  <2> QED BY <2>1, <2>2 DEF ActiveJobIsListed
<1>11. ASSUME NEW p \in pollers, PollEnded(p) PROVE ActiveJobIsListed'
  <2>1. p.reply \in Shown /\ HasRow(p.reply.job)
    BY <1>11 DEF PollEnded, DashboardInv, PollerIsSound
  <2> QED BY <1>3, <1>11, <2>1 DEF PollEnded
<1>12. ASSUME NEW p \in pollers, PollServed(p) \/ PollIgnored(p) \/ PollReleased(p) \/ PollShown(p)
       PROVE  ActiveJobIsListed'
  BY <1>1, <1>12 DEF PollServed, PollIgnored, PollReleased, PollShown, tracked
<1>13. ASSUME NEW j \in Jobs, WorkerStep(j) PROVE ActiveJobIsListed'
  BY <1>1, <1>13 DEF WorkerStep, Worker, tracked
<1>14. CASE RefreshHistory
  BY <1>1, <1>14 DEF RefreshHistory, tracked
<1>15. ASSUME NEW t \in Starters, NEW s \in Scopes, BeginStart(t, s) PROVE ActiveJobIsListed'
  <2>1. \A u \in Starters : u # t => (starts')[u] = starts[u]
    BY <1>0, <1>15 DEF BeginStart
  <2> QED BY <1>2, <1>4, <1>15, <2>1
<1>16. ASSUME NEW j \in Jobs, RetryJob(j) PROVE ActiveJobIsListed'
  BY <1>15, <1>16, DashboardAssumption DEF RetryJob, Starters
<1>17. ASSUME NEW s \in Scopes, StartAnalysisFromUi(s) PROVE ActiveJobIsListed'
  BY <1>15, <1>17 DEF StartAnalysisFromUi, Starters
<1> QED BY <1>5, <1>6, <1>7, <1>8, <1>9, <1>10, <1>11, <1>12, <1>13, <1>14, <1>16, <1>17
        DEF DashboardNext, PollAnswered

\* However starts and resumptions overlap, and whatever list is answered in between, by an
\* index that lags or before the job existed, the page keeps the job it follows in its
\* history: reconcileHistoryItemsFromList.
THEOREM ActiveJobsAreListed == DashboardSpec => []ActiveJobIsListed
<1>1. DashboardInit => ActiveJobIsListed
  BY DEF DashboardInit, ActiveJobIsListed
<1>2. DashboardInv /\ ActiveJobIsListed /\ [DashboardNext]_dashboardVars => ActiveJobIsListed'
  <2>1. CASE UNCHANGED dashboardVars
    BY <2>1 DEF dashboardVars, tracked, ActiveJobIsListed
  <2>2. CASE DashboardNext
    BY <2>2, ActiveStaysListed
  <2> QED BY <2>1, <2>2
<1> QED BY <1>1, <1>2, DashboardInvariant, PTL DEF DashboardSpec

\* A list that was answered before a job ended, or by an index that lags, never makes the
\* page show the job as running again: reconcileHistoryItemsFromList.
THEOREM ListsAreReconciled == DashboardSpec => ListsNeverRegress
<1> DEFINE Kept(j) ==
      historyItems[j] # NONE /\ IsTerminalJobStatus(historyItems[j]) =>
        \/ (historyItems')[j] # NONE /\ IsTerminalJobStatus((historyItems')[j])
        \/ \E t \in Starters :
             starts[t].pc = "getting" /\ starts[t].job = j /\ (starts')[t] = Idle
<1>1. ASSUME DashboardInv, DashboardNext, NEW j \in Jobs PROVE Kept(j)
  <2>1. CASE Silent \/ RefreshHistory
    BY <2>1, SilentSteps DEF RefreshHistory
  <2>2. CASE ListDelivered
    BY <2>2 DEF ListDelivered, ReconcileHistoryItemsFromList
  <2>3. ASSUME NEW t \in Starters, StartShown(t) PROVE Kept(j)
    <3>1. PICK v \in Fetched(t) : UpsertHistoryItem(v)
      BY <2>3 DEF StartShown
    <3>2. v \in Shown /\ v.job = starts[t].job /\ HasRow(v.job) /\ starts[t].pc = "getting"
      BY <1>1, <2>3, FetchedIsShown DEF StartShown, DashboardInv, ThreadIsSound
    <3>3. (starts')[t] = Idle
      BY <1>1, <2>3, PageTypes DEF StartShown, ThreadGoes
    <3>4. j # v.job => (historyItems')[j] = historyItems[j]
      BY <1>1, <3>1, <3>2, UpsertShows
    <3> QED BY <3>2, <3>3, <3>4
  <2>4. ASSUME NEW p \in pollers, PollEnded(p) PROVE Kept(j)
    <3>1. p.reply \in Shown /\ HasRow(p.reply.job) /\ IsTerminalJobStatus(p.reply)
          /\ UpsertHistoryItem(p.reply)
      BY <1>1, <2>4 DEF PollEnded, DashboardInv, PollerIsSound
    <3>2. /\ (historyItems')[p.reply.job] = p.reply
          /\ j # p.reply.job => (historyItems')[j] = historyItems[j]
      BY <1>1, <3>1, UpsertShows
    <3>3. p.reply # NONE
      BY <3>1, NoneIsNoRow
    <3> QED BY <3>1, <3>2, <3>3
  <2> QED BY <1>1, <2>1, <2>2, <2>3, <2>4 DEF DashboardNext, Silent, PollAnswered
<1>2. DashboardInv /\ [DashboardNext]_dashboardVars => [\A j \in Jobs : Kept(j)]_dashboardVars
  BY <1>1
<1> QED BY <1>2, DashboardInvariant, PTL DEF DashboardSpec, ListsNeverRegress
==============================================================================
