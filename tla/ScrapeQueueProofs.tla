------------------------- MODULE ScrapeQueueProofs -------------------------
(***************************************************************************)
(* Proofs about ScrapeQueue, for every value of its constants; and that    *)
(* one process without lost replies claims each job exclusively and        *)
(* implements JobLease.                                                    *)
(***************************************************************************)
EXTENDS ScrapeQueueLease, TLAPS

----------------------------------------------------------------------------
(* Rows: every helper returns a row. *)

LEMMA RowTypes ==
  ASSUME NEW row \in QueueRow
  PROVE  /\ ClaimedRow(row) \in QueueRow /\ DoneRow(row) \in QueueRow
         /\ ReleasedRow(row) \in QueueRow /\ RetriedRow(row) \in QueueRow
         /\ FailedRow(row) \in QueueRow
         /\ \A p \in Procs : Recovered(p, row) \in QueueRow
         /\ [row EXCEPT !.linked = TRUE] \in QueueRow
<1> USE DEF QueueRow, QueueStatus
<1>1. /\ ClaimedRow(row) \in QueueRow /\ DoneRow(row) \in QueueRow
      /\ ReleasedRow(row) \in QueueRow /\ RetriedRow(row) \in QueueRow
  BY DEF ClaimedRow, DoneRow, ReleasedRow, RetriedRow
<1>2. FailedRow(row) \in QueueRow
  BY CeilingAssumption DEF FailedRow, IsTerminal
<1>3. ASSUME NEW p \in Procs PROVE Recovered(p, row) \in QueueRow
  BY <1>1 DEF Recovered
<1>4. [row EXCEPT !.linked = TRUE] \in QueueRow
  OBVIOUS
<1> QED BY <1>1, <1>2, <1>3, <1>4

LEMMA MarkedTypes ==
  ASSUME NEW row \in QueueRow, NEW d \in BOOLEAN, NEW l \in BOOLEAN
  PROVE  MarkedRow(row, d, l) \in QueueRow
BY DEF MarkedRow, QueueRow, QueueStatus

Fields(row, status, retry, locked, linked) ==
  row.status = status /\ row.retry = retry /\ row.locked = locked /\ row.linked = linked

LEMMA RowFields ==
  ASSUME NEW row \in QueueRow
  PROVE  /\ Fields(ClaimedRow(row), "IN_PROGRESS", row.retry, TRUE, row.linked)
         /\ Fields(DoneRow(row), "DONE", row.retry, FALSE, row.linked)
         /\ Fields(ReleasedRow(row), "PENDING", row.retry, FALSE, row.linked)
         /\ Fields(RetriedRow(row), "PENDING", 0, row.locked, row.linked)
         /\ Fields([row EXCEPT !.linked = TRUE], row.status, row.retry, row.locked, TRUE)
         /\ Fields(SeededRow, "PENDING", 0, FALSE, TRUE)
         /\ IsTerminal(row.retry) => Fields(FailedRow(row), "FAILED", row.retry + 1, FALSE, row.linked)
         /\ ~IsTerminal(row.retry) => Fields(FailedRow(row), "PENDING", row.retry + 1, FALSE, row.linked)
         /\ ~IsTerminal(row.retry) => row.retry + 1 < MaxQueueRetries
<1> USE DEF Fields, QueueRow
<1>1. /\ Fields(ClaimedRow(row), "IN_PROGRESS", row.retry, TRUE, row.linked)
      /\ Fields(DoneRow(row), "DONE", row.retry, FALSE, row.linked)
      /\ Fields(ReleasedRow(row), "PENDING", row.retry, FALSE, row.linked)
      /\ Fields(RetriedRow(row), "PENDING", 0, row.locked, row.linked)
  BY DEF ClaimedRow, DoneRow, ReleasedRow, RetriedRow
<1>2. Fields([row EXCEPT !.linked = TRUE], row.status, row.retry, row.locked, TRUE)
  OBVIOUS
<1>3. Fields(SeededRow, "PENDING", 0, FALSE, TRUE)
  BY DEF SeededRow
<1>4. /\ IsTerminal(row.retry) => Fields(FailedRow(row), "FAILED", row.retry + 1, FALSE, row.linked)
      /\ ~IsTerminal(row.retry) => Fields(FailedRow(row), "PENDING", row.retry + 1, FALSE, row.linked)
      /\ ~IsTerminal(row.retry) => row.retry + 1 < MaxQueueRetries
  BY CeilingAssumption DEF FailedRow, IsTerminal
<1> QED BY <1>1, <1>2, <1>3, <1>4

\* What a mark_done leaves of a row.
LEMMA MarkedFields ==
  ASSUME NEW row \in QueueRow, NEW d \in BOOLEAN, NEW l \in BOOLEAN
  PROVE  /\ d => MarkedRow(row, d, l).status = row.status
         /\ ~d => MarkedRow(row, d, l).status = "DONE"
         /\ MarkedRow(row, d, l).retry = row.retry /\ MarkedRow(row, d, l).linked = row.linked
BY DEF MarkedRow, QueueRow

LEMMA UrlTypes ==
  ASSUME NEW url \in UrlRow, NEW row \in QueueRow
  PROVE  /\ FailedUrl(url, row) \in UrlRow
         /\ [url EXCEPT !.due = TRUE] \in UrlRow
<1>1. FailedUrl(url, row) \in UrlRow
  BY CeilingAssumption DEF FailedUrl, IsTerminal, UrlRow, QueueRow
<1>2. [url EXCEPT !.due = TRUE] \in UrlRow
  BY DEF UrlRow
<1> QED BY <1>1, <1>2

LEMMA ConstantRows ==
  /\ NoRow \in QueueRow /\ SeededRow \in QueueRow
  /\ NoUrl \in UrlRow /\ NewUrl \in UrlRow /\ ScrapedUrl \in UrlRow
  /\ LegacyRow \subseteq QueueRow
<1>1. MaxQueueRetries \in Nat
  BY CeilingAssumption
<1>2. LegacyRow \subseteq QueueRow
  <2> SUFFICES ASSUME NEW row \in LegacyRow PROVE row \in QueueRow
    OBVIOUS
  <2>1. PICK s \in QueueStatus \ {"ABSENT"} :
          row = [status |-> s, retry |-> IF s = "FAILED" THEN MaxQueueRetries ELSE 0,
                 locked |-> s = "IN_PROGRESS", linked |-> FALSE]
    BY DEF LegacyRow
  <2>2. (IF s = "FAILED" THEN MaxQueueRetries ELSE 0) \in Nat /\ (s = "IN_PROGRESS") \in BOOLEAN
    BY <1>1
  <2> QED BY <2>1, <2>2 DEF QueueRow
<1> QED BY <1>2 DEF NoRow, SeededRow, NoUrl, NewUrl, ScrapedUrl, QueueRow, QueueStatus, UrlRow

LEMMA WorkerTypes ==
  ASSUME NEW state \in WorkerState
  PROVE  /\ state.tries < 2 => [state EXCEPT !.tries = @ + 1] \in WorkerState
         /\ \A pc \in {"off", "claiming", "fatal", "exited"} : Idle(pc) \in WorkerState
BY DEF WorkerState, Idle, Copy

\* A worker's state after it has taken a job, or while it records a failure of it.
LEMMA CopyTypes ==
  ASSUME NEW pc \in {"working", "recording"}, NEW j \in Jobs, NEW linked \in BOOLEAN
  PROVE  /\ Copy(pc, j, linked) \in WorkerState
         /\ Copy(pc, j, linked).pc = pc /\ Copy(pc, j, linked).job = j
         /\ Copy(pc, j, linked).linked = linked /\ ~Copy(pc, j, linked).sawDone
BY DEF WorkerState, Copy

\* And after mark_done's SELECT.
Saw(state, d, l) == [state EXCEPT !.pc = "marking", !.sawDone = d, !.sawLocked = l]

LEMMA ReadTypes ==
  ASSUME NEW state \in WorkerState, NEW d \in BOOLEAN, NEW l \in BOOLEAN
  PROVE  /\ Saw(state, d, l) \in WorkerState
         /\ Saw(state, d, l).pc = "marking" /\ Saw(state, d, l).job = state.job
         /\ Saw(state, d, l).linked = state.linked
         /\ Saw(state, d, l).sawDone = d /\ Saw(state, d, l).sawLocked = l
BY DEF WorkerState, Saw

----------------------------------------------------------------------------
(* Type correctness *)

LEMMA TypeInit == Init => TypeOK
<1> SUFFICES ASSUME Init PROVE TypeOK
  OBVIOUS
<1>1. queue \in [Jobs -> QueueRow] /\ abandoned \subseteq Jobs
  BY ConstantRows, JobAssumption DEF Init
<1>2. urls \in [Jobs -> UrlRow]
  BY ConstantRows DEF Init
<1>3. worker \in [Workers -> WorkerState] /\ \A w \in Workers : ~Holds(w)
  BY DEF Init, Idle, Copy, WorkerState, Holds
<1> QED BY <1>1, <1>2, <1>3 DEF TypeOK, Init

\* What the two steps that keep a job make of the worker.
LEMMA ReadState ==
  ASSUME TypeOK, NEW w \in Workers, ReadRow(w)
  PROVE  /\ worker[w].job \in Jobs /\ worker[w].pc = "working"
         /\ \A v \in Workers \ {w} : worker'[v] = worker[v]
         /\ worker' \in [Workers -> WorkerState]
         /\ worker'[w].pc = "marking" /\ worker'[w].job = worker[w].job
         /\ worker'[w].linked = worker[w].linked
         /\ worker'[w].sawDone <=> queue[worker[w].job].status = "DONE"
         /\ worker'[w].sawLocked = queue[worker[w].job].locked
<1> USE DEF TypeOK
<1> DEFINE d == queue[worker[w].job].status = "DONE"
           l == queue[worker[w].job].locked
<1>1. worker[w].job \in Jobs /\ worker[w].pc = "working" /\ worker[w] \in WorkerState
  BY DEF ReadRow, Holds
<1>2. d \in BOOLEAN /\ l \in BOOLEAN
  BY <1>1 DEF QueueRow
<1>3. worker' = [worker EXCEPT ![w] = Saw(worker[w], d, l)]
  BY DEF ReadRow, Saw
<1>4. worker'[w] = Saw(worker[w], d, l) /\ \A v \in Workers \ {w} : worker'[v] = worker[v]
  BY <1>3
<1> HIDE DEF d, l
<1>5. /\ worker'[w] \in WorkerState /\ worker'[w].pc = "marking" /\ worker'[w].job = worker[w].job
      /\ worker'[w].linked = worker[w].linked /\ worker'[w].sawDone = d /\ worker'[w].sawLocked = l
  BY <1>1, <1>2, <1>4, ReadTypes
<1>6. worker' \in [Workers -> WorkerState]
  BY <1>3, <1>4, <1>5
<1> QED BY <1>1, <1>4, <1>5, <1>6 DEF d, l

LEMMA RecordingState ==
  ASSUME TypeOK, NEW w \in Workers, Holds(w), Recording(w)
  PROVE  /\ worker[w].job \in Jobs
         /\ \A v \in Workers \ {w} : worker'[v] = worker[v]
         /\ worker' \in [Workers -> WorkerState]
         /\ worker'[w].pc = "recording" /\ worker'[w].job = worker[w].job
         /\ worker'[w].linked = worker[w].linked /\ ~worker'[w].sawDone
<1>1. worker[w].job \in Jobs /\ worker[w].linked \in BOOLEAN /\ worker \in [Workers -> WorkerState]
  BY DEF TypeOK, WorkerState
<1>2. worker' = [worker EXCEPT ![w] = Copy("recording", worker[w].job, worker[w].linked)]
  BY DEF Recording
<1>3. Copy("recording", worker[w].job, worker[w].linked) \in WorkerState
  BY <1>1, CopyTypes
<1>4. worker'[w] = Copy("recording", worker[w].job, worker[w].linked)
  BY <1>1, <1>2
<1>5. worker' \in [Workers -> WorkerState] /\ \A v \in Workers \ {w} : worker'[v] = worker[v]
  BY <1>1, <1>2, <1>3
<1> QED BY <1>1, <1>4, <1>5, CopyTypes

LEMMA ClaimState ==
  ASSUME TypeOK, NEW w \in Workers, NEW j \in Jobs, Claim(w, j)
  PROVE  /\ \A v \in Workers \ {w} : worker'[v] = worker[v]
         /\ worker' \in [Workers -> WorkerState]
         /\ worker'[w].pc = "working" /\ worker'[w].job = j
         /\ worker'[w].linked = queue[j].linked /\ ~worker'[w].sawDone
<1>1. queue[j].linked \in BOOLEAN /\ worker \in [Workers -> WorkerState]
  BY DEF TypeOK, QueueRow
<1>2. worker' = [worker EXCEPT ![w] = Copy("working", j, queue[j].linked)]
  BY DEF Claim
<1>3. Copy("working", j, queue[j].linked) \in WorkerState
  BY <1>1, CopyTypes
<1>4. worker'[w] = Copy("working", j, queue[j].linked)
  BY <1>1, <1>2
<1>5. worker' \in [Workers -> WorkerState] /\ \A v \in Workers \ {w} : worker'[v] = worker[v]
  BY <1>1, <1>2, <1>3
<1> QED BY <1>4, <1>5, <1>1, CopyTypes

LEMMA TypeStep == TypeOK /\ [Next]_vars => TypeOK'
<1> SUFFICES ASSUME TypeOK, [Next]_vars PROVE TypeOK'
  OBVIOUS
<1> USE RowTypes, UrlTypes, ConstantRows, WorkerTypes DEF TypeOK
<1>1. ASSUME NEW j \in Jobs, Discover(j) \/ BecomeDue(j) \/ ListenerEnqueue(j) \/ RecoverFailedJob(j)
      PROVE TypeOK'
  <2>1. CASE Discover(j)
    BY <2>1 DEF Discover, Holds
  <2>2. CASE BecomeDue(j)
    BY <2>2 DEF BecomeDue, Holds
  <2>3. CASE ListenerEnqueue(j)
    BY <2>3 DEF ListenerEnqueue, Holds
  <2>4. CASE RecoverFailedJob(j)
    BY <2>4 DEF RecoverFailedJob, Holds
  <2> QED BY <1>1, <2>1, <2>2, <2>3, <2>4
<1>2. ASSUME NEW p \in Procs, Recover(p) PROVE TypeOK'
  <2>1. queue' \in [Jobs -> QueueRow]
    BY <1>2 DEF Recover
  <2>2. runs' \in Nat /\ proc' \in [Procs -> {"down", "recovered", "running"}]
    BY <1>2 DEF Recover
  <2> QED BY <1>2, <2>1, <2>2 DEF Recover, Holds
<1>3. ASSUME NEW p \in Procs, BootStep(p) PROVE TypeOK'
  <2>1. CASE DrainBatch(p)
    BY <2>1 DEF DrainBatch, Seed, Holds
  <2>2. CASE DrainDone(p)
    BY <2>2 DEF DrainDone, Holds, Idle, Copy
  <2> QED BY <1>3, <2>1, <2>2 DEF BootStep
<1>4. ASSUME NEW p \in Procs, Finish(p) PROVE TypeOK'
  BY <1>4 DEF Finish, Holds
<1>5. ASSUME NEW p \in Procs, Crash(p) PROVE TypeOK'
  <2>1. worker' \in [Workers -> WorkerState]
    BY <1>5 DEF Crash
  <2>2. abandoned' \subseteq Jobs
    BY <1>5 DEF Crash, HeldBy
  <2>3. \A w \in Workers : Holds(w)' => worker'[w].job \in Jobs
    BY <1>5 DEF Crash, Holds, Idle, Copy
  <2> QED BY <1>5, <2>1, <2>2, <2>3 DEF Crash
<1>6. ASSUME NEW w \in Workers, WorkerStep(w) PROVE TypeOK'
  <2> USE DEF Holds
  <2>1. ASSUME NEW j \in Jobs, Claim(w, j) PROVE TypeOK'
    <3>1. queue' \in [Jobs -> QueueRow]
      BY <2>1 DEF Claim
    <3>2. worker' \in [Workers -> WorkerState] /\ \A v \in Workers : Holds(v)' => worker'[v].job \in Jobs
      BY <2>1, ClaimState
    <3> QED BY <2>1, <3>1, <3>2 DEF Claim
  <2>2. ASSUME NEW j \in Jobs, ClaimReplyLost(w, j) PROVE TypeOK'
    BY <2>2 DEF ClaimReplyLost
  <2>3. CASE NoWork(w)
    BY <2>3 DEF NoWork, Idle, Copy
  <2>4. CASE CommitScrape(w) /\ (Succeed(w) \/ SucceedReplyLost(w))
    <3>1. worker[w].job \in Jobs
      BY <2>4 DEF CommitScrape
    <3>2. queue' \in [Jobs -> QueueRow] /\ urls' \in [Jobs -> UrlRow] /\ torn' \subseteq Jobs
      <4>1. worker[w].sawDone \in BOOLEAN /\ worker[w].sawLocked \in BOOLEAN
        BY DEF WorkerState
      <4>2. MarkedRow(queue[worker[w].job], worker[w].sawDone, worker[w].sawLocked) \in QueueRow
        BY <3>1, <4>1, MarkedTypes
      <4>3. queue' \in [Jobs -> QueueRow]
        BY <2>4, <3>1, <4>2 DEF CommitScrape
      <4>4. ScrapedUrl \in UrlRow
        BY DEF ScrapedUrl, UrlRow
      <4>5. urls' \in [Jobs -> UrlRow]
        BY <2>4, <3>1, <4>4 DEF CommitScrape
      <4>6. torn' \subseteq Jobs
        BY <2>4, <3>1 DEF CommitScrape
      <4> QED BY <4>3, <4>5, <4>6
    <3>3. CASE Succeed(w)
      <4>1. worker' = [worker EXCEPT ![w] = Idle("claiming")]
        BY <3>3 DEF Succeed
      <4>2. worker' \in [Workers -> WorkerState] /\ \A v \in Workers : Holds(v)' => worker'[v].job \in Jobs
        BY <4>1 DEF Holds, Idle, Copy
      <4> QED BY <2>4, <3>2, <4>2 DEF CommitScrape
    <3>4. CASE SucceedReplyLost(w)
      <4>1. worker' \in [Workers -> WorkerState] /\ \A v \in Workers : Holds(v)' => worker'[v].job \in Jobs
        BY <2>4, <3>4, RecordingState DEF SucceedReplyLost, CommitScrape
      <4> QED BY <2>4, <3>2, <4>1 DEF CommitScrape
    <3> QED BY <2>4, <3>3, <3>4
  <2>5. CASE Fail(w)
    <3>1. worker' \in [Workers -> WorkerState] /\ \A v \in Workers : Holds(v)' => worker'[v].job \in Jobs
      BY <2>5, RecordingState DEF Fail
    <3> QED BY <2>5, <3>1 DEF Fail
  <2>11. CASE ReadRow(w)
    <3>1. worker' \in [Workers -> WorkerState] /\ \A v \in Workers : Holds(v)' => worker'[v].job \in Jobs
      BY <2>11, ReadState
    <3> QED BY <2>11, <3>1 DEF ReadRow
  <2>6. CASE Release(w)
    BY <2>6 DEF Release, ReleaseToPending, Idle, Copy
  <2>7. CASE RecordFailure(w)
    BY <2>7 DEF RecordFailure, CommitFailure, Idle, Copy
  <2>8. CASE RestartAfterFatal(w)
    BY <2>8 DEF RestartAfterFatal, Idle, Copy
  <2>9. ASSUME NEW committed \in BOOLEAN, RecordFailureRaises(w, committed) PROVE TypeOK'
    <3>1. worker[w].job \in Jobs
      BY <2>9 DEF RecordFailureRaises
    <3>2. queue' \in [Jobs -> QueueRow] /\ urls' \in [Jobs -> UrlRow]
      <4>1. CASE committed
        <5>1. CommitFailure(worker[w].job)
          BY <2>9, <4>1 DEF RecordFailureRaises
        <5> QED BY <3>1, <5>1 DEF CommitFailure
      <4>2. CASE ~committed
        BY <2>9, <4>2 DEF RecordFailureRaises
      <4> QED BY <4>1, <4>2
    <3>3. worker' \in [Workers -> WorkerState]
      <4>1. CASE MoreTries(worker[w].tries) /\ worker' = [worker EXCEPT ![w].tries = @ + 1]
        BY <4>1 DEF MoreTries
      <4>2. CASE worker' = [worker EXCEPT ![w] = Idle("fatal")]
        BY <4>2
      <4> QED BY <2>9, <4>1, <4>2 DEF RecordFailureRaises
    <3>4. \A v \in Workers : Holds(v)' => worker'[v].job \in Jobs
      <4>1. CASE MoreTries(worker[w].tries)
        <5>1. worker' = [worker EXCEPT ![w].tries = @ + 1]
          BY <2>9, <4>1 DEF RecordFailureRaises
        <5>2. \A v \in Workers : worker'[v].pc = worker[v].pc /\ worker'[v].job = worker[v].job
          BY <5>1 DEF WorkerState
        <5> QED BY <5>2
      <4>2. CASE ~MoreTries(worker[w].tries)
        BY <2>9, <4>2 DEF RecordFailureRaises, Idle, Copy
      <4> QED BY <4>1, <4>2
    <3>5. abandoned' \subseteq Jobs
      BY <2>9, <3>1 DEF RecordFailureRaises
    <3> QED BY <2>9, <3>2, <3>3, <3>4, <3>5 DEF RecordFailureRaises
  <2>10. ASSUME NEW committed \in BOOLEAN, ReleaseRaises(w, committed) PROVE TypeOK'
    <3>1. worker[w].job \in Jobs
      BY <2>10 DEF ReleaseRaises
    <3>2. queue' \in [Jobs -> QueueRow]
      <4>1. CASE committed
        <5>1. ReleaseToPending(worker[w].job)
          BY <2>10, <4>1 DEF ReleaseRaises
        <5> QED BY <3>1, <5>1 DEF ReleaseToPending
      <4>2. CASE ~committed
        BY <2>10, <4>2 DEF ReleaseRaises
      <4> QED BY <4>1, <4>2
    <3> QED BY <2>10, <3>1, <3>2 DEF ReleaseRaises, Idle, Copy
  <2> QED BY <1>6, <2>1, <2>2, <2>3, <2>4, <2>5, <2>6, <2>7, <2>8, <2>9, <2>10, <2>11
          DEF WorkerStep, Succeed, SucceedReplyLost
<1>7. CASE UNCHANGED vars
  BY <1>7 DEF vars, Holds
<1> QED BY <1>1, <1>2, <1>3, <1>4, <1>5, <1>6, <1>7 DEF Next

\* Every reachable state is well typed.
THEOREM TypeCorrect == Spec => []TypeOK
<1>1. Init => TypeOK
  BY TypeInit
<1>2. TypeOK /\ [Next]_vars => TypeOK'
  BY TypeStep
<1> QED BY <1>1, <1>2, PTL DEF Spec
----------------------------------------------------------------------------
(* What a step may do to one queue row *)

RowStep(j) ==
  \/ queue'[j] = queue[j]
  \/ queue[j].status = "PENDING" /\ queue'[j] = ClaimedRow(queue[j])
  \/ /\ Held(j)
     /\ queue'[j] = DoneRow(queue[j]) \/ queue'[j] = FailedRow(queue[j])
  \/ Held(j) /\ j \in torn' /\ \E d, l \in BOOLEAN : queue'[j] = MarkedRow(queue[j], d, l)
  \/ queue[j].status = "IN_PROGRESS" /\ queue'[j] = ReleasedRow(queue[j])
  \/ queue[j].status = "FAILED" /\ queue'[j] = RetriedRow(queue[j])
  \/ queue[j].status \in {"ABSENT", "DONE"} /\ queue'[j] = SeededRow
  \/ queue[j].status # "ABSENT" /\ queue'[j] = [queue[j] EXCEPT !.linked = TRUE]

\* The row that a mark_done commits, and whether it is torn.
LEMMA CommitRow ==
  ASSUME TypeOK, NEW w \in Workers, CommitScrape(w)
  PROVE  /\ Holds(w) /\ worker[w].job \in Jobs
         /\ worker[w].sawDone \in BOOLEAN /\ worker[w].sawLocked \in BOOLEAN
         /\ queue'[worker[w].job] = MarkedRow(queue[worker[w].job], worker[w].sawDone, worker[w].sawLocked)
         /\ \A i \in Jobs : i # worker[w].job => queue'[i] = queue[i]
         /\ queue'[worker[w].job] = DoneRow(queue[worker[w].job]) \/ worker[w].job \in torn'
         /\ torn \subseteq torn'
<1> USE DEF TypeOK
<1>1. Holds(w) /\ worker[w].job \in Jobs
  BY DEF CommitScrape, Holds
<1>2. worker[w].sawDone \in BOOLEAN /\ worker[w].sawLocked \in BOOLEAN
  BY DEF WorkerState
<1> QED BY <1>1, <1>2 DEF CommitScrape

\* Only the commit of a mark_done can tear a row.
LEMMA TornSteps == Next => torn' = torn \/ \E w \in Workers : CommitScrape(w)
<1> SUFFICES ASSUME Next PROVE torn' = torn \/ \E w \in Workers : CommitScrape(w)
  OBVIOUS
<1>1. ASSUME NEW j \in Jobs, Discover(j) \/ BecomeDue(j) \/ ListenerEnqueue(j) \/ RecoverFailedJob(j)
      PROVE  torn' = torn
  BY <1>1 DEF Discover, BecomeDue, ListenerEnqueue, RecoverFailedJob
<1>2. ASSUME NEW p \in Procs, Recover(p) \/ BootStep(p) \/ Finish(p) \/ Crash(p) PROVE torn' = torn
  BY <1>2 DEF Recover, BootStep, DrainBatch, DrainDone, Finish, Crash
<1>3. ASSUME NEW w \in Workers, WorkerStep(w), ~CommitScrape(w) PROVE torn' = torn
  <2>2. ASSUME NEW j \in Jobs, Claim(w, j) \/ ClaimReplyLost(w, j) PROVE torn' = torn
    BY <2>2 DEF Claim, ClaimReplyLost
  <2>3. ASSUME NEW committed \in BOOLEAN, RecordFailureRaises(w, committed) \/ ReleaseRaises(w, committed)
        PROVE  torn' = torn
    BY <2>3 DEF RecordFailureRaises, ReleaseRaises
  <2>4. CASE \/ NoWork(w) \/ ReadRow(w) \/ Fail(w) \/ Release(w) \/ RecordFailure(w)
             \/ RestartAfterFatal(w)
    BY <2>4 DEF NoWork, ReadRow, Fail, Release, RecordFailure, RestartAfterFatal
  <2> QED BY <1>3, <2>2, <2>3, <2>4 DEF WorkerStep, Succeed, SucceedReplyLost
<1> QED BY <1>1, <1>2, <1>3 DEF Next

LEMMA TornStep == Next => torn \subseteq torn'
BY TornSteps DEF CommitScrape

LEMMA RowSteps ==
  ASSUME TypeOK, Next, NEW j \in Jobs
  PROVE  RowStep(j)
<1> USE DEF TypeOK, RowStep, Held
<1>1. ASSUME NEW i \in Jobs, Discover(i) \/ BecomeDue(i) \/ ListenerEnqueue(i) \/ RecoverFailedJob(i)
      PROVE RowStep(j)
  BY <1>1 DEF Discover, BecomeDue, ListenerEnqueue, RecoverFailedJob
<1>2. ASSUME NEW p \in Procs, Recover(p) PROVE RowStep(j)
  BY <1>2 DEF Recover, Recovered
<1>3. ASSUME NEW p \in Procs, BootStep(p) PROVE RowStep(j)
  BY <1>3 DEF BootStep, DrainBatch, DrainDone, Seed, Upsertable
<1>4. ASSUME NEW p \in Procs, Finish(p) \/ Crash(p) PROVE RowStep(j)
  BY <1>4 DEF Finish, Crash
<1>5. ASSUME NEW w \in Workers, WorkerStep(w) PROVE RowStep(j)
  <2>1. ASSUME NEW i \in Jobs, Claim(w, i) \/ ClaimReplyLost(w, i) PROVE RowStep(j)
    BY <2>1 DEF Claim, ClaimReplyLost, Claimable
  <2>2. CASE NoWork(w) \/ ReadRow(w) \/ Fail(w) \/ RestartAfterFatal(w)
    BY <2>2 DEF NoWork, ReadRow, Fail, RestartAfterFatal
  <2>3. CASE CommitScrape(w)
    BY <2>3, CommitRow
  <2>4. CASE Release(w)
    BY <2>4 DEF Release, ReleaseToPending
  <2>5. CASE RecordFailure(w)
    BY <2>5 DEF RecordFailure, CommitFailure, Holds
  <2>6. ASSUME NEW committed \in BOOLEAN, RecordFailureRaises(w, committed) PROVE RowStep(j)
    <3>1. CASE committed
      <4>1. CommitFailure(worker[w].job) /\ Holds(w)
        BY <2>6, <3>1 DEF RecordFailureRaises, Holds
      <4> QED BY <4>1 DEF CommitFailure
    <3>2. CASE ~committed
      BY <2>6, <3>2 DEF RecordFailureRaises
    <3> QED BY <3>1, <3>2
  <2>7. ASSUME NEW committed \in BOOLEAN, ReleaseRaises(w, committed) PROVE RowStep(j)
    <3>1. CASE committed
      <4>1. ReleaseToPending(worker[w].job)
        BY <2>7, <3>1 DEF ReleaseRaises
      <4> QED BY <4>1 DEF ReleaseToPending
    <3>2. CASE ~committed
      BY <2>7, <3>2 DEF ReleaseRaises
    <3> QED BY <3>1, <3>2
  <2> QED BY <1>5, <2>1, <2>2, <2>3, <2>4, <2>5, <2>6, <2>7 DEF WorkerStep, Succeed, SucceedReplyLost
<1> QED BY <1>1, <1>2, <1>3, <1>4, <1>5 DEF Next

\* The same, field by field.
LEMMA FieldSteps ==
  ASSUME TypeOK, Next, NEW j \in Jobs
  PROVE  \/ queue'[j] = queue[j]
         \/ queue[j].status = "PENDING" /\ Fields(queue'[j], "IN_PROGRESS", queue[j].retry, TRUE, queue[j].linked)
         \/ Held(j) /\ Fields(queue'[j], "DONE", queue[j].retry, FALSE, queue[j].linked)
         \/ /\ Held(j) /\ j \in torn' /\ queue'[j].status \in {"DONE", queue[j].status}
            /\ queue'[j].retry = queue[j].retry /\ queue'[j].linked = queue[j].linked
         \/ Held(j) /\ Fields(queue'[j], "FAILED", queue[j].retry + 1, FALSE, queue[j].linked)
         \/ /\ Held(j) /\ queue[j].retry + 1 < MaxQueueRetries
            /\ Fields(queue'[j], "PENDING", queue[j].retry + 1, FALSE, queue[j].linked)
         \/ queue[j].status = "IN_PROGRESS" /\ Fields(queue'[j], "PENDING", queue[j].retry, FALSE, queue[j].linked)
         \/ queue[j].status = "FAILED" /\ Fields(queue'[j], "PENDING", 0, queue[j].locked, queue[j].linked)
         \/ queue[j].status \in {"ABSENT", "DONE"} /\ Fields(queue'[j], "PENDING", 0, FALSE, TRUE)
         \/ /\ queue[j].status # "ABSENT"
            /\ Fields(queue'[j], queue[j].status, queue[j].retry, queue[j].locked, TRUE)
<1>1. RowStep(j) /\ queue[j] \in QueueRow
  BY RowSteps DEF TypeOK
<1>2. ASSUME NEW d \in BOOLEAN, NEW l \in BOOLEAN, queue'[j] = MarkedRow(queue[j], d, l)
      PROVE  /\ queue'[j].status \in {"DONE", queue[j].status}
             /\ queue'[j].retry = queue[j].retry /\ queue'[j].linked = queue[j].linked
  BY <1>1, <1>2, MarkedFields
<1> QED BY <1>1, <1>2, RowFields DEF RowStep

LEMMA LockStep == TypeOK /\ LockMatchesStatus /\ [Next]_vars => LockMatchesStatus'
<1> SUFFICES ASSUME TypeOK, LockMatchesStatus, Next, NEW j \in Jobs \ torn'
             PROVE  queue'[j].locked <=> queue'[j].status = "IN_PROGRESS"
  BY DEF LockMatchesStatus, vars
<1>1. queue[j].locked <=> queue[j].status = "IN_PROGRESS"
  BY TornStep DEF LockMatchesStatus
<1> QED BY <1>1, FieldSteps DEF Fields

LEMMA CeilingStep == TypeOK /\ CirculatingBelowCeiling /\ [Next]_vars => CirculatingBelowCeiling'
<1> SUFFICES ASSUME TypeOK, CirculatingBelowCeiling, Next, NEW j \in Jobs,
                    queue'[j].status \in {"PENDING", "IN_PROGRESS"}
             PROVE  queue'[j].retry < MaxQueueRetries
  BY DEF CirculatingBelowCeiling, vars
<1>1. queue[j].status \in {"PENDING", "IN_PROGRESS"} => queue[j].retry < MaxQueueRetries
  BY DEF CirculatingBelowCeiling
<1>2. 0 < MaxQueueRetries
  BY CeilingAssumption
<1> QED BY <1>1, <1>2, FieldSteps DEF Fields

----------------------------------------------------------------------------
(* What a step may do to one worker *)

LEMMA HoldSteps ==
  ASSUME TypeOK, Next, NEW v \in Workers, Holds(v)'
  PROVE  \/ Holds(v) /\ worker'[v].job = worker[v].job /\ worker'[v].linked = worker[v].linked
         \/ \E j \in Jobs : Claim(v, j)
<1> USE DEF TypeOK, Holds, Idle, Copy
<1> DEFINE Kept == Holds(v) /\ worker'[v].job = worker[v].job /\ worker'[v].linked = worker[v].linked
<1>1. CASE worker' = worker
  BY <1>1
<1>2. ASSUME NEW p \in Procs, DrainDone(p) \/ Crash(p) PROVE Kept
  BY <1>2 DEF DrainDone, Crash
<1>3. ASSUME NEW w \in Workers, NEW pc \in {"off", "claiming", "fatal", "exited"},
             worker' = [worker EXCEPT ![w] = Idle(pc)]
      PROVE Kept
  BY <1>3
<1>4. ASSUME NEW w \in Workers, Holds(w), Recording(w) PROVE Kept
  BY <1>4, RecordingState
<1>10. ASSUME NEW w \in Workers, ReadRow(w) PROVE Kept
  BY <1>10, ReadState
<1>5. ASSUME NEW w \in Workers, worker' = [worker EXCEPT ![w].tries = @ + 1], Holds(w)
      PROVE Kept
  BY <1>5 DEF WorkerState
<1>6. ASSUME NEW w \in Workers, NEW j \in Jobs, Claim(w, j), v # w PROVE Kept
  BY <1>6 DEF Claim
<1>7. ASSUME NEW w \in Workers, WorkerStep(w), \A j \in Jobs : ~Claim(w, j) PROVE Kept
  <2>1. \/ worker' = worker
        \/ \E pc \in {"off", "claiming", "fatal", "exited"} : worker' = [worker EXCEPT ![w] = Idle(pc)]
        \/ Recording(w) /\ Holds(w)
        \/ ReadRow(w)
        \/ worker' = [worker EXCEPT ![w].tries = @ + 1] /\ Holds(w)
    <3>1. ASSUME NEW committed \in BOOLEAN, RecordFailureRaises(w, committed)
          PROVE  \/ worker' = [worker EXCEPT ![w].tries = @ + 1] /\ Holds(w)
                 \/ worker' = [worker EXCEPT ![w] = Idle("fatal")]
      BY <3>1 DEF RecordFailureRaises
    <3>2. ASSUME NEW committed \in BOOLEAN, ReleaseRaises(w, committed)
          PROVE  worker' = [worker EXCEPT ![w] = Idle("claiming")]
      BY <3>2 DEF ReleaseRaises
    <3>3. CASE NoWork(w) \/ Succeed(w) \/ Release(w) \/ RecordFailure(w) \/ RestartAfterFatal(w)
      BY <3>3 DEF NoWork, Succeed, Release, RecordFailure, RestartAfterFatal
    <3>4. CASE SucceedReplyLost(w) \/ Fail(w)
      BY <3>4 DEF SucceedReplyLost, Fail, CommitScrape
    <3>5. ASSUME NEW j \in Jobs, ClaimReplyLost(w, j) PROVE worker' = worker
      BY <3>5 DEF ClaimReplyLost
    <3> QED BY <1>7, <3>1, <3>2, <3>3, <3>4, <3>5 DEF WorkerStep
  <2> QED BY <1>1, <1>3, <1>4, <1>5, <1>10, <2>1
<1>8. ASSUME NEW j \in Jobs, Discover(j) \/ BecomeDue(j) \/ ListenerEnqueue(j) \/ RecoverFailedJob(j)
      PROVE  worker' = worker
  BY <1>8 DEF Discover, BecomeDue, ListenerEnqueue, RecoverFailedJob
<1>9. ASSUME NEW p \in Procs, Recover(p) \/ DrainBatch(p) \/ Finish(p) PROVE worker' = worker
  BY <1>9 DEF Recover, DrainBatch, Finish
<1> QED BY <1>1, <1>2, <1>6, <1>7, <1>8, <1>9 DEF Next, BootStep

LEMMA HeldStep == TypeOK /\ HeldRowExists /\ [Next]_vars => HeldRowExists'
<1> SUFFICES ASSUME TypeOK, HeldRowExists, Next, NEW v \in Workers, Holds(v)'
             PROVE  queue'[worker'[v].job].status # "ABSENT"
  BY DEF HeldRowExists, vars, Holds
<1>1. CASE \E j \in Jobs : Claim(v, j)
  <2>1. PICK j \in Jobs : Claim(v, j)
    BY <1>1
  <2>2. worker'[v].job = j /\ queue'[j] = ClaimedRow(queue[j]) /\ queue[j] \in QueueRow
    <3>1. queue[j] \in QueueRow /\ queue' = [queue EXCEPT ![j] = ClaimedRow(queue[j])]
      BY <2>1 DEF Claim, TypeOK
    <3>2. queue'[j] = ClaimedRow(queue[j])
      BY <3>1 DEF TypeOK
    <3> QED BY <2>1, <3>1, <3>2, ClaimState
  <2> QED BY <2>2, RowFields DEF Fields
<1>2. CASE Holds(v) /\ worker'[v].job = worker[v].job
  <2>1. worker[v].job \in Jobs /\ queue[worker[v].job].status # "ABSENT"
    BY <1>2 DEF TypeOK, HeldRowExists
  <2> QED BY <1>2, <2>1, FieldSteps DEF Fields
<1> QED BY <1>1, <1>2, HoldSteps

LEMMA LinkedStep == TypeOK /\ HeldRowExists /\ LinkedRows /\ [Next]_vars => LinkedRows'
<1> SUFFICES ASSUME TypeOK, HeldRowExists, LinkedRows, Next PROVE LinkedRows'
  BY DEF LinkedRows, vars, Holds
<1>1. ASSUME NEW j \in Jobs \ LegacyJobs, queue'[j].status # "ABSENT" PROVE queue'[j].linked
  <2>1. (queue[j].status # "ABSENT" => queue[j].linked) /\ (Held(j) => queue[j].status # "ABSENT")
    BY DEF LinkedRows, HeldRowExists, Held
  <2> QED BY <1>1, <2>1, FieldSteps DEF Fields
<1>2. ASSUME NEW v \in Workers, Holds(v)', worker'[v].job \notin LegacyJobs PROVE worker'[v].linked
  <2>1. CASE \E j \in Jobs : Claim(v, j)
    <3>1. PICK j \in Jobs : Claim(v, j)
      BY <2>1
    <3>2. worker'[v].job = j /\ worker'[v].linked = queue[j].linked /\ queue[j].status = "PENDING"
      BY <3>1, ClaimState DEF Claim, Claimable
    <3> QED BY <1>2, <3>2 DEF LinkedRows
  <2>2. CASE Holds(v) /\ worker'[v].job = worker[v].job /\ worker'[v].linked = worker[v].linked
    BY <1>2, <2>2 DEF LinkedRows
  <2> QED BY <1>2, <2>1, <2>2, HoldSteps
<1> QED BY <1>1, <1>2 DEF LinkedRows

LEMMA LiveStep == TypeOK /\ LiveWorkers /\ [Next]_vars => LiveWorkers'
<1> SUFFICES ASSUME TypeOK, LiveWorkers, Next PROVE LiveWorkers'
  BY DEF LiveWorkers, vars
<1> USE ProcAssumption DEF LiveWorkers, TypeOK, Idle, Copy
<1>1. ASSUME NEW j \in Jobs, Discover(j) \/ BecomeDue(j) \/ ListenerEnqueue(j) \/ RecoverFailedJob(j)
      PROVE  LiveWorkers'
  BY <1>1 DEF Discover, BecomeDue, ListenerEnqueue, RecoverFailedJob
<1>2. ASSUME NEW p \in Procs, Recover(p) PROVE LiveWorkers'
  BY <1>2 DEF Recover
<1>3. ASSUME NEW p \in Procs, BootStep(p) PROVE LiveWorkers'
  BY <1>3 DEF BootStep, DrainBatch, DrainDone
<1>4. ASSUME NEW p \in Procs, Finish(p) PROVE LiveWorkers'
  BY <1>4 DEF Finish
<1>5. ASSUME NEW p \in Procs, Crash(p) PROVE LiveWorkers'
  BY <1>5 DEF Crash
<1>6. ASSUME NEW w \in Workers, WorkerStep(w) PROVE LiveWorkers'
  <2> DEFINE Own == /\ proc' = proc /\ worker[w].pc \notin {"off", "exited"}
                    /\ \A v \in Workers \ {w} : worker'[v] = worker[v]
  <2>1. Own
    <3>1. ASSUME NEW committed \in BOOLEAN,
                 RecordFailureRaises(w, committed) \/ ReleaseRaises(w, committed)
          PROVE  Own
      BY <3>1 DEF RecordFailureRaises, ReleaseRaises
    <3>2. ASSUME NEW j \in Jobs, Claim(w, j) \/ ClaimReplyLost(w, j) PROVE Own
      BY <3>2 DEF Claim, ClaimReplyLost
    <3>3. CASE Succeed(w) \/ SucceedReplyLost(w)
      BY <3>3 DEF Succeed, SucceedReplyLost, CommitScrape, Recording
    <3>4. CASE NoWork(w) \/ ReadRow(w) \/ Fail(w) \/ Release(w) \/ RecordFailure(w) \/ RestartAfterFatal(w)
      BY <3>4 DEF NoWork, ReadRow, Fail, Recording, Release, RecordFailure, RestartAfterFatal
    <3> QED BY <1>6, <3>1, <3>2, <3>3, <3>4 DEF WorkerStep
  <2>2. proc[ProcOf[w]] = "running"
    BY <2>1
  <2> QED BY <2>1, <2>2
<1> QED BY <1>1, <1>2, <1>3, <1>4, <1>5, <1>6 DEF Next

Owned(j) == \E w \in Workers : Claimant(w, j)

\* Only its own step takes a job out of a worker's hands while its process lives,
\* and a worker that reads an IN_PROGRESS row reads it as not DONE.
LEMMA OwnedStep == TypeOK /\ LiveWorkers /\ ClaimIsOwned /\ [Next]_vars => ClaimIsOwned'
<1> SUFFICES ASSUME TypeOK, LiveWorkers, ClaimIsOwned, Next,
                    NEW j \in Jobs, queue'[j].status = "IN_PROGRESS"
             PROVE  j \in abandoned' \/ Owned(j)'
  BY DEF ClaimIsOwned, vars, Holds, Claimant, Owned
<1> USE ProcAssumption DEF TypeOK, Owned, Claimant
<1>1. queue[j].status = "IN_PROGRESS" => j \in abandoned \/ Owned(j)
  BY DEF ClaimIsOwned
<1>0. /\ DoneRow(queue[j]).status = "DONE" /\ ReleasedRow(queue[j]).status = "PENDING"
      /\ RetriedRow(queue[j]).status = "PENDING" /\ SeededRow.status = "PENDING"
      /\ FailedRow(queue[j]).status # "IN_PROGRESS"
      /\ [queue[j] EXCEPT !.linked = TRUE].status = queue[j].status
  <2>1. queue[j] \in QueueRow
    OBVIOUS
  <2> QED BY <2>1, RowFields DEF Fields
<1>2. queue[j].status = "IN_PROGRESS" \/ (queue[j].status = "PENDING" /\ queue'[j] = ClaimedRow(queue[j]))
  <2>1. RowStep(j)
    BY RowSteps
  <2>2. ASSUME NEW d \in BOOLEAN, NEW l \in BOOLEAN, queue'[j] = MarkedRow(queue[j], d, l)
        PROVE  queue[j].status = "IN_PROGRESS"
    <3>1. queue[j] \in QueueRow
      OBVIOUS
    <3>2. queue[j].status = queue'[j].status
      BY <2>2, <3>1, MarkedFields
    <3> QED BY <3>2
  <2> QED BY <1>0, <2>1, <2>2 DEF RowStep
<1>3. ASSUME NEW i \in Jobs, Discover(i) \/ BecomeDue(i) \/ ListenerEnqueue(i) \/ RecoverFailedJob(i)
      PROVE  j \in abandoned' \/ Owned(j)'
  <2>1. worker' = worker /\ abandoned' = abandoned
    BY <1>3 DEF Discover, BecomeDue, ListenerEnqueue, RecoverFailedJob
  <2>2. queue'[j].status = queue[j].status
    <3>1. CASE ListenerEnqueue(i)
      BY <3>1 DEF ListenerEnqueue, SeededRow, QueueRow
    <3>2. CASE RecoverFailedJob(i)
      BY <1>0, <3>2 DEF RecoverFailedJob
    <3> QED BY <1>3, <3>1, <3>2 DEF Discover, BecomeDue
  <2> QED BY <1>1, <2>1, <2>2 DEF Holds
<1>4. ASSUME NEW p \in Procs, Recover(p) PROVE FALSE
  <2>1. queue'[j] = Recovered(p, queue[j])
    BY <1>4 DEF Recover
  <2> QED BY <1>0, <2>1 DEF Recovered
<1>5. ASSUME NEW p \in Procs, BootStep(p) PROVE j \in abandoned' \/ Owned(j)'
  <2>1. queue'[j] = queue[j] /\ abandoned' = abandoned
    BY <1>5 DEF BootStep, DrainBatch, DrainDone, Seed, SeededRow
  <2>2. \A w \in Workers : Holds(w) => worker'[w] = worker[w]
    BY <1>5 DEF BootStep, DrainBatch, DrainDone, LiveWorkers, Holds
  <2> QED BY <1>1, <2>1, <2>2 DEF Holds
<1>6. ASSUME NEW p \in Procs, Finish(p) PROVE j \in abandoned' \/ Owned(j)'
  BY <1>1, <1>6 DEF Finish, Holds
<1>7. ASSUME NEW p \in Procs, Crash(p) PROVE j \in abandoned' \/ Owned(j)'
  <2>1. queue' = queue /\ abandoned' = abandoned \cup HeldBy(p)
    BY <1>7 DEF Crash
  <2>2. \A w \in Workers : ProcOf[w] # p => worker'[w] = worker[w]
    BY <1>7 DEF Crash
  <2> QED BY <1>1, <2>1, <2>2 DEF HeldBy, Holds
<1>8. ASSUME NEW w \in Workers, WorkerStep(w) PROVE j \in abandoned' \/ Owned(j)'
  <2>1. ASSUME NEW i \in Jobs, Claim(w, i) PROVE j \in abandoned' \/ Owned(j)'
    <3>1. CASE i = j
      BY <2>1, <3>1, ClaimState DEF Holds
    <3>2. CASE i # j
      BY <1>1, <2>1, <3>2 DEF Claim, Holds
    <3> QED BY <3>1, <3>2
  <2>2. ASSUME NEW i \in Jobs, ClaimReplyLost(w, i) PROVE j \in abandoned' \/ Owned(j)'
    BY <1>1, <2>2 DEF ClaimReplyLost, Holds
  <2>3. CASE NoWork(w) \/ RestartAfterFatal(w)
    BY <1>1, <2>3 DEF NoWork, RestartAfterFatal, Holds
  <2>11. ASSUME Recording(w), Holds(w) PROVE worker[w].job = j => Owned(j)'
    BY <2>11, RecordingState DEF Holds
  <2>5. ASSUME \/ worker[w].job # j \/ worker[w].sawDone \/ queue'[j].status # "IN_PROGRESS"
               \/ j \in abandoned' \/ Owned(j)',
               queue'[j] = queue[j] \/ Owned(j) \/ queue'[j].status = queue[j].status, abandoned \subseteq abandoned',
               \A v \in Workers \ {w} : worker'[v] = worker[v]
        PROVE  j \in abandoned' \/ Owned(j)'
    BY <1>1, <1>2, <2>5 DEF Holds
  <2>4. CASE Fail(w)
    <3>1. queue' = queue /\ abandoned' = abandoned /\ \A v \in Workers \ {w} : worker'[v] = worker[v]
      BY <2>4 DEF Fail, Recording
    <3>2. worker[w].job = j => Owned(j)'
      BY <2>4, <2>11 DEF Fail, Holds
    <3> QED BY <2>5, <3>1, <3>2
  <2>12. CASE ReadRow(w)
    <3>1. queue' = queue /\ abandoned' = abandoned
      BY <2>12 DEF ReadRow
    <3>2. worker[w].job = j => Owned(j)'
      BY <1>2, <2>12, <3>1, ReadState DEF Holds
    <3> QED BY <2>5, <2>12, <3>1, <3>2, ReadState
  <2>6. CASE Succeed(w) \/ SucceedReplyLost(w)
    <3>1. worker[w].job # j => queue'[j] = queue[j]
      BY <2>6 DEF Succeed, SucceedReplyLost, CommitScrape
    <3>2. worker[w].job = j => IF worker[w].sawDone THEN queue'[j].status = queue[j].status
                                                    ELSE queue'[j].status = "DONE"
      <4>1. CommitScrape(w) /\ queue[j] \in QueueRow
        BY <2>6 DEF Succeed, SucceedReplyLost
      <4> QED BY <4>1, CommitRow, MarkedFields
    <3> QED BY <2>5, <2>6, <3>1, <3>2
            DEF Succeed, SucceedReplyLost, CommitScrape, Recording, Holds
  <2>7. CASE Release(w)
    <3>1. worker[w].job = j => queue'[j].status # "IN_PROGRESS"
      BY <1>0, <2>7 DEF Release, ReleaseToPending
    <3> QED BY <2>5, <2>7, <3>1 DEF Release, ReleaseToPending, Holds
  <2>8. CASE RecordFailure(w)
    <3>1. worker[w].job = j => queue'[j] = FailedRow(queue[j])
      BY <2>8 DEF RecordFailure, CommitFailure
    <3> QED BY <1>0, <2>5, <2>8, <3>1 DEF RecordFailure, CommitFailure, Holds
  <2>9. ASSUME NEW committed \in BOOLEAN, RecordFailureRaises(w, committed)
        PROVE  j \in abandoned' \/ Owned(j)'
    <3>1. worker[w].job = j => worker[w].sawDone \/ Owned(j)' \/ j \in abandoned'
      <4>1. CASE MoreTries(worker[w].tries)
        <5>1. worker' = [worker EXCEPT ![w].tries = @ + 1]
          BY <2>9, <4>1 DEF RecordFailureRaises
        <5>2. /\ worker'[w].pc = worker[w].pc /\ worker'[w].job = worker[w].job
              /\ worker'[w].sawDone = worker[w].sawDone
          BY <5>1 DEF WorkerState
        <5> QED BY <2>9, <5>2 DEF RecordFailureRaises, Holds
      <4>2. CASE ~MoreTries(worker[w].tries)
        BY <2>9, <4>2 DEF RecordFailureRaises
      <4> QED BY <4>1, <4>2
    <3>2. worker[w].job # j => queue'[j] = queue[j]
      BY <2>9 DEF RecordFailureRaises, CommitFailure
    <3>3. worker[w].job = j => queue'[j] = queue[j] \/ queue'[j].status # "IN_PROGRESS"
      BY <1>0, <2>9 DEF RecordFailureRaises, CommitFailure
    <3> QED BY <2>5, <2>9, <3>1, <3>2, <3>3 DEF RecordFailureRaises, Holds
  <2>10. ASSUME NEW committed \in BOOLEAN, ReleaseRaises(w, committed)
         PROVE  j \in abandoned' \/ Owned(j)'
    <3>1. worker[w].job # j => queue'[j] = queue[j]
      BY <2>10 DEF ReleaseRaises, ReleaseToPending
    <3> QED BY <2>5, <2>10, <3>1 DEF ReleaseRaises, Holds
  <2> QED BY <1>8, <2>1, <2>2, <2>3, <2>4, <2>6, <2>7, <2>8, <2>9, <2>10, <2>12 DEF WorkerStep
<1> QED BY <1>3, <1>4, <1>5, <1>6, <1>7, <1>8 DEF Next

----------------------------------------------------------------------------
(* The terminal pair *)

PairOK(row, url) ==
  /\ row.status = "FAILED" => row.linked /\ url.status = "STALE"
  /\ url.status = "STALE" => row.status \in {"FAILED", "PENDING", "IN_PROGRESS"}

\* The two rows of a recorded failure, and the two rows of a scrape.
LEMMA PairRows ==
  ASSUME NEW row \in QueueRow, NEW url \in UrlRow, PairOK(row, url)
  PROVE  /\ row.linked => PairOK(FailedRow(row), FailedUrl(url, row))
         /\ PairOK(DoneRow(row), ScrapedUrl)
         /\ row.status = "IN_PROGRESS" => PairOK(ReleasedRow(row), url)
         /\ row.status = "PENDING" => PairOK(ClaimedRow(row), url)
         /\ PairOK(RetriedRow(row), NewUrl)
         /\ row.status = "FAILED" => PairOK(RetriedRow(row), url)
         /\ PairOK([row EXCEPT !.linked = TRUE], url)
<1> USE DEF PairOK, Fields
<1>1. row.linked => PairOK(FailedRow(row), FailedUrl(url, row))
  <2>1. CASE IsTerminal(row.retry)
    BY <2>1, RowFields DEF FailedUrl
  <2>2. CASE ~IsTerminal(row.retry)
    BY <2>2, RowFields DEF FailedUrl
  <2> QED BY <2>1, <2>2
<1>2. PairOK(DoneRow(row), ScrapedUrl)
  BY RowFields DEF ScrapedUrl
<1>3. PairOK(RetriedRow(row), NewUrl)
  BY RowFields DEF NewUrl
<1> QED BY <1>1, <1>2, <1>3, RowFields

LEMMA TerminalStep ==
  TypeOK /\ HeldRowExists /\ LinkedRows /\ TerminalPair /\ [Next]_vars => TerminalPair'
<1> SUFFICES ASSUME TypeOK, HeldRowExists, LinkedRows, TerminalPair, Next,
                    NEW j \in Jobs \ (LegacyJobs \cup torn')
             PROVE  PairOK(queue'[j], urls'[j])
  BY DEF TerminalPair, PairOK, vars
<1> USE DEF TypeOK
<1>1. PairOK(queue[j], urls[j]) /\ queue[j] \in QueueRow /\ urls[j] \in UrlRow
  BY TornStep DEF TerminalPair, PairOK
<1>2. \A w \in Workers : Holds(w) /\ worker[w].job = j => queue[j].linked /\ worker[w].linked
  BY DEF LinkedRows, HeldRowExists
<1>3. /\ queue[j].linked => PairOK(FailedRow(queue[j]), FailedUrl(urls[j], queue[j]))
      /\ PairOK(DoneRow(queue[j]), ScrapedUrl)
      /\ queue[j].status = "IN_PROGRESS" => PairOK(ReleasedRow(queue[j]), urls[j])
      /\ queue[j].status = "PENDING" => PairOK(ClaimedRow(queue[j]), urls[j])
      /\ PairOK(RetriedRow(queue[j]), NewUrl)
      /\ queue[j].status = "FAILED" => PairOK(RetriedRow(queue[j]), urls[j])
      /\ PairOK([queue[j] EXCEPT !.linked = TRUE], urls[j])
  BY <1>1, PairRows
<1>4. PairOK(SeededRow, urls[j])
  BY DEF SeededRow, PairOK
<1>5. ASSUME NEW i \in Jobs, Discover(i) \/ BecomeDue(i) \/ ListenerEnqueue(i) \/ RecoverFailedJob(i)
      PROVE  PairOK(queue'[j], urls'[j])
  <2>1. CASE Discover(i)
    BY <1>1, <2>1 DEF Discover, NewUrl, PairOK
  <2>2. CASE BecomeDue(i)
    BY <1>1, <2>2 DEF BecomeDue, PairOK, UrlRow
  <2>3. CASE ListenerEnqueue(i)
    BY <1>1, <1>3, <1>4, <2>3 DEF ListenerEnqueue
  <2>4. CASE RecoverFailedJob(i)
    BY <1>1, <1>3, <2>4 DEF RecoverFailedJob
  <2> QED BY <1>5, <2>1, <2>2, <2>3, <2>4
<1>6. ASSUME NEW p \in Procs, Recover(p) PROVE PairOK(queue'[j], urls'[j])
  BY <1>1, <1>3, <1>6 DEF Recover, Recovered
<1>7. ASSUME NEW p \in Procs, BootStep(p) \/ Finish(p) \/ Crash(p) PROVE PairOK(queue'[j], urls'[j])
  BY <1>1, <1>4, <1>7 DEF BootStep, DrainBatch, DrainDone, Seed, Finish, Crash
<1>8. ASSUME NEW w \in Workers, WorkerStep(w) PROVE PairOK(queue'[j], urls'[j])
  <2>1. ASSUME NEW i \in Jobs, Claim(w, i) \/ ClaimReplyLost(w, i) PROVE PairOK(queue'[j], urls'[j])
    BY <1>1, <1>3, <2>1 DEF Claim, ClaimReplyLost, Claimable
  <2>2. CASE NoWork(w) \/ ReadRow(w) \/ Fail(w) \/ RestartAfterFatal(w)
    BY <1>1, <2>2 DEF NoWork, ReadRow, Fail, RestartAfterFatal
  <2>3. CASE CommitScrape(w)
    <3>1. worker[w].job = j => queue'[j] = DoneRow(queue[j]) /\ urls'[j] = ScrapedUrl
      <4> SUFFICES ASSUME worker[w].job = j PROVE queue'[j] = DoneRow(queue[j]) /\ urls'[j] = ScrapedUrl
        OBVIOUS
      <4>1. queue'[j] = DoneRow(queue[j]) /\ Holds(w)
        BY <2>3, CommitRow
      <4> QED BY <1>2, <2>3, <4>1 DEF CommitScrape
    <3>2. worker[w].job # j => queue'[j] = queue[j] /\ urls'[j] = urls[j]
      BY <2>3 DEF CommitScrape
    <3> QED BY <1>1, <1>3, <3>1, <3>2
  <2>4. ASSUME CommitFailure(worker[w].job), Holds(w) PROVE PairOK(queue'[j], urls'[j])
    <3>1. worker[w].job = j => queue'[j] = FailedRow(queue[j]) /\ urls'[j] = FailedUrl(urls[j], queue[j])
      BY <1>2, <2>4 DEF CommitFailure
    <3>2. worker[w].job # j => queue'[j] = queue[j] /\ urls'[j] = urls[j]
      BY <2>4 DEF CommitFailure
    <3> QED BY <1>1, <1>2, <1>3, <2>4, <3>1, <3>2
  <2>5. ASSUME ReleaseToPending(worker[w].job), urls' = urls PROVE PairOK(queue'[j], urls'[j])
    BY <1>1, <1>3, <2>5 DEF ReleaseToPending
  <2>6. CASE Release(w)
    BY <2>5, <2>6 DEF Release
  <2>7. CASE RecordFailure(w)
    BY <2>4, <2>7 DEF RecordFailure, Holds
  <2>8. ASSUME NEW committed \in BOOLEAN, RecordFailureRaises(w, committed)
        PROVE  PairOK(queue'[j], urls'[j])
    <3>1. Holds(w) /\ (CommitFailure(worker[w].job) \/ UNCHANGED <<queue, urls>>)
      BY <2>8 DEF RecordFailureRaises, Holds
    <3> QED BY <1>1, <2>4, <3>1
  <2>9. ASSUME NEW committed \in BOOLEAN, ReleaseRaises(w, committed)
        PROVE  PairOK(queue'[j], urls'[j])
    <3>1. urls' = urls /\ (ReleaseToPending(worker[w].job) \/ UNCHANGED queue)
      BY <2>9 DEF ReleaseRaises
    <3> QED BY <1>1, <2>5, <3>1
  <2> QED BY <1>8, <2>1, <2>2, <2>3, <2>6, <2>7, <2>8, <2>9 DEF WorkerStep, Succeed, SucceedReplyLost
<1> QED BY <1>5, <1>6, <1>7, <1>8 DEF Next

----------------------------------------------------------------------------
(* The inductive invariant *)

LEMMA InvInit == Init => IInv
<1> SUFFICES ASSUME Init PROVE IInv
  OBVIOUS
<1>1. TypeOK
  BY TypeInit
<1>2. \A w \in Workers : worker[w] = Idle("off") /\ ~Holds(w)
  BY DEF Init, Idle, Copy, Holds
<1>3. LiveWorkers
  BY <1>2 DEF LiveWorkers, Idle, Copy
<1>4. \A j \in Jobs \ LegacyJobs : queue[j] = NoRow /\ urls[j] = NoUrl
  BY DEF Init
<1>5. LinkedRows /\ HeldRowExists
  BY <1>2, <1>4 DEF LinkedRows, HeldRowExists, NoRow
<1>6. TerminalPair
  BY <1>4 DEF TerminalPair, NoRow, NoUrl
<1>7. \A j \in Jobs : queue[j] = NoRow \/ (j \in LegacyJobs /\ queue[j] \in LegacyRow)
  BY DEF Init
<1>8. \A row \in LegacyRow : /\ row.locked <=> row.status = "IN_PROGRESS"
                             /\ row.status # "FAILED" => row.retry = 0
  <2> SUFFICES ASSUME NEW row \in LegacyRow
               PROVE  /\ row.locked <=> row.status = "IN_PROGRESS"
                      /\ row.status # "FAILED" => row.retry = 0
    OBVIOUS
  <2>1. PICK s \in QueueStatus \ {"ABSENT"} :
          row = [status |-> s, retry |-> IF s = "FAILED" THEN MaxQueueRetries ELSE 0,
                 locked |-> s = "IN_PROGRESS", linked |-> FALSE]
    BY DEF LegacyRow
  <2>2. row.status = s /\ row.locked = (s = "IN_PROGRESS")
        /\ row.retry = (IF s = "FAILED" THEN MaxQueueRetries ELSE 0)
    BY <2>1
  <2> QED BY <2>2
<1>9. LockMatchesStatus /\ CirculatingBelowCeiling
  BY <1>7, <1>8, CeilingAssumption DEF LockMatchesStatus, CirculatingBelowCeiling, NoRow
<1>10. ClaimIsOwned
  BY JobAssumption DEF Init, ClaimIsOwned, NoRow
<1> QED BY <1>1, <1>3, <1>5, <1>6, <1>9, <1>10 DEF IInv

LEMMA InvStep == IInv /\ [Next]_vars => IInv'
BY TypeStep, LiveStep, LinkedStep, HeldStep, LockStep, CeilingStep, OwnedStep, TerminalStep DEF IInv

\* Every reachable state satisfies the inductive invariant.
THEOREM InvCorrect == Spec => []IInv
<1>1. Init => IInv
  BY InvInit
<1>2. IInv /\ [Next]_vars => IInv'
  BY InvStep
<1> QED BY <1>1, <1>2, PTL DEF Spec

\* locked_at is set exactly on IN_PROGRESS rows, for any number of jobs, workers
\* and processes, with crashes and lost replies, but for the torn rows.
THEOREM LockCorrect == Spec => []LockMatchesStatus
BY InvCorrect, PTL DEF IInv

\* No row circulates at or above the retry ceiling, whatever the ceiling is.
THEOREM CeilingCorrect == Spec => []CirculatingBelowCeiling
BY InvCorrect, PTL DEF IInv

\* The claim loop never forgets a claimed row, whoever crashes and whenever.
THEOREM NoOrphanCorrect == Spec => []NoOrphan
<1>1. ClaimIsOwned => NoOrphan
  BY DEF ClaimIsOwned, Claimant, NoOrphan, Held
<1> QED BY <1>1, InvCorrect, PTL DEF IInv

\* FAILED and STALE stay together for every row of this schema that is not torn.
THEOREM TerminalPairCorrect == Spec => []TerminalPair
BY InvCorrect, PTL DEF IInv

----------------------------------------------------------------------------
(* Exclusive claims *)

LEMMA ExclusiveInit == Init => ClaimExclusive
BY DEF Init, ClaimExclusive, Holds, Idle, Copy

\* A worker that holds a job before and after a step keeps its row IN_PROGRESS.
LEMMA KeptRow ==
  ASSUME OneReliableProcess, IInv, ClaimExclusive, Next,
         NEW v \in Workers, Holds(v), Holds(v)', NEW j \in Jobs, worker[v].job = j
  PROVE  queue'[j].status = "IN_PROGRESS"
<1> USE DEF IInv, TypeOK
<1>1. queue[j].status = "IN_PROGRESS" /\ queue[j] \in QueueRow
  BY DEF ClaimExclusive
<1>2. \A w \in Workers : Holds(w) /\ worker[w].job = j => w = v
  BY DEF ClaimExclusive
<1>3. proc[ProcOf[v]] = "running" /\ ProcOf[v] \in Procs
  BY ProcAssumption DEF LiveWorkers, Holds
<1>4. ASSUME NEW i \in Jobs, Discover(i) \/ BecomeDue(i) \/ ListenerEnqueue(i) \/ RecoverFailedJob(i)
      PROVE  queue'[j].status = "IN_PROGRESS"
  <2>1. CASE ListenerEnqueue(i)
    BY <1>1, <2>1 DEF ListenerEnqueue, QueueRow
  <2> QED BY <1>1, <1>4, <2>1 DEF Discover, BecomeDue, RecoverFailedJob
<1>5. ASSUME NEW p \in Procs, Recover(p) PROVE FALSE
  <2>1. p = ProcOf[v]
    BY <1>3 DEF OneReliableProcess
  <2> QED BY <1>3, <1>5, <2>1 DEF Recover
<1>6. ASSUME NEW p \in Procs, BootStep(p) \/ Finish(p) \/ Crash(p)
      PROVE  queue'[j].status = "IN_PROGRESS"
  BY <1>1, <1>6 DEF BootStep, DrainBatch, DrainDone, Seed, Upsertable, Finish, Crash
<1>7. ASSUME NEW w \in Workers, WorkerStep(w) PROVE queue'[j].status = "IN_PROGRESS"
  <2>1. ASSUME NEW i \in Jobs, Claim(w, i) \/ ClaimReplyLost(w, i) PROVE queue'[j].status = "IN_PROGRESS"
    BY <1>1, <2>1 DEF Claim, ClaimReplyLost, Claimable
  <2>2. CASE NoWork(w) \/ ReadRow(w) \/ Fail(w) \/ RestartAfterFatal(w)
    BY <1>1, <2>2 DEF NoWork, ReadRow, Fail, RestartAfterFatal
  <2>3. CASE Succeed(w) \/ Release(w) \/ RecordFailure(w)
    <3>1. Holds(w) /\ ~Holds(w)'
      BY <2>3 DEF Succeed, CommitScrape, Release, RecordFailure, Holds, Idle, Copy
    <3>2. worker[w].job # j
      BY <1>2, <3>1
    <3> QED BY <1>1, <2>3, <3>2
            DEF Succeed, CommitScrape, Release, ReleaseToPending, RecordFailure, CommitFailure
  <2>4. CASE SucceedReplyLost(w)
    BY <2>4 DEF SucceedReplyLost, OneReliableProcess
  <2>5. ASSUME NEW committed \in BOOLEAN,
               RecordFailureRaises(w, committed) \/ ReleaseRaises(w, committed)
        PROVE  queue'[j].status = "IN_PROGRESS"
    BY <1>1, <2>5 DEF RecordFailureRaises, ReleaseRaises, OneReliableProcess
  <2> QED BY <1>7, <2>1, <2>2, <2>3, <2>4, <2>5 DEF WorkerStep
<1> QED BY <1>4, <1>5, <1>6, <1>7 DEF Next

LEMMA ExclusiveStep ==
  OneReliableProcess /\ IInv /\ ClaimExclusive /\ [Next]_vars => ClaimExclusive'
<1> SUFFICES ASSUME OneReliableProcess, IInv, ClaimExclusive, Next PROVE ClaimExclusive'
  BY DEF ClaimExclusive, vars, Holds
<1> USE DEF IInv, TypeOK
<1>1. ASSUME NEW v \in Workers, NEW j \in Jobs, Claim(v, j)
      PROVE  /\ queue[j].status = "PENDING" /\ queue'[j].status = "IN_PROGRESS"
             /\ worker'[v].job = j
             /\ \A w \in Workers \ {v} : worker'[w] = worker[w]
  <2>1. /\ queue[j].status = "PENDING" /\ queue' = [queue EXCEPT ![j] = ClaimedRow(queue[j])]
        /\ queue \in [Jobs -> QueueRow] /\ worker \in [Workers -> WorkerState]
    BY <1>1 DEF Claim, Claimable
  <2>2. ClaimedRow(queue[j]).status = "IN_PROGRESS"
    BY <2>1, RowFields DEF Fields
  <2>3. worker'[v].job = j /\ \A w \in Workers \ {v} : worker'[w] = worker[w]
    BY <1>1, ClaimState
  <2> QED BY <2>1, <2>2, <2>3
<1>2. ASSUME NEW w \in Workers, Holds(w)' PROVE queue'[worker'[w].job].status = "IN_PROGRESS"
  <2>1. CASE \E j \in Jobs : Claim(w, j)
    BY <1>1, <2>1
  <2>2. CASE Holds(w) /\ worker'[w].job = worker[w].job
    BY <1>2, <2>2, KeptRow
  <2> QED BY <1>2, <2>1, <2>2, HoldSteps
<1>3. ASSUME NEW v \in Workers, NEW w \in Workers, Holds(v)', Holds(w)',
             worker'[v].job = worker'[w].job, v # w
      PROVE  FALSE
  <2>1. ASSUME NEW x \in Workers, NEW y \in Workers, x # y, Holds(y)',
               worker'[x].job = worker'[y].job, NEW j \in Jobs, Claim(x, j)
        PROVE  FALSE
    <3>1. worker'[y] = worker[y] /\ worker[y].job = j /\ queue[j].status = "PENDING"
      BY <1>1, <2>1
    <3> QED BY <2>1, <3>1 DEF ClaimExclusive, Holds
  <2>2. (Holds(v) /\ worker'[v].job = worker[v].job) /\ (Holds(w) /\ worker'[w].job = worker[w].job)
    BY <1>3, <2>1, HoldSteps
  <2> QED BY <1>3, <2>2 DEF ClaimExclusive
<1> QED BY <1>2, <1>3 DEF ClaimExclusive

\* One process without lost replies never has two workers on one job, and the
\* row of a job that is worked on is IN_PROGRESS.
THEOREM ExclusiveCorrect ==
  ASSUME OneReliableProcess
  PROVE  Spec => []ClaimExclusive
<1>1. Init => ClaimExclusive
  BY ExclusiveInit
<1>2. IInv /\ ClaimExclusive /\ [Next]_vars => ClaimExclusive'
  BY ExclusiveStep
<1> QED BY <1>1, <1>2, InvCorrect, PTL DEF Spec

----------------------------------------------------------------------------
(* What mark_done reads *)

\* What a worker has read of its row is what the row still is.
ReadsHold == \A w \in Workers : worker[w].pc = "marking" => ~worker[w].sawDone /\ worker[w].sawLocked

\* A worker is between SELECT and UPDATE because it has just read, or it still is.
LEMMA MarkingSteps ==
  ASSUME TypeOK, Next, NEW v \in Workers, worker'[v].pc = "marking"
  PROVE  ReadRow(v) \/ worker'[v] = worker[v]
<1> USE DEF TypeOK, Idle, Copy
<1>1. ASSUME NEW j \in Jobs, Discover(j) \/ BecomeDue(j) \/ ListenerEnqueue(j) \/ RecoverFailedJob(j)
      PROVE  worker' = worker
  BY <1>1 DEF Discover, BecomeDue, ListenerEnqueue, RecoverFailedJob
<1>2. ASSUME NEW p \in Procs, Recover(p) \/ BootStep(p) \/ Finish(p) \/ Crash(p)
      PROVE  worker'[v] = worker[v]
  BY <1>2 DEF Recover, BootStep, DrainBatch, DrainDone, Finish, Crash
<1>3. ASSUME NEW w \in Workers, WorkerStep(w) PROVE ReadRow(v) \/ worker'[v] = worker[v]
  <2>1. ASSUME NEW j \in Jobs, Claim(w, j) PROVE worker'[v] = worker[v]
    BY <2>1, ClaimState
  <2>2. ASSUME NEW j \in Jobs, ClaimReplyLost(w, j) PROVE worker' = worker
    BY <2>2 DEF ClaimReplyLost
  <2>3. CASE NoWork(w) \/ Succeed(w) \/ Release(w) \/ RecordFailure(w) \/ RestartAfterFatal(w)
    BY <2>3 DEF NoWork, Succeed, Release, RecordFailure, RestartAfterFatal
  <2>4. CASE SucceedReplyLost(w) \/ Fail(w)
    BY <2>4, RecordingState DEF SucceedReplyLost, CommitScrape, Fail, Holds
  <2>5. CASE ReadRow(w)
    BY <2>5, ReadState
  <2>6. ASSUME NEW committed \in BOOLEAN, RecordFailureRaises(w, committed) PROVE worker'[v] = worker[v]
    <3>1. CASE MoreTries(worker[w].tries)
      <4>1. worker' = [worker EXCEPT ![w].tries = @ + 1] /\ worker[w].pc = "recording"
        BY <2>6, <3>1 DEF RecordFailureRaises
      <4>2. worker'[w].pc = worker[w].pc
        BY <4>1 DEF WorkerState
      <4> QED BY <4>1, <4>2
    <3>2. CASE ~MoreTries(worker[w].tries)
      BY <2>6, <3>2 DEF RecordFailureRaises
    <3> QED BY <3>1, <3>2
  <2>7. ASSUME NEW committed \in BOOLEAN, ReleaseRaises(w, committed) PROVE worker'[v] = worker[v]
    BY <2>7 DEF ReleaseRaises
  <2> QED BY <1>3, <2>1, <2>2, <2>3, <2>4, <2>5, <2>6, <2>7 DEF WorkerStep
<1> QED BY <1>1, <1>2, <1>3 DEF Next

LEMMA ReadsStep ==
  ASSUME IInv, ClaimExclusive, ReadsHold, NothingTorn, [Next]_vars
  PROVE  ReadsHold' /\ NothingTorn'
<1> USE DEF IInv, TypeOK
<1>1. CASE UNCHANGED vars
  BY <1>1 DEF vars, ReadsHold, NothingTorn
<1>2. CASE Next
  <2>1. ASSUME NEW v \in Workers, worker'[v].pc = "marking"
        PROVE  ~worker'[v].sawDone /\ worker'[v].sawLocked
    <3>1. CASE ReadRow(v)
      <4>1. worker[v].job \in Jobs /\ queue[worker[v].job].status = "IN_PROGRESS"
        BY <3>1 DEF ReadRow, Holds, ClaimExclusive
      <4>2. queue[worker[v].job].locked
        BY <4>1 DEF LockMatchesStatus, NothingTorn
      <4> QED BY <3>1, <4>1, <4>2, ReadState
    <3>2. CASE worker'[v] = worker[v]
      BY <2>1, <3>2 DEF ReadsHold
    <3> QED BY <1>2, <2>1, <3>1, <3>2, MarkingSteps
  <2>2. torn' = torn
    <3>1. ASSUME NEW w \in Workers, CommitScrape(w) PROVE torn' = torn
      <4>1. ~worker[w].sawDone /\ worker[w].sawLocked /\ worker[w].job \in Jobs
        BY <3>1 DEF CommitScrape, ReadsHold, Holds
      <4>2. queue[worker[w].job] \in QueueRow /\ worker[w] \in WorkerState
        BY <4>1
      <4>3. MarkedRow(queue[worker[w].job], worker[w].sawDone, worker[w].sawLocked) = DoneRow(queue[worker[w].job])
        BY <4>1, <4>2 DEF MarkedRow, DoneRow, QueueRow, WorkerState
      <4> QED BY <3>1, <4>3 DEF CommitScrape
    <3> QED BY <1>2, <3>1, TornSteps
  <2> QED BY <2>1, <2>2 DEF ReadsHold, NothingTorn
<1> QED BY <1>1, <1>2

\* In one process without lost replies, what mark_done has read still holds when
\* it writes: it leaves no column of the row as somebody else wrote it.
THEOREM NothingTornCorrect ==
  ASSUME OneReliableProcess
  PROVE  Spec => []NothingTorn
<1>1. Init => ReadsHold /\ NothingTorn
  BY DEF Init, ReadsHold, NothingTorn, Idle, Copy
<1>2. IInv /\ ClaimExclusive /\ ReadsHold /\ NothingTorn /\ [Next]_vars => ReadsHold' /\ NothingTorn'
  BY ReadsStep
<1> QED BY <1>1, <1>2, InvCorrect, ExclusiveCorrect, PTL DEF Spec

\* And what it has read is a row that is not DONE.
LEMMA ReadsCorrect ==
  ASSUME OneReliableProcess
  PROVE  Spec => []ReadsHold
<1>1. Init => ReadsHold
  BY DEF Init, ReadsHold, Idle, Copy
<1>2. IInv /\ ClaimExclusive /\ ReadsHold /\ NothingTorn /\ [Next]_vars => ReadsHold'
  BY ReadsStep
<1> QED BY <1>1, <1>2, InvCorrect, ExclusiveCorrect, NothingTornCorrect, PTL DEF Spec

----------------------------------------------------------------------------
(* Refinement *)

LEMMA PhaseValues ==
  /\ PhaseOf("ABSENT") = "idle" /\ PhaseOf("DONE") = "idle"
  /\ PhaseOf("PENDING") = "ready" /\ PhaseOf("IN_PROGRESS") = "taken"
  /\ PhaseOf("FAILED") = "dead"
BY DEF PhaseOf

LEMMA RetryStatus ==
  ASSUME NEW row \in QueueRow
  PROVE  RetriedRow(row).status = "PENDING" /\ FailedRow(row).status \in {"PENDING", "FAILED"}
BY RowFields DEF Fields

LEMMA RefineInit == Init => Lease!Init
<1> SUFFICES ASSUME Init PROVE Lease!Init
  OBVIOUS
<1>1. \A j \in Jobs : queue[j].status \in QueueStatus
  BY TypeInit DEF TypeOK, QueueRow
<1>2. phaseBar \in [Jobs -> Lease!Phase]
  BY <1>1, PhaseValues DEF phaseBar, Lease!Phase, QueueStatus
<1>3. leaseBar = [w \in Workers |-> NoJob]
  BY DEF Init, leaseBar, Holds, Idle, Copy
<1> QED BY <1>2, <1>3 DEF Lease!Init

\* A step that leaves the rows' statuses and the workers' jobs alone stutters.
LEMMA Stutter ==
  ASSUME \A j \in Jobs : queue'[j].status = queue[j].status,
         \A w \in Workers : /\ Holds(w)' <=> Holds(w)
                            /\ Holds(w) => worker'[w].job = worker[w].job
  PROVE  UNCHANGED Lease!vars
<1>1. phaseBar' = phaseBar
  BY DEF phaseBar
<1>2. leaseBar' = leaseBar
  BY DEF leaseBar
<1> QED BY <1>1, <1>2 DEF Lease!vars

\* Workers that lose their jobs, and rows that keep their statuses.
LEMMA LoseJobs ==
  ASSUME NEW W \in SUBSET Workers,
         \A j \in Jobs : queue'[j].status = queue[j].status,
         \A w \in W : ~Holds(w)',
         \A w \in Workers \ W : /\ Holds(w)' <=> Holds(w)
                                /\ Holds(w) => worker'[w].job = worker[w].job
  PROVE  Lease!Next
<1>1. phaseBar' = phaseBar
  BY DEF phaseBar
<1>2. leaseBar' = [w \in Workers |-> IF w \in W THEN NoJob ELSE leaseBar[w]]
  BY DEF leaseBar
<1> QED BY <1>1, <1>2 DEF Lease!Next, Lease!Lose

\* Worker w settles its job, and nothing else changes.
LEMMA SettleJob ==
  ASSUME IInv, NEW w \in Workers, Holds(w), ~Holds(w)',
         \A v \in Workers \ {w} : worker'[v] = worker[v],
         \A i \in Jobs : i # worker[w].job => queue'[i] = queue[i],
         queue'[worker[w].job].status \in {"DONE", "PENDING", "FAILED"}
  PROVE  Lease!Next
<1>1. worker[w].job \in Jobs /\ worker[w].job # NoJob
  BY JobAssumption DEF IInv, TypeOK
<1> DEFINE to == PhaseOf(queue'[worker[w].job].status)
<1>2. to \in {"idle", "ready", "dead"}
  BY PhaseValues
<1>3. leaseBar[w] = worker[w].job
  BY DEF leaseBar
<1>4. phaseBar' = [phaseBar EXCEPT ![leaseBar[w]] = to]
  BY <1>1, <1>3 DEF phaseBar
<1>5. leaseBar' = [leaseBar EXCEPT ![w] = NoJob]
  BY DEF leaseBar, Holds
<1>6. Lease!Settle(w, to)
  BY <1>1, <1>3, <1>4, <1>5 DEF Lease!Settle
<1> QED BY <1>2, <1>6 DEF Lease!Next

\* Idle jobs are put on offer, and no worker's job changes.
LEMMA OfferJobs ==
  ASSUME NEW S \in SUBSET Jobs,
         \A j \in S : queue[j].status \in {"ABSENT", "DONE"} /\ queue'[j].status = "PENDING",
         \A j \in Jobs \ S : queue'[j] = queue[j],
         worker' = worker
  PROVE  Lease!Next
<1>1. \A j \in S : phaseBar[j] = "idle"
  BY PhaseValues DEF phaseBar
<1>2. phaseBar' = [j \in Jobs |-> IF j \in S THEN "ready" ELSE phaseBar[j]]
  BY PhaseValues DEF phaseBar
<1>3. leaseBar' = leaseBar
  BY DEF leaseBar, Holds
<1>4. Lease!Offer(S)
  BY <1>1, <1>2, <1>3 DEF Lease!Offer
<1> QED BY <1>4 DEF Lease!Next

\* A process starts: nobody holds a job, and interrupted ones become ready.
LEMMA ReclaimJobs ==
  ASSUME OneReliableProcess, IInv, NEW p \in Procs, Recover(p)
  PROVE  Lease!Next
<1> USE DEF IInv, TypeOK
<1>1. \A w \in Workers : ~Holds(w)
  <2> SUFFICES ASSUME NEW w \in Workers, Holds(w) PROVE FALSE
    OBVIOUS
  <2>1. proc[ProcOf[w]] = "running" /\ ProcOf[w] = p
    BY ProcAssumption DEF LiveWorkers, Holds, OneReliableProcess
  <2> QED BY <2>1 DEF Recover
<1>2. (\A w \in Workers : leaseBar[w] = NoJob) /\ leaseBar' = leaseBar
  BY <1>1 DEF leaseBar, Recover, Holds
<1> DEFINE R == IF p \in PipelineProcs THEN {"taken", "dead"} ELSE {"taken"}
<1>3. ASSUME NEW j \in Jobs
      PROVE  phaseBar'[j] = IF phaseBar[j] \in R THEN "ready" ELSE phaseBar[j]
  <2>1. queue'[j] = Recovered(p, queue[j]) /\ queue[j] \in QueueRow
    BY DEF Recover
  <2>2. /\ ReleasedRow(queue[j]).status = "PENDING" /\ RetriedRow(queue[j]).status = "PENDING"
        /\ queue[j].status \in QueueStatus
    BY <2>1, RowFields DEF Fields, QueueRow
  <2>3. phaseBar[j] = PhaseOf(queue[j].status) /\ phaseBar'[j] = PhaseOf(queue'[j].status)
    BY DEF phaseBar
  <2>4. CASE queue[j].status = "IN_PROGRESS"
    BY <2>1, <2>2, <2>3, <2>4, PhaseValues DEF Recovered
  <2>5. CASE queue[j].status = "FAILED"
    BY <2>1, <2>2, <2>3, <2>5, PhaseValues DEF Recovered
  <2>6. CASE queue[j].status \notin {"IN_PROGRESS", "FAILED"}
    BY <2>1, <2>2, <2>3, <2>6, PhaseValues DEF Recovered, QueueStatus
  <2> QED BY <2>4, <2>5, <2>6
<1>4. phaseBar' = [j \in Jobs |-> IF phaseBar[j] \in R THEN "ready" ELSE phaseBar[j]]
  <2>1. phaseBar' = [j \in Jobs |-> PhaseOf(queue'[j].status)]
    BY DEF phaseBar
  <2> QED BY <1>3, <2>1
<1>5. Lease!Reclaim(R)
  BY <1>2, <1>4 DEF Lease!Reclaim
<1> QED BY <1>5 DEF Lease!Next

LEMMA RefineWorkerStep ==
  ASSUME OneReliableProcess, IInv, ClaimExclusive, ReadsHold, NEW w \in Workers, WorkerStep(w)
  PROVE  Lease!Next \/ UNCHANGED Lease!vars
<1> USE DEF IInv, TypeOK
<1>1. ASSUME NEW j \in Jobs, Claim(w, j) PROVE Lease!Next
  <2>1. queue[j].status = "PENDING" /\ ~Holds(w) /\ queue'[j].status = "IN_PROGRESS"
    BY <1>1, RowFields DEF Claim, Claimable, Holds, Fields
  <2>2. phaseBar[j] = "ready" /\ leaseBar[w] = NoJob
    BY <2>1, PhaseValues DEF phaseBar, leaseBar
  <2>3. phaseBar' = [phaseBar EXCEPT ![j] = "taken"]
    BY <1>1, <2>1, PhaseValues DEF phaseBar, Claim
  <2>4. worker'[w].job = j /\ Holds(w)' /\ \A v \in Workers \ {w} : worker'[v] = worker[v]
    BY <1>1, ClaimState DEF Holds
  <2>5. leaseBar' = [leaseBar EXCEPT ![w] = j]
    BY <2>4 DEF leaseBar, Holds
  <2>6. Lease!Take(w, j)
    BY <2>2, <2>3, <2>5 DEF Lease!Take
  <2> QED BY <2>6 DEF Lease!Next
<1>2. CASE NoWork(w) \/ RestartAfterFatal(w)
  BY <1>2, Stutter DEF NoWork, RestartAfterFatal, Holds, Idle, Copy
<1>3. CASE Fail(w)
  BY <1>3, RecordingState, Stutter DEF Fail, Holds
<1>10. CASE ReadRow(w)
  <2>1. queue' = queue
    BY <1>10 DEF ReadRow
  <2> QED BY <1>10, <2>1, ReadState, Stutter DEF Holds
<1>4. CASE Succeed(w)
  <2>1. Holds(w) /\ ~Holds(w)' /\ queue'[worker[w].job].status = "DONE"
    <3>1. CommitScrape(w) /\ ~worker[w].sawDone /\ Holds(w) /\ ~Holds(w)'
      BY <1>4 DEF Succeed, CommitScrape, ReadsHold, Holds, Idle, Copy
    <3>2. queue[worker[w].job] \in QueueRow
      BY <3>1
    <3> QED BY <3>1, <3>2, CommitRow, MarkedFields
  <2> QED BY <1>4, <2>1, SettleJob DEF Succeed, CommitScrape
<1>5. CASE Release(w)
  <2>1. Holds(w) /\ queue[worker[w].job].status = "IN_PROGRESS"
    BY <1>5 DEF Release, Holds, ClaimExclusive
  <2>2. ~Holds(w)' /\ queue'[worker[w].job].status = "PENDING"
    BY <1>5, <2>1, RowFields DEF Release, ReleaseToPending, Holds, Idle, Copy, Fields
  <2> QED BY <1>5, <2>1, <2>2, SettleJob DEF Release, ReleaseToPending
<1>6. CASE RecordFailure(w)
  <2>1. Holds(w) /\ ~Holds(w)' /\ queue'[worker[w].job].status \in {"PENDING", "FAILED"}
    <3>1. Holds(w) /\ ~Holds(w)'
      BY <1>6 DEF RecordFailure, Holds, Idle, Copy
    <3>2. worker[w].job \in Jobs /\ queue[worker[w].job] \in QueueRow
      BY <3>1
    <3>3. queue'[worker[w].job] = FailedRow(queue[worker[w].job])
      BY <1>6, <3>2 DEF RecordFailure, CommitFailure
    <3> QED BY <3>1, <3>2, <3>3, RetryStatus
  <2> QED BY <1>6, <2>1, SettleJob DEF RecordFailure, CommitFailure
<1>7. ASSUME NEW committed \in BOOLEAN, RecordFailureRaises(w, committed)
      PROVE  Lease!Next \/ UNCHANGED Lease!vars
  <2>1. queue' = queue /\ Holds(w)
    BY <1>7 DEF RecordFailureRaises, OneReliableProcess, Holds
  <2>2. CASE MoreTries(worker[w].tries)
    <3>1. worker' = [worker EXCEPT ![w].tries = @ + 1]
      BY <1>7, <2>2 DEF RecordFailureRaises
    <3>2. \A v \in Workers : worker'[v].pc = worker[v].pc /\ worker'[v].job = worker[v].job
      BY <3>1 DEF WorkerState
    <3> QED BY <2>1, <3>2, Stutter DEF Holds
  <2>3. CASE ~MoreTries(worker[w].tries)
    <3>1. ~Holds(w)' /\ \A v \in Workers \ {w} : worker'[v] = worker[v]
      BY <1>7, <2>3 DEF RecordFailureRaises, Holds, Idle, Copy
    <3> QED BY <2>1, <3>1, LoseJobs, {w} \in SUBSET Workers DEF Holds
  <2> QED BY <2>2, <2>3
<1>8. ASSUME NEW committed \in BOOLEAN, ReleaseRaises(w, committed) PROVE Lease!Next
  <2>1. queue' = queue /\ ~Holds(w)' /\ \A v \in Workers \ {w} : worker'[v] = worker[v]
    BY <1>8 DEF ReleaseRaises, OneReliableProcess, Holds, Idle, Copy
  <2> QED BY <2>1, LoseJobs, {w} \in SUBSET Workers DEF Holds
<1> QED BY <1>1, <1>2, <1>3, <1>4, <1>5, <1>6, <1>7, <1>8, <1>10
        DEF WorkerStep, ClaimReplyLost, SucceedReplyLost, OneReliableProcess

LEMMA RefineStep ==
  OneReliableProcess /\ IInv /\ ClaimExclusive /\ ReadsHold /\ [Next]_vars => [Lease!Next]_(Lease!vars)
<1> SUFFICES ASSUME OneReliableProcess, IInv, ClaimExclusive, ReadsHold, [Next]_vars
             PROVE  Lease!Next \/ UNCHANGED Lease!vars
  OBVIOUS
<1> USE DEF IInv, TypeOK
<1>1. ASSUME NEW j \in Jobs, Discover(j) \/ BecomeDue(j)
      PROVE  UNCHANGED Lease!vars
  BY <1>1, Stutter DEF Discover, BecomeDue, Holds
<1>2. ASSUME NEW j \in Jobs, ListenerEnqueue(j) PROVE Lease!Next \/ UNCHANGED Lease!vars
  <2>1. CASE queue[j].status = "ABSENT"
    <3>1. queue' = [queue EXCEPT ![j] = SeededRow] /\ worker' = worker
      BY <1>2, <2>1 DEF ListenerEnqueue
    <3>2. queue'[j].status = "PENDING" /\ \A i \in Jobs \ {j} : queue'[i] = queue[i]
      BY <3>1 DEF SeededRow
    <3>3. {j} \in SUBSET Jobs
      OBVIOUS
    <3> QED BY <2>1, <3>1, <3>2, <3>3, OfferJobs
  <2>2. CASE queue[j].status # "ABSENT"
    <3>1. worker' = worker /\ \A i \in Jobs : queue'[i].status = queue[i].status
      BY <1>2, <2>2 DEF ListenerEnqueue, QueueRow
    <3> QED BY <3>1, Stutter DEF Holds
  <2> QED BY <2>1, <2>2
<1>3. ASSUME NEW j \in Jobs, RecoverFailedJob(j) PROVE Lease!Next
  <2>1. queue[j].status = "FAILED" /\ queue'[j].status = "PENDING" /\ worker' = worker
    <3>1. queue[j] \in QueueRow /\ queue'[j] = RetriedRow(queue[j])
      BY <1>3 DEF RecoverFailedJob
    <3> QED BY <1>3, <3>1, RetryStatus DEF RecoverFailedJob
  <2>2. phaseBar[j] = "dead" /\ phaseBar' = [phaseBar EXCEPT ![j] = "ready"]
    BY <1>3, <2>1, PhaseValues DEF phaseBar, RecoverFailedJob
  <2>3. Lease!Revive(j)
    BY <2>1, <2>2 DEF Lease!Revive, leaseBar, Holds
  <2> QED BY <2>3 DEF Lease!Next
<1>4. ASSUME NEW p \in Procs, Recover(p) PROVE Lease!Next
  BY <1>4, ReclaimJobs
<1>5. ASSUME NEW p \in Procs, DrainBatch(p) PROVE Lease!Next
  <2>1. PICK S \in SUBSET Jobs : Seed(S)
    BY <1>5 DEF DrainBatch
  <2>2. S \cap Upsertable \in SUBSET Jobs /\ worker' = worker
    BY <1>5 DEF DrainBatch
  <2>3. /\ \A j \in S \cap Upsertable : /\ queue[j].status \in {"ABSENT", "DONE"}
                                        /\ queue'[j].status = "PENDING"
        /\ \A j \in Jobs \ (S \cap Upsertable) : queue'[j] = queue[j]
    BY <2>1 DEF Seed, Upsertable, SeededRow
  <2> QED BY <2>2, <2>3, OfferJobs
<1>6. ASSUME NEW p \in Procs, DrainDone(p) PROVE UNCHANGED Lease!vars
  <2>1. \A w \in Workers : ProcOf[w] = p => ~Holds(w) /\ ~Holds(w)'
    BY <1>6 DEF DrainDone, LiveWorkers, Holds, Idle, Copy
  <2>2. \A w \in Workers : ProcOf[w] # p => worker'[w] = worker[w]
    BY <1>6 DEF DrainDone
  <2> QED BY <1>6, <2>1, <2>2, Stutter DEF DrainDone, Holds
<1>7. ASSUME NEW p \in Procs, Finish(p) PROVE UNCHANGED Lease!vars
  BY <1>7, Stutter DEF Finish, Holds
<1>8. ASSUME NEW p \in Procs, Crash(p) PROVE Lease!Next
  <2> DEFINE W == {w \in Workers : ProcOf[w] = p}
  <2>1. queue' = queue /\ \A w \in W : ~Holds(w)'
    BY <1>8 DEF Crash, Holds, Idle, Copy
  <2>2. \A w \in Workers \ W : worker'[w] = worker[w]
    BY <1>8 DEF Crash
  <2>3. W \in SUBSET Workers
    OBVIOUS
  <2> HIDE DEF W
  <2> QED BY <2>1, <2>2, <2>3, LoseJobs DEF Holds
<1>9. ASSUME NEW w \in Workers, WorkerStep(w) PROVE Lease!Next \/ UNCHANGED Lease!vars
  BY <1>9, RefineWorkerStep
<1>10. CASE UNCHANGED vars
  BY <1>10, Stutter DEF vars, Holds
<1> QED BY <1>1, <1>2, <1>3, <1>4, <1>5, <1>6, <1>7, <1>8, <1>9, <1>10 DEF Next, BootStep

\* One process without lost replies implements the lease protocol, for any
\* number of jobs and workers, any ceiling and any batch size.
THEOREM Refinement ==
  ASSUME OneReliableProcess
  PROVE  Spec => RefinesJobLease
<1>1. Init => Lease!Init
  BY RefineInit
<1>2. IInv /\ ClaimExclusive /\ ReadsHold /\ [Next]_vars => [Lease!Next]_(Lease!vars)
  BY RefineStep
<1> QED BY <1>1, <1>2, InvCorrect, ExclusiveCorrect, ReadsCorrect, PTL DEF Spec, Lease!Spec, RefinesJobLease

----------------------------------------------------------------------------
(* What a step may do to a queue row and its registry row together *)

Starts(p) == proc[p] = "down" /\ proc'[p] = "recovered"

\* Somebody holds j who found its row without a link.
UnlinkedCopy(j) == \E w \in Workers : Holds(w) /\ worker[w].job = j /\ ~worker[w].linked

PairStep(j, row, url) ==
  \/ queue'[j] = row /\ urls'[j] = url
  \/ queue'[j] = row /\ url.status = "ABSENT" /\ urls'[j] = NewUrl
  \/ queue'[j] = row /\ urls'[j] = [url EXCEPT !.due = TRUE]
  \/ queue'[j] = SeededRow /\ row.status \in {"ABSENT", "DONE"} /\ Schedulable(j) /\ urls'[j] = url
  \/ queue'[j] = [row EXCEPT !.linked = TRUE] /\ row.status # "ABSENT" /\ urls'[j] = url
  \/ \E p \in Procs : Starts(p) /\ queue'[j] = Recovered(p, row) /\ urls'[j] = url
  \/ queue'[j] = ClaimedRow(row) /\ row.status = "PENDING" /\ urls'[j] = url
  \/ /\ Held(j) /\ \E d, l \in BOOLEAN : queue'[j] = MarkedRow(row, d, l)
     /\ queue'[j] = DoneRow(row) \/ j \in torn'
     /\ urls'[j] = ScrapedUrl \/ (urls'[j] = url /\ UnlinkedCopy(j))
  \/ Held(j) /\ queue'[j] = FailedRow(row) /\ urls'[j] = (IF row.linked THEN FailedUrl(url, row) ELSE url)
  \/ queue'[j] = ReleasedRow(row) /\ row.status = "IN_PROGRESS" /\ urls'[j] = url
  \/ queue'[j] = RetriedRow(row) /\ row.status = "FAILED" /\ url.status = "STALE" /\ urls'[j] = NewUrl

LEMMA PairSteps ==
  ASSUME TypeOK, Next, NEW j \in Jobs
  PROVE  PairStep(j, queue[j], urls[j])
<1> USE DEF TypeOK, PairStep, Held, UnlinkedCopy
<1>1. ASSUME NEW i \in Jobs, Discover(i) \/ BecomeDue(i) \/ ListenerEnqueue(i) \/ RecoverFailedJob(i)
      PROVE  PairStep(j, queue[j], urls[j])
  <2>1. CASE Discover(i) \/ BecomeDue(i)
    BY <2>1 DEF Discover, BecomeDue
  <2>2. CASE ListenerEnqueue(i)
    BY <2>2 DEF ListenerEnqueue
  <2>3. CASE RecoverFailedJob(i)
    BY <2>3 DEF RecoverFailedJob
  <2> QED BY <1>1, <2>1, <2>2, <2>3
<1>2. ASSUME NEW p \in Procs, Recover(p) PROVE PairStep(j, queue[j], urls[j])
  BY <1>2 DEF Recover, Starts
<1>3. ASSUME NEW p \in Procs, BootStep(p) PROVE PairStep(j, queue[j], urls[j])
  <2>1. CASE DrainBatch(p)
    <3>1. PICK S \in SUBSET Jobs : IsBatch(S) /\ Seed(S)
      BY <2>1 DEF DrainBatch
    <3>2. j \in S \cap Upsertable => Schedulable(j) /\ queue[j].status \in {"ABSENT", "DONE"}
      BY <3>1 DEF IsBatch, Candidates, Upsertable
    <3> QED BY <2>1, <3>1, <3>2 DEF Seed, DrainBatch
  <2>2. CASE DrainDone(p)
    BY <2>2 DEF DrainDone
  <2> QED BY <1>3, <2>1, <2>2 DEF BootStep
<1>4. ASSUME NEW p \in Procs, Finish(p) \/ Crash(p) PROVE PairStep(j, queue[j], urls[j])
  BY <1>4 DEF Finish, Crash
<1>5. ASSUME NEW w \in Workers, WorkerStep(w) PROVE PairStep(j, queue[j], urls[j])
  <2>1. ASSUME NEW i \in Jobs, Claim(w, i) \/ ClaimReplyLost(w, i) PROVE PairStep(j, queue[j], urls[j])
    BY <2>1 DEF Claim, ClaimReplyLost, Claimable
  <2>2. CASE NoWork(w) \/ ReadRow(w) \/ Fail(w) \/ RestartAfterFatal(w)
    BY <2>2 DEF NoWork, ReadRow, Fail, RestartAfterFatal
  <2>3. CASE CommitScrape(w)
    <3>1. CASE worker[w].job = j
      <4>1. /\ Holds(w) /\ \E d, l \in BOOLEAN : queue'[j] = MarkedRow(queue[j], d, l)
            /\ queue'[j] = DoneRow(queue[j]) \/ j \in torn'
        BY <2>3, <3>1, CommitRow
      <4>2. urls'[j] = ScrapedUrl \/ (urls'[j] = urls[j] /\ ~worker[w].linked)
        BY <2>3, <3>1 DEF CommitScrape
      <4> QED BY <3>1, <4>1, <4>2
    <3>2. worker[w].job # j => queue'[j] = queue[j] /\ urls'[j] = urls[j]
      BY <2>3 DEF CommitScrape
    <3> QED BY <3>1, <3>2
  <2>4. ASSUME CommitFailure(worker[w].job), Holds(w) PROVE PairStep(j, queue[j], urls[j])
    BY <2>4 DEF CommitFailure
  <2>5. ASSUME ReleaseToPending(worker[w].job), urls' = urls PROVE PairStep(j, queue[j], urls[j])
    BY <2>5 DEF ReleaseToPending
  <2>6. CASE Release(w)
    BY <2>5, <2>6 DEF Release
  <2>7. CASE RecordFailure(w)
    BY <2>4, <2>7 DEF RecordFailure, Holds
  <2>8. ASSUME NEW committed \in BOOLEAN, RecordFailureRaises(w, committed)
        PROVE  PairStep(j, queue[j], urls[j])
    <3>1. Holds(w) /\ (CommitFailure(worker[w].job) \/ UNCHANGED <<queue, urls>>)
      BY <2>8 DEF RecordFailureRaises, Holds
    <3> QED BY <2>4, <3>1
  <2>9. ASSUME NEW committed \in BOOLEAN, ReleaseRaises(w, committed)
        PROVE  PairStep(j, queue[j], urls[j])
    <3>1. urls' = urls /\ (ReleaseToPending(worker[w].job) \/ UNCHANGED queue)
      BY <2>9 DEF ReleaseRaises
    <3> QED BY <2>5, <3>1
  <2> QED BY <1>5, <2>1, <2>2, <2>3, <2>6, <2>7, <2>8, <2>9 DEF WorkerStep, Succeed, SucceedReplyLost
<1> QED BY <1>1, <1>2, <1>3, <1>4, <1>5 DEF Next

UrlFields(url, status, retry, due) == url.status = status /\ url.retry = retry /\ url.due = due

LEMMA UrlRowFields ==
  ASSUME NEW url \in UrlRow, NEW row \in QueueRow
  PROVE  /\ UrlFields(NewUrl, "PENDING", 0, TRUE)
         /\ UrlFields(ScrapedUrl, "ACTIVE", 0, FALSE)
         /\ UrlFields([url EXCEPT !.due = TRUE], url.status, url.retry, TRUE)
         /\ IsTerminal(row.retry) => UrlFields(FailedUrl(url, row), "STALE", row.retry + 1, url.due)
         /\ ~IsTerminal(row.retry) => UrlFields(FailedUrl(url, row), url.status, row.retry + 1, url.due)
<1> USE DEF UrlFields, UrlRow
<1>1. UrlFields(NewUrl, "PENDING", 0, TRUE) /\ UrlFields(ScrapedUrl, "ACTIVE", 0, FALSE)
  BY DEF NewUrl, ScrapedUrl
<1>2. UrlFields([url EXCEPT !.due = TRUE], url.status, url.retry, TRUE)
  OBVIOUS
<1>3. /\ IsTerminal(row.retry) => UrlFields(FailedUrl(url, row), "STALE", row.retry + 1, url.due)
      /\ ~IsTerminal(row.retry) => UrlFields(FailedUrl(url, row), url.status, row.retry + 1, url.due)
  BY DEF FailedUrl
<1> QED BY <1>1, <1>2, <1>3

\* The same, field by field: the status and the count of the row, and what
\* becomes of the registry row.
PairChange(j, row, new, url, url2) ==
  \/ new.status = row.status /\ new.retry = row.retry /\ url2 = url
  \/ new = row /\ url.status = "ABSENT" /\ UrlFields(url2, "PENDING", 0, TRUE)
  \/ new = row /\ UrlFields(url2, url.status, url.retry, TRUE)
  \/ /\ row.status \in {"ABSENT", "DONE"} /\ Schedulable(j)
     /\ new.status = "PENDING" /\ new.retry = 0 /\ url2 = url
  \/ /\ row.status = "FAILED" /\ \E p \in PipelineProcs : Starts(p)
     /\ new.status = "PENDING" /\ new.retry = 0 /\ url2 = url
  \/ row.status = "PENDING" /\ new.status = "IN_PROGRESS" /\ new.retry = row.retry /\ url2 = url
  \/ /\ Held(j) /\ new.retry = row.retry
     /\ new.status = "DONE" \/ (new.status = row.status /\ j \in torn')
     /\ UrlFields(url2, "ACTIVE", 0, FALSE) \/ (url2 = url /\ UnlinkedCopy(j))
  \/ /\ Held(j) /\ new.status \in {"PENDING", "FAILED"} /\ new.retry = row.retry + 1
     /\ IF row.linked
        THEN UrlFields(url2, IF new.status = "FAILED" THEN "STALE" ELSE url.status, row.retry + 1, url.due)
        ELSE url2 = url
  \/ row.status = "IN_PROGRESS" /\ new.status = "PENDING" /\ new.retry = row.retry /\ url2 = url
  \/ /\ row.status = "FAILED" /\ url.status = "STALE"
     /\ new.status = "PENDING" /\ new.retry = 0 /\ UrlFields(url2, "PENDING", 0, TRUE)

LEMMA PairFields ==
  ASSUME TypeOK, Next, NEW j \in Jobs
  PROVE  PairChange(j, queue[j], queue'[j], urls[j], urls'[j])
<1> DEFINE row == queue[j]
           url == urls[j]
<1>1. PairStep(j, row, url) /\ row \in QueueRow /\ url \in UrlRow
  BY PairSteps DEF TypeOK
<1>3. /\ Fields(ClaimedRow(row), "IN_PROGRESS", row.retry, TRUE, row.linked)
      /\ Fields(DoneRow(row), "DONE", row.retry, FALSE, row.linked)
      /\ Fields(ReleasedRow(row), "PENDING", row.retry, FALSE, row.linked)
      /\ Fields(RetriedRow(row), "PENDING", 0, row.locked, row.linked)
      /\ Fields([row EXCEPT !.linked = TRUE], row.status, row.retry, row.locked, TRUE)
      /\ Fields(SeededRow, "PENDING", 0, FALSE, TRUE)
      /\ IsTerminal(row.retry) => Fields(FailedRow(row), "FAILED", row.retry + 1, FALSE, row.linked)
      /\ ~IsTerminal(row.retry) => Fields(FailedRow(row), "PENDING", row.retry + 1, FALSE, row.linked)
  BY <1>1, RowFields
<1>4. /\ UrlFields(NewUrl, "PENDING", 0, TRUE)
      /\ UrlFields(ScrapedUrl, "ACTIVE", 0, FALSE)
      /\ UrlFields([url EXCEPT !.due = TRUE], url.status, url.retry, TRUE)
      /\ IsTerminal(row.retry) => UrlFields(FailedUrl(url, row), "STALE", row.retry + 1, url.due)
      /\ ~IsTerminal(row.retry) => UrlFields(FailedUrl(url, row), url.status, row.retry + 1, url.due)
  BY <1>1, UrlRowFields
<1> HIDE DEF row, url
<1> USE DEF PairChange
<1>5. ASSUME NEW p \in Procs, Starts(p), queue'[j] = Recovered(p, row), urls'[j] = url
      PROVE  PairChange(j, row, queue'[j], url, urls'[j])
  <2>1. CASE row.status = "IN_PROGRESS"
    <3>1. queue'[j] = ReleasedRow(row)
      BY <1>5, <2>1 DEF Recovered
    <3> QED BY <1>3, <1>5, <2>1, <3>1 DEF Fields
  <2>2. CASE row.status = "FAILED" /\ p \in PipelineProcs
    <3>1. queue'[j] = RetriedRow(row)
      BY <1>5, <2>2 DEF Recovered
    <3> QED BY <1>3, <1>5, <2>2, <3>1 DEF Fields
  <2>3. CASE row.status # "IN_PROGRESS" /\ ~(row.status = "FAILED" /\ p \in PipelineProcs)
    <3>1. queue'[j] = row
      BY <1>5, <2>3 DEF Recovered
    <3> QED BY <1>5, <3>1
  <2> QED BY <2>1, <2>2, <2>3
<1>6. ASSUME Held(j), queue'[j] = FailedRow(row), urls'[j] = (IF row.linked THEN FailedUrl(url, row) ELSE url)
      PROVE  PairChange(j, row, queue'[j], url, urls'[j])
  <2>1. CASE IsTerminal(row.retry)
    BY <1>3, <1>4, <1>6, <2>1 DEF Fields
  <2>2. CASE ~IsTerminal(row.retry)
    BY <1>3, <1>4, <1>6, <2>2 DEF Fields
  <2> QED BY <2>1, <2>2
<1>7. ASSUME \/ queue'[j] = row /\ urls'[j] = url
             \/ queue'[j] = row /\ url.status = "ABSENT" /\ urls'[j] = NewUrl
             \/ queue'[j] = row /\ urls'[j] = [url EXCEPT !.due = TRUE]
      PROVE  PairChange(j, row, queue'[j], url, urls'[j])
  BY <1>4, <1>7
<1>8. ASSUME \/ queue'[j] = SeededRow /\ row.status \in {"ABSENT", "DONE"} /\ Schedulable(j) /\ urls'[j] = url
             \/ queue'[j] = [row EXCEPT !.linked = TRUE] /\ row.status # "ABSENT" /\ urls'[j] = url
             \/ queue'[j] = ClaimedRow(row) /\ row.status = "PENDING" /\ urls'[j] = url
             \/ queue'[j] = ReleasedRow(row) /\ row.status = "IN_PROGRESS" /\ urls'[j] = url
      PROVE  PairChange(j, row, queue'[j], url, urls'[j])
  BY <1>3, <1>8 DEF Fields
<1>9. ASSUME queue'[j] = RetriedRow(row), row.status = "FAILED", url.status = "STALE", urls'[j] = NewUrl
      PROVE  PairChange(j, row, queue'[j], url, urls'[j])
  BY <1>3, <1>4, <1>9 DEF Fields
<1>11. ASSUME Held(j), NEW d \in BOOLEAN, NEW l \in BOOLEAN, queue'[j] = MarkedRow(row, d, l),
              queue'[j] = DoneRow(row) \/ j \in torn',
              urls'[j] = ScrapedUrl \/ (urls'[j] = url /\ UnlinkedCopy(j))
       PROVE  PairChange(j, row, queue'[j], url, urls'[j])
  <2>1. queue'[j].retry = row.retry /\ queue'[j].status \in {"DONE", row.status}
    BY <1>1, <1>11, MarkedFields
  <2>2. queue'[j].status = "DONE" \/ (queue'[j].status = row.status /\ j \in torn')
    BY <1>3, <1>11, <2>1 DEF Fields
  <2>3. UrlFields(urls'[j], "ACTIVE", 0, FALSE) \/ (urls'[j] = url /\ UnlinkedCopy(j))
    BY <1>4, <1>11
  <2> QED BY <1>11, <2>1, <2>2, <2>3
<1>10. PairChange(j, row, queue'[j], url, urls'[j])
  BY <1>1, <1>5, <1>6, <1>7, <1>8, <1>9, <1>11 DEF PairStep
<1> QED BY <1>10 DEF row, url

----------------------------------------------------------------------------
(* Properties of the two rows *)

\* A row that circulates or may be retried has its page due: a failure does
\* not move next_scrape_at, a new row needs it to have passed.
DueRows ==
  \A j \in Jobs \ LegacyJobs : queue[j].status \in {"PENDING", "IN_PROGRESS", "FAILED"} => urls[j].due

LEMMA DueStep ==
  ASSUME OneReliableProcess, IInv, ClaimExclusive, DueRows, [Next]_vars, NothingTorn'
  PROVE  DueRows'
<1> SUFFICES ASSUME Next, NEW j \in Jobs \ LegacyJobs, queue'[j].status \in {"PENDING", "IN_PROGRESS", "FAILED"}
             PROVE  urls'[j].due
  BY DEF DueRows, vars
<1>1. /\ queue[j].status \in {"PENDING", "IN_PROGRESS", "FAILED"} => urls[j].due
      /\ Held(j) => queue[j].status = "IN_PROGRESS"
  BY DEF DueRows, ClaimExclusive, Held
<1>2. PairChange(j, queue[j], queue'[j], urls[j], urls'[j])
  BY PairFields DEF IInv
<1>3. Held(j) => queue[j].linked /\ ~UnlinkedCopy(j)
  BY DEF IInv, LinkedRows, HeldRowExists, Held, UnlinkedCopy
<1>4. j \notin torn'
  BY DEF NothingTorn
<1> QED BY <1>1, <1>2, <1>3, <1>4 DEF PairChange, UrlFields, Schedulable

\* In one process without lost replies, no page is scheduled again before its
\* cadence has passed.
THEOREM NoRedundantCorrect ==
  ASSUME OneReliableProcess
  PROVE  Spec => []NoRedundantScrape
<1>1. Init => DueRows
  BY DEF Init, DueRows, NoRow
<1>2. IInv /\ ClaimExclusive /\ DueRows /\ NothingTorn' /\ [Next]_vars => DueRows'
  BY DueStep
<1>3. DueRows => NoRedundantScrape
  BY DEF DueRows, NoRedundantScrape
<1> QED BY <1>1, <1>2, <1>3, InvCorrect, ExclusiveCorrect, NothingTornCorrect, PTL DEF Spec

----------------------------------------------------------------------------
(* DONE rows and their pages *)

\* A page that is STALE has a linked row, which is not DONE, and nobody works on it
\* with a copy of the row that says it has no link.
PageRows ==
  \A j \in Jobs :
    /\ urls[j].status = "STALE" => queue[j].linked /\ queue[j].status # "DONE" /\ ~UnlinkedCopy(j)
    /\ urls[j].status = "PENDING" => urls[j].due
    /\ urls[j].status = "ABSENT" => queue[j].status = "ABSENT"

\* A copy without a link was taken of a row without a link, and holds the row.
LEMMA UnlinkedSteps ==
  ASSUME OneReliableProcess, IInv, ClaimExclusive, Next, NEW j \in Jobs, UnlinkedCopy(j)'
  PROVE  \/ ~queue[j].linked /\ urls' = urls
         \/ UnlinkedCopy(j) /\ queue'[j].status = "IN_PROGRESS"
<1>1. PICK v \in Workers : Holds(v)' /\ worker'[v].job = j /\ ~worker'[v].linked
  BY DEF UnlinkedCopy
<1>2. CASE \E i \in Jobs : Claim(v, i)
  <2>1. PICK i \in Jobs : Claim(v, i)
    BY <1>2
  <2>2. worker'[v].job = i /\ worker'[v].linked = queue[i].linked /\ urls' = urls
    BY <2>1, ClaimState DEF IInv, Claim
  <2> QED BY <1>1, <2>2
<1>3. CASE Holds(v) /\ worker'[v].job = worker[v].job /\ worker'[v].linked = worker[v].linked
  <2>1. queue'[j].status = "IN_PROGRESS"
    BY <1>1, <1>3, KeptRow
  <2> QED BY <1>1, <1>3, <2>1 DEF UnlinkedCopy
<1> QED BY <1>1, <1>2, <1>3, HoldSteps DEF IInv

LEMMA PageStep ==
  ASSUME OneReliableProcess, IInv, ClaimExclusive, PageRows, [Next]_vars
  PROVE  PageRows'
<1>1. CASE UNCHANGED vars
  BY <1>1 DEF vars, PageRows, UnlinkedCopy, Holds
<1>2. CASE Next
  <2> SUFFICES ASSUME NEW j \in Jobs
               PROVE  /\ urls'[j].status = "STALE" =>
                            queue'[j].linked /\ queue'[j].status # "DONE" /\ ~UnlinkedCopy(j)'
                      /\ urls'[j].status = "PENDING" => urls'[j].due
                      /\ urls'[j].status = "ABSENT" => queue'[j].status = "ABSENT"
    BY DEF PageRows
  <2>1. /\ urls[j].status = "STALE" => queue[j].linked /\ queue[j].status # "DONE" /\ ~UnlinkedCopy(j)
        /\ urls[j].status = "PENDING" => urls[j].due
        /\ urls[j].status = "ABSENT" => queue[j].status = "ABSENT"
        /\ Held(j) => queue[j].status = "IN_PROGRESS"
    BY DEF PageRows, ClaimExclusive, Held
  <2>2. PairChange(j, queue[j], queue'[j], urls[j], urls'[j])
    BY <1>2, PairFields DEF IInv
  <2>3. queue[j].linked => queue'[j].linked
    BY <1>2, FieldSteps DEF IInv, Fields
  <2>4. UnlinkedCopy(j)' => (~queue[j].linked /\ urls' = urls)
                              \/ (UnlinkedCopy(j) /\ queue'[j].status = "IN_PROGRESS")
    BY <1>2, UnlinkedSteps
  <2>5. urls'[j].status = "STALE" =>
          /\ queue[j].linked /\ queue'[j].status # "DONE"
          /\ urls[j].status = "STALE" \/ queue'[j].status = "FAILED"
    BY <2>1, <2>2 DEF PairChange, UrlFields, Schedulable
  <2>6. urls'[j].status = "STALE" => ~UnlinkedCopy(j)'
    BY <2>1, <2>4, <2>5
  <2>7. urls'[j].status = "PENDING" => urls'[j].due
    BY <2>1, <2>2 DEF PairChange, UrlFields, Schedulable
  <2>8. urls'[j].status = "ABSENT" => queue'[j].status = "ABSENT"
    BY <2>1, <2>2 DEF PairChange, UrlFields, Schedulable
  <2> QED BY <2>3, <2>5, <2>6, <2>7, <2>8
<1> QED BY <1>1, <1>2

\* In one process without lost replies, the page of a DONE row is to be scraped
\* again, whatever became of its link or its status since the row was claimed.
THEOREM DonePageCorrect ==
  ASSUME OneReliableProcess
  PROVE  Spec => []DonePageReturns
<1>1. Init => PageRows
  BY DEF Init, PageRows, NoUrl, NewUrl, NoRow
<1>2. IInv /\ ClaimExclusive /\ PageRows /\ [Next]_vars => PageRows'
  BY PageStep
<1>3. IInv /\ PageRows => DonePageReturns
  BY DEF IInv, TypeOK, UrlRow, PageRows, DonePageReturns, Schedulable
<1> QED BY <1>1, <1>2, <1>3, InvCorrect, ExclusiveCorrect, PTL DEF Spec

\* So a success stands, for the row and for the page (mark_done and mark_scraped).
THEOREM SuccessCorrect ==
  ASSUME OneReliableProcess
  PROVE  Spec => []SuccessStands
<1>1. NothingTorn /\ DonePageReturns => SuccessStands
  BY DEF SuccessStands
<1> QED BY <1>1, NothingTornCorrect, DonePageCorrect, PTL

----------------------------------------------------------------------------
(* The retry counters *)

\* Besides the agreement itself: a page that waits for a row counts nothing,
\* and a page that was not found has no row.
RetryRows ==
  \A j \in Jobs \ (LegacyJobs \cup torn) :
    /\ queue[j].status \in {"PENDING", "IN_PROGRESS", "FAILED"} => urls[j].retry = queue[j].retry
    /\ queue[j].status \in {"ABSENT", "DONE"} => urls[j].retry = 0
    /\ urls[j].status = "ABSENT" => queue[j].status = "ABSENT"

LEMMA RetryStep ==
  ASSUME PipelineProcs = {}, IInv, RetryRows, [Next]_vars
  PROVE  RetryRows'
<1> SUFFICES ASSUME Next, NEW j \in Jobs \ (LegacyJobs \cup torn')
             PROVE  /\ queue'[j].status \in {"PENDING", "IN_PROGRESS", "FAILED"} => urls'[j].retry = queue'[j].retry
                    /\ queue'[j].status \in {"ABSENT", "DONE"} => urls'[j].retry = 0
                    /\ urls'[j].status = "ABSENT" => queue'[j].status = "ABSENT"
  BY DEF RetryRows, vars
<1>1. /\ queue[j].status \in {"PENDING", "IN_PROGRESS", "FAILED"} => urls[j].retry = queue[j].retry
      /\ queue[j].status \in {"ABSENT", "DONE"} => urls[j].retry = 0
      /\ urls[j].status = "ABSENT" => queue[j].status = "ABSENT"
      /\ Held(j) => queue[j].status # "ABSENT"
  BY TornStep DEF RetryRows, IInv, HeldRowExists, Held
<1>4. Held(j) => queue[j].linked /\ ~UnlinkedCopy(j)
  BY DEF IInv, LinkedRows, HeldRowExists, Held, UnlinkedCopy
<1>2. PairChange(j, queue[j], queue'[j], urls[j], urls'[j])
  BY PairFields DEF IInv
<1>3. queue[j].status \in QueueStatus
  BY DEF IInv, TypeOK, QueueRow
<1> QED BY <1>1, <1>2, <1>3, <1>4 DEF PairChange, UrlFields, Schedulable, QueueStatus

\* Without the pipeline's recover_failed, which resets one of the two, the retry
\* counters of a job agree, with any number of processes and lost replies.
THEOREM RetryCorrect ==
  ASSUME PipelineProcs = {}
  PROVE  Spec => []RetryInStep
<1>1. Init => RetryRows
  BY DEF Init, RetryRows, NoRow, NoUrl
<1>2. IInv /\ RetryRows /\ [Next]_vars => RetryRows'
  BY RetryStep
<1>3. RetryRows => RetryInStep
  BY DEF RetryRows, RetryInStep
<1> QED BY <1>1, <1>2, <1>3, InvCorrect, PTL DEF Spec

\* In one process without lost replies only an operator or the start of a
\* pipeline takes a row out of FAILED; a late settlement never does.
THEOREM RetryExplicitCorrect ==
  ASSUME OneReliableProcess
  PROVE  Spec => RetryIsExplicit
<1> DEFINE Explicit == \A j \in Jobs : queue[j].status = "FAILED" /\ queue'[j].status # "FAILED" =>
             \/ urls[j].status = "STALE" /\ urls'[j].status = "PENDING"
             \/ \E p \in PipelineProcs : proc[p] = "down" /\ proc'[p] = "recovered"
<1>1. IInv /\ ClaimExclusive /\ [Next]_vars => [Explicit]_vars
  <2> SUFFICES ASSUME IInv, ClaimExclusive, Next, NEW j \in Jobs,
                      queue[j].status = "FAILED", queue'[j].status # "FAILED"
               PROVE  \/ urls[j].status = "STALE" /\ urls'[j].status = "PENDING"
                      \/ \E p \in PipelineProcs : proc[p] = "down" /\ proc'[p] = "recovered"
    BY DEF vars
  <2>1. ~Held(j) /\ queue[j] \in QueueRow
    BY DEF ClaimExclusive, Held, IInv, TypeOK
  <2>2. PairStep(j, queue[j], urls[j])
    BY PairSteps DEF IInv
  <2>3. ASSUME NEW p \in Procs, Starts(p), queue'[j] = Recovered(p, queue[j])
        PROVE  p \in PipelineProcs
    BY <2>3 DEF Recovered
  <2>4. [queue[j] EXCEPT !.linked = TRUE].status = queue[j].status
    BY <2>1 DEF QueueRow
  <2>5. NewUrl.status = "PENDING"
    BY DEF NewUrl
  <2> QED BY <2>1, <2>2, <2>3, <2>4, <2>5 DEF PairStep, Starts
<1> QED BY <1>1, InvCorrect, ExclusiveCorrect, PTL DEF Spec, RetryIsExplicit
============================================================================
