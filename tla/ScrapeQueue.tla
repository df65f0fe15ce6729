---------------------------- MODULE ScrapeQueue ----------------------------
(***************************************************************************)
(* The player_info job queue of SportCrawl: the rows of                    *)
(* sch_fbref_infra.scrape_queue, the rows of the URL registry              *)
(* sch_fbref_backend.tbl_player_urls they are linked to, the worker        *)
(* coroutines that claim and settle jobs, the startup recovery and drain,  *)
(* the daemon that inserts due URLs, and crashes between any two commits.  *)
(*                                                                         *)
(* A job stands for one player profile URL: the queue row (unique for the  *)
(* URL and the job type) and the registry row.  One action is one database *)
(* transaction of the code, or one step of a worker between transactions.  *)
(***************************************************************************)
EXTENDS Naturals, FiniteSets

CONSTANTS
  Jobs,             \* player profile URLs
  LegacyJobs,       \* jobs whose queue row predates fk_url_registry_id
  Workers,          \* PlayerInfoWorker coroutines
  Procs,            \* operating system processes that run workers
  ProcOf,           \* the process a worker runs in
  PipelineProcs,    \* processes that run scrape_pipeline (the others scrape_player_info)
  MaxQueueRetries,  \* SCRAPING__MAX_QUEUE_RETRIES
  BatchSize,        \* SCRAPING__SCHEDULING_BATCH_SIZE
  Buffered,         \* buffered mode: a worker may release a claim when the gate closes
  DaemonRuns,       \* run_daemon.py runs beside the scrapers
  RepliesLost,      \* the connection may drop between a commit and its reply
  MaxRuns,          \* bound: process starts that are explored
  NoJob             \* a worker without a job

ASSUME JobAssumption == IsFiniteSet(Jobs) /\ LegacyJobs \subseteq Jobs /\ NoJob \notin Jobs
ASSUME ProcAssumption == ProcOf \in [Workers -> Procs] /\ PipelineProcs \subseteq Procs
ASSUME CeilingAssumption == MaxQueueRetries \in Nat \ {0}
ASSUME BoundAssumption == BatchSize \in Nat \ {0} /\ MaxRuns \in Nat
ASSUME FlagAssumption == {Buffered, DaemonRuns, RepliesLost} \subseteq BOOLEAN

VARIABLES
  queue,      \* the scrape_queue row of each job
  urls,       \* the tbl_player_urls row of each job
  worker,     \* what each worker coroutine is doing, and its copy of the claimed row
  proc,       \* where each process is in main()
  abandoned,  \* history: jobs a worker claimed and will not settle
  torn,       \* history: jobs whose mark_done left a column as somebody else wrote it
  runs        \* process starts so far (bounded by MaxRuns)

vars == <<queue, urls, worker, proc, abandoned, torn, runs>>

----------------------------------------------------------------------------
(* Rows *)

\* ScrapeStatus, and ABSENT for a URL that was never enqueued.
QueueStatus == {"ABSENT", "PENDING", "IN_PROGRESS", "DONE", "FAILED"}

\* linked: fk_url_registry_id is not NULL; locked: locked_at is not NULL.
QueueRow == [status : QueueStatus, retry : Nat, locked : BOOLEAN, linked : BOOLEAN]

\* due: next_scrape_at <= now().
UrlRow == [status : {"ABSENT", "PENDING", "ACTIVE", "STALE"}, retry : Nat, due : BOOLEAN]

\* linked is fk_url_registry_id as it was when the job was claimed; sawDone and
\* sawLocked are what mark_done's SELECT has read of the row; tries counts the
\* attempts of _record_failure_with_retry.
WorkerState == [pc : {"off", "claiming", "working", "marking", "recording", "fatal", "exited"},
                job : Jobs \cup {NoJob}, linked : BOOLEAN, sawDone : BOOLEAN, sawLocked : BOOLEAN,
                tries : 0 .. 2]

NoRow == [status |-> "ABSENT", retry |-> 0, locked |-> FALSE, linked |-> FALSE]
NoUrl == [status |-> "ABSENT", retry |-> 0, due |-> FALSE]
NewUrl == [status |-> "PENDING", retry |-> 0, due |-> TRUE]
SeededRow == [status |-> "PENDING", retry |-> 0, locked |-> FALSE, linked |-> TRUE]

\* A worker's copy of job j, whose row is linked or not.
Copy(pc, j, linked) == [pc |-> pc, job |-> j, linked |-> linked, sawDone |-> FALSE,
                        sawLocked |-> FALSE, tries |-> 0]
Idle(pc) == Copy(pc, NoJob, FALSE)

\* Rows a p56a database may still hold: no link, any status.
LegacyRow == {[status |-> s, retry |-> IF s = "FAILED" THEN MaxQueueRetries ELSE 0,
               locked |-> s = "IN_PROGRESS", linked |-> FALSE] : s \in QueueStatus \ {"ABSENT"}}

ClaimedRow(row) == [row EXCEPT !.status = "IN_PROGRESS", !.locked = TRUE]

\* What mark_done is to make of a row, and what its UPDATE writes: the ORM leaves
\* out the columns that have the new value already in the row its SELECT read.
DoneRow(row) == [row EXCEPT !.status = "DONE", !.locked = FALSE]
MarkedRow(row, sawDone, sawLocked) ==
  [row EXCEPT !.status = IF sawDone THEN @ ELSE "DONE", !.locked = @ /\ ~sawLocked]

\* Mutant: locked_at is not reset.
ReleasedRow_KeepsLock(row) == [row EXCEPT !.status = "PENDING"]
\* release_to_pending and recover_all_stale: back to PENDING without a penalty.
ReleasedRow(row) == [row EXCEPT !.status = "PENDING", !.locked = FALSE]

RetriedRow(row) == [row EXCEPT !.status = "PENDING", !.retry = 0]

\* Mutant: off by one.
IsTerminal_OneLate(retry) == retry >= MaxQueueRetries
\* The next failure is terminal (core/application/retry_policy.py).
IsTerminal(retry) == retry + 1 >= MaxQueueRetries

\* Mutant: the failure is not counted.
FailedRow_NoCount(row) == [status |-> IF IsTerminal(row.retry) THEN "FAILED" ELSE "PENDING",
                           retry |-> row.retry, locked |-> FALSE, linked |-> row.linked]

\* record_job_failure on the queue row; its retry_count decides for both rows.
FailedRow(row) == [status |-> IF IsTerminal(row.retry) THEN "FAILED" ELSE "PENDING",
                   retry |-> row.retry + 1, locked |-> FALSE, linked |-> row.linked]

\* Mutants: the terminal status is left to another call; each row counts for itself.
FailedUrl_NotStale(url, row) == [status |-> url.status, retry |-> row.retry + 1, due |-> url.due]
FailedUrl_OwnCount(url, row) == [status |-> IF IsTerminal(row.retry) THEN "STALE" ELSE url.status,
                                 retry |-> url.retry + 1, due |-> url.due]

\* record_job_failure on the registry row of queue row `row`.
FailedUrl(url, row) == [status |-> IF IsTerminal(row.retry) THEN "STALE" ELSE url.status,
                        retry |-> row.retry + 1, due |-> url.due]

ScrapedUrl == [status |-> "ACTIVE", retry |-> 0, due |-> FALSE]

----------------------------------------------------------------------------
(* Workers that hold a job: claimed, and not yet settled. *)

Holds(w) == worker[w].pc \in {"working", "marking", "recording"}
Held(j) == \E w \in Workers : Holds(w) /\ worker[w].job = j
HeldBy(p) == {worker[w].job : w \in {v \in Workers : ProcOf[v] = p /\ Holds(v)}}

Init ==
  /\ \E legacy \in [LegacyJobs -> LegacyRow] :
       /\ queue = [j \in Jobs |-> IF j \in LegacyJobs THEN legacy[j] ELSE NoRow]
       /\ abandoned = {j \in LegacyJobs : legacy[j].status = "IN_PROGRESS"}
  /\ urls = [j \in Jobs |-> IF j \in LegacyJobs THEN NewUrl ELSE NoUrl]
  /\ worker = [w \in Workers |-> Idle("off")]
  /\ proc = [p \in Procs |-> "down"]
  /\ torn = {} /\ runs = 0

----------------------------------------------------------------------------
(* The URL registry: discovery and the passing of time *)

\* Step 2 finds a player: bulk_enqueue inserts the registry row, due at once.
Discover(j) ==
  /\ urls[j].status = "ABSENT"
  /\ urls' = [urls EXCEPT ![j] = NewUrl]
  /\ UNCHANGED <<queue, worker, proc, abandoned, torn, runs>>

\* next_scrape_at passes.  The cadence (168 h) outlasts any single claim.
BecomeDue(j) ==
  /\ urls[j].status = "ACTIVE" /\ ~urls[j].due
  /\ ~Held(j)
  /\ urls' = [urls EXCEPT ![j].due = TRUE]
  /\ UNCHANGED <<queue, worker, proc, abandoned, torn, runs>>

\* Mutant: next_scrape_at is not looked at.
Schedulable_NotDue(j) == urls[j].status \in {"PENDING", "ACTIVE"}
Schedulable(j) == urls[j].status \in {"PENDING", "ACTIVE"} /\ urls[j].due

\* PgNotifyListener._enqueue_row: insert, or give an unlinked row its link.
ListenerEnqueue(j) ==
  /\ DaemonRuns /\ Schedulable(j)
  /\ \/ /\ queue[j].status = "ABSENT"
        /\ queue' = [queue EXCEPT ![j] = SeededRow]
     \/ /\ queue[j].status # "ABSENT" /\ ~queue[j].linked
        /\ queue' = [queue EXCEPT ![j].linked = TRUE]
  /\ UNCHANGED <<urls, worker, proc, abandoned, torn, runs>>

----------------------------------------------------------------------------
(* Process start: recover_all_stale, (pipeline) recover_failed, then the drain *)

Recovered(p, row) ==
  CASE row.status = "IN_PROGRESS" -> ReleasedRow(row)
    [] row.status = "FAILED" /\ p \in PipelineProcs -> RetriedRow(row)
    [] OTHER -> row

Recover(p) ==
  /\ proc[p] = "down" /\ runs < MaxRuns
  /\ proc' = [proc EXCEPT ![p] = "recovered"]
  /\ queue' = [j \in Jobs |-> Recovered(p, queue[j])]
  /\ abandoned' = {}
  /\ runs' = runs + 1
  /\ UNCHANGED <<urls, worker, torn>>

\* The drain joins the queue on fk_url_registry_id, so it does not see an
\* unlinked row; ON CONFLICT then leaves that row alone unless it is DONE.
Candidates == {j \in Jobs : Schedulable(j) /\ (queue[j].status \in {"ABSENT", "DONE"}
                                                \/ ~queue[j].linked)}
\* Mutant: the drain revives FAILED rows too.
Upsertable_Failed == {j \in Jobs : queue[j].status \in {"ABSENT", "DONE", "FAILED"}}
Upsertable == {j \in Jobs : queue[j].status \in {"ABSENT", "DONE"}}

\* The first BatchSize candidates in the order of the query.
IsBatch(S) ==
  /\ S \subseteq Candidates
  /\ Cardinality(S) = IF Cardinality(Candidates) < BatchSize THEN Cardinality(Candidates)
                                                             ELSE BatchSize

Seed(S) == queue' = [j \in Jobs |-> IF j \in S \cap Upsertable THEN SeededRow ELSE queue[j]]

\* At boot, and in the pipeline's reseeder while the workers run.
MayDrain(p) == proc[p] = "recovered" \/ (proc[p] = "running" /\ p \in PipelineProcs)

\* One round of _startup_drain that returns rows.
DrainBatch(p) ==
  /\ MayDrain(p)
  /\ \E S \in SUBSET Jobs : IsBatch(S) /\ S \cap Upsertable # {} /\ Seed(S)
  /\ UNCHANGED <<urls, worker, proc, abandoned, torn, runs>>

\* The round that returns no row ends the drain; main() starts the workers.
DrainDone(p) ==
  /\ proc[p] = "recovered"
  /\ \E S \in SUBSET Jobs : IsBatch(S) /\ S \cap Upsertable = {}
  /\ proc' = [proc EXCEPT ![p] = "running"]
  /\ worker' = [w \in Workers |-> IF ProcOf[w] = p THEN Idle("claiming") ELSE worker[w]]
  /\ UNCHANGED <<queue, urls, abandoned, torn, runs>>

----------------------------------------------------------------------------
(* The claim loop of a worker *)

\* Mutant: a row that another worker has claimed is claimed again.
Claimable_InProgress == {j \in Jobs : queue[j].status \in {"PENDING", "IN_PROGRESS"}}
Claimable == {j \in Jobs : queue[j].status = "PENDING"}

\* claim_next or claim_by_id, committed.  SKIP LOCKED: any pending row may come.
Claim(w, j) ==
  /\ worker[w].pc = "claiming" /\ j \in Claimable
  /\ queue' = [queue EXCEPT ![j] = ClaimedRow(@)]
  /\ worker' = [worker EXCEPT ![w] = Copy("working", j, queue[j].linked)]
  /\ UNCHANGED <<urls, proc, abandoned, torn, runs>>

\* The claim commits but its reply is lost: the worker restarts without the job.
ClaimReplyLost(w, j) ==
  /\ RepliesLost
  /\ worker[w].pc = "claiming" /\ j \in Claimable
  /\ queue' = [queue EXCEPT ![j] = ClaimedRow(@)]
  /\ abandoned' = abandoned \cup {j}
  /\ UNCHANGED <<urls, worker, proc, torn, runs>>

\* An upsert locks the conflicting row until its transaction ends, whether it
\* changes the row or not: a poll of the daemon locks every due row.
UpsertLocks(j) == Schedulable(j) /\ (DaemonRuns \/ (~queue[j].linked /\ \E p \in Procs : MayDrain(p)))

\* A late settlement of a row that was recovered since locks it as well.
SettlementLocks(j) == \E w \in Workers : worker[w].pc \in {"marking", "recording"} /\ worker[w].job = j

\* Direct mode: SKIP LOCKED finds no row and the worker returns (in the pipeline
\* once step 2 is done).  Buffered mode: the producer's sentinel ends the worker,
\* whatever has become PENDING since the producer's last look at the table.
NoWork(w) ==
  /\ worker[w].pc = "claiming"
  /\ Buffered \/ \A j \in Claimable : UpsertLocks(j) \/ SettlementLocks(j)
  /\ worker' = [worker EXCEPT ![w] = Idle("exited")]
  /\ UNCHANGED <<queue, urls, proc, abandoned, torn, runs>>

\* The player's rows are written; mark_done reads the queue row, without a lock.
ReadRow(w) ==
  /\ worker[w].pc = "working"
  /\ worker' = [worker EXCEPT ![w] = [@ EXCEPT !.pc = "marking",
                                               !.sawDone = queue[worker[w].job].status = "DONE",
                                               !.sawLocked = queue[worker[w].job].locked]]
  /\ UNCHANGED <<queue, urls, proc, abandoned, torn, runs>>

\* Mutant: mark_scraped looks for pages that are scheduled.
CommitScrape_LeavesStale(w) ==
  LET j == worker[w].job
      new == MarkedRow(queue[j], worker[w].sawDone, worker[w].sawLocked)
  IN /\ worker[w].pc = "marking"
     /\ queue' = [queue EXCEPT ![j] = new]
     /\ urls' = IF worker[w].linked /\ urls[j].status # "STALE" THEN [urls EXCEPT ![j] = ScrapedUrl] ELSE urls
     /\ torn' = IF new = DoneRow(queue[j]) THEN torn ELSE torn \cup {j}
     /\ UNCHANGED <<proc, abandoned, runs>>

\* mark_done's UPDATE locks the row; then mark_scraped, if the worker's copy of
\* the row has a link, and the commit of it all.
CommitScrape(w) ==
  LET j == worker[w].job
      new == MarkedRow(queue[j], worker[w].sawDone, worker[w].sawLocked)
  IN /\ worker[w].pc = "marking"
     /\ queue' = [queue EXCEPT ![j] = new]
     /\ urls' = IF worker[w].linked THEN [urls EXCEPT ![j] = ScrapedUrl] ELSE urls
     /\ torn' = IF new = DoneRow(queue[j]) THEN torn ELSE torn \cup {j}
     /\ UNCHANGED <<proc, abandoned, runs>>

Succeed(w) ==
  /\ CommitScrape(w)
  /\ worker' = [worker EXCEPT ![w] = Idle("claiming")]

Recording(w) == worker' = [worker EXCEPT ![w] = Copy("recording", @.job, @.linked)]

\* The commit succeeds, its reply is lost, and the worker records a failure.
SucceedReplyLost(w) == RepliesLost /\ CommitScrape(w) /\ Recording(w)

\* Page load, rate limit (third attempt), browser or any other error; also of a
\* statement of the transaction, which is rolled back.
Fail(w) ==
  /\ worker[w].pc \in {"working", "marking"}
  /\ Recording(w)
  /\ UNCHANGED <<queue, urls, proc, abandoned, torn, runs>>

\* record_job_failure: both rows, locked in one order, one terminal decision.
CommitFailure(j) ==
  /\ queue' = [queue EXCEPT ![j] = FailedRow(@)]
  /\ urls' = IF queue[j].linked THEN [urls EXCEPT ![j] = FailedUrl(@, queue[j])] ELSE urls

RecordFailure(w) ==
  /\ worker[w].pc = "recording"
  /\ CommitFailure(worker[w].job)
  /\ worker' = [worker EXCEPT ![w] = Idle("claiming")]
  /\ UNCHANGED <<proc, abandoned, torn, runs>>

\* _record_failure_with_retry makes three attempts.
MoreTries(tries) == tries < 2

\* An attempt of _record_failure_with_retry raises (lock timeout, connection
\* loss), before the commit or after it.  The third one raises RuntimeError.
RecordFailureRaises(w, committed) ==
  /\ worker[w].pc = "recording"
  /\ IF committed THEN RepliesLost /\ CommitFailure(worker[w].job) ELSE UNCHANGED <<queue, urls>>
  /\ IF MoreTries(worker[w].tries)
     THEN /\ worker' = [worker EXCEPT ![w].tries = @ + 1]
          /\ UNCHANGED abandoned
     ELSE /\ worker' = [worker EXCEPT ![w] = Idle("fatal")]
          /\ abandoned' = abandoned \cup {worker[w].job}
  /\ UNCHANGED <<proc, torn, runs>>

\* BaseWorker.run catches the RuntimeError and starts the browser again.
RestartAfterFatal(w) ==
  /\ worker[w].pc = "fatal"
  /\ worker' = [worker EXCEPT ![w] = Idle("claiming")]
  /\ UNCHANGED <<queue, urls, proc, abandoned, torn, runs>>

\* Mutant: the release does nothing.
ReleaseToPending_Forgets(j) == queue' = [queue EXCEPT ![j] = @]
\* A row that is not IN_PROGRESS is left alone.
ReleaseToPending(j) ==
  queue' = [queue EXCEPT ![j] = IF @.status = "IN_PROGRESS" THEN ReleasedRow(@) ELSE @]

\* Buffered mode: the gate closed after the claim.
Release(w) ==
  /\ Buffered /\ worker[w].pc = "working"
  /\ ReleaseToPending(worker[w].job)
  /\ worker' = [worker EXCEPT ![w] = Idle("claiming")]
  /\ UNCHANGED <<urls, proc, abandoned, torn, runs>>

\* The release raises, before its commit or after it, and the worker restarts.
ReleaseRaises(w, committed) ==
  /\ Buffered /\ worker[w].pc = "working"
  /\ IF committed THEN RepliesLost /\ ReleaseToPending(worker[w].job)
                  ELSE UNCHANGED queue
  /\ worker' = [worker EXCEPT ![w] = Idle("claiming")]
  /\ abandoned' = abandoned \cup {worker[w].job}
  /\ UNCHANGED <<urls, proc, torn, runs>>

----------------------------------------------------------------------------
(* The end of a process, and the operator's recovery of one job *)

\* main() returns when every worker has returned.
Finish(p) ==
  /\ proc[p] = "running"
  /\ \A w \in Workers : ProcOf[w] = p => worker[w].pc = "exited"
  /\ proc' = [proc EXCEPT ![p] = "down"]
  /\ UNCHANGED <<queue, urls, worker, abandoned, torn, runs>>

\* Ctrl+C, SIGKILL or a crash, between any two transactions.
Crash(p) ==
  /\ proc[p] # "down"
  /\ proc' = [proc EXCEPT ![p] = "down"]
  /\ worker' = [w \in Workers |-> IF ProcOf[w] = p THEN Idle("off") ELSE worker[w]]
  /\ abandoned' = abandoned \cup HeldBy(p)
  /\ UNCHANGED <<queue, urls, torn, runs>>

RecoverFailedJob(j) ==
  /\ queue[j].status = "FAILED" /\ queue[j].linked /\ urls[j].status = "STALE"
  /\ queue' = [queue EXCEPT ![j] = RetriedRow(@)]
  /\ urls' = [urls EXCEPT ![j] = NewUrl]
  /\ UNCHANGED <<worker, proc, abandoned, torn, runs>>

----------------------------------------------------------------------------
WorkerStep(w) ==
  \/ \E j \in Jobs : Claim(w, j) \/ ClaimReplyLost(w, j)
  \/ NoWork(w) \/ ReadRow(w) \/ Succeed(w) \/ SucceedReplyLost(w) \/ Fail(w) \/ Release(w)
  \/ RecordFailure(w) \/ RestartAfterFatal(w)
  \/ \E committed \in BOOLEAN : RecordFailureRaises(w, committed) \/ ReleaseRaises(w, committed)

BootStep(p) == DrainBatch(p) \/ DrainDone(p)

Next ==
  \/ \E j \in Jobs : Discover(j) \/ BecomeDue(j) \/ ListenerEnqueue(j) \/ RecoverFailedJob(j)
  \/ \E p \in Procs : Recover(p) \/ BootStep(p) \/ Finish(p) \/ Crash(p)
  \/ \E w \in Workers : WorkerStep(w)

Spec == Init /\ [][Next]_vars

\* The event loop of a live process runs its boot sequence and every coroutine.
Fairness ==
  /\ \A p \in Procs : WF_vars(BootStep(p)) /\ WF_vars(Finish(p))
  /\ \A w \in Workers : WF_vars(WorkerStep(w))

FairSpec == Spec /\ Fairness

----------------------------------------------------------------------------
(* Properties *)

TypeOK ==
  /\ queue \in [Jobs -> QueueRow]
  /\ urls \in [Jobs -> UrlRow]
  /\ worker \in [Workers -> WorkerState]
  /\ proc \in [Procs -> {"down", "recovered", "running"}]
  /\ abandoned \in SUBSET Jobs /\ torn \in SUBSET Jobs
  /\ runs \in Nat
  /\ \A w \in Workers : Holds(w) => worker[w].job \in Jobs

\* locked_at is set exactly on IN_PROGRESS rows, whoever settles, releases,
\* recovers or re-seeds the row and in whatever order; only a mark_done that wrote
\* over a row it had not read may leave it otherwise.
LockMatchesStatus ==
  \A j \in Jobs \ torn : queue[j].locked <=> queue[j].status = "IN_PROGRESS"

\* In one process that gets its replies, no other transaction comes between the
\* unlocked SELECT of mark_done and its UPDATE: what it means to write, it writes.
NothingTorn == torn = {}

\* A row that can still be scraped is below the retry ceiling: no sequence of
\* failures, late failures, drains and recoveries keeps a dead job circulating.
CirculatingBelowCeiling ==
  \A j \in Jobs : queue[j].status \in {"PENDING", "IN_PROGRESS"} => queue[j].retry < MaxQueueRetries

\* No two workers hold the same job, and the row of a held job is IN_PROGRESS
\* (one process, no lost replies: claims, releases and failures never overlap).
ClaimExclusive ==
  /\ \A v, w \in Workers : Holds(v) /\ Holds(w) /\ worker[v].job = worker[w].job => v = w
  /\ \A w \in Workers : Holds(w) => queue[worker[w].job].status = "IN_PROGRESS"

\* An IN_PROGRESS row is in the hands of a live worker, or its worker crashed
\* or gave it up: no path of the claim loop forgets a claimed row.
NoOrphan ==
  \A j \in Jobs : queue[j].status = "IN_PROGRESS" => j \in abandoned \/ Held(j)

\* The terminal pair of record_job_failure survives every later event: a FAILED
\* row has a STALE registry row, and a STALE row is never without a queue row
\* that can bring it back.  (Two holders of a row can break the pair only through
\* a mark_done that read DONE and so does not write it.)
TerminalPair ==
  \A j \in Jobs \ (LegacyJobs \cup torn) :
    /\ queue[j].status = "FAILED" => queue[j].linked /\ urls[j].status = "STALE"
    /\ urls[j].status = "STALE" => queue[j].status \in {"FAILED", "PENDING", "IN_PROGRESS"}

\* The two retry counters agree while a job circulates or has failed: the queue
\* row is the single authority of both (deployments without the pipeline).
RetryInStep ==
  \A j \in Jobs \ (LegacyJobs \cup torn) :
    queue[j].status \in {"PENDING", "IN_PROGRESS", "FAILED"} => urls[j].retry = queue[j].retry

\* Only a due page is waiting or being scraped: neither drain, daemon nor
\* recovery schedules a page again before its cadence has passed.
NoRedundantScrape ==
  \A j \in Jobs \ LegacyJobs : queue[j].status \in {"PENDING", "IN_PROGRESS"} => urls[j].due

\* A row leaves FAILED only by explicit retry logic (ScrapeStatus): the
\* operator's recover_failed_job, or recover_failed at the start of a pipeline.
RetryIsExplicit ==
  [][\A j \in Jobs : queue[j].status = "FAILED" /\ queue'[j].status # "FAILED" =>
       \/ urls[j].status = "STALE" /\ urls'[j].status = "PENDING"
       \/ \E p \in PipelineProcs : proc[p] = "down" /\ proc'[p] = "recovered"]_vars

\* A page whose row is DONE comes back: it has its next date, or it is still due
\* and the next drain reopens the row.  So although the worker decides on
\* mark_scraped with the link it copied at the claim, which the daemon may have
\* set since, and although recover_failed revives a row and leaves its page STALE.
DonePageReturns ==
  \A j \in Jobs : queue[j].status = "DONE" => urls[j].status = "ACTIVE" \/ Schedulable(j)

\* A success stands, in one process that gets its replies: mark_done has written
\* all that it meant to, and the page comes back.
SuccessStands == NothingTorn /\ DonePageReturns

Alive == \E w \in Workers : worker[w].pc \notin {"off", "exited"}
Settled(j) == queue[j].status \in {"DONE", "FAILED"}
Killed == \A w \in Workers : worker[w].pc = "off"
Reset(j) == queue[j].status = "FAILED" /\ queue'[j].status = "PENDING"

\* Unless an operator resets failed jobs for ever, a job that waits while some
\* worker is alive is eventually scraped or fails for good, or its worker gave
\* it up or the process was killed: the retry ceiling ends every sequence of
\* failures, and no worker returns while a job it could claim is waiting.
JobsSettle ==
  <>[][\A j \in Jobs : ~Reset(j)]_vars =>
    \A j \in Jobs : (queue[j].status = "PENDING" /\ Alive)
                      ~> (Settled(j) \/ j \in abandoned \/ Killed)

----------------------------------------------------------------------------
(* The inductive invariant behind the safety properties *)

\* Only the workers of a running process run.
LiveWorkers ==
  \A w \in Workers : worker[w].pc \notin {"off", "exited"} => proc[ProcOf[w]] = "running"

\* A row of this schema is linked, and so is a worker's copy of it.
LinkedRows ==
  /\ \A j \in Jobs \ LegacyJobs : queue[j].status # "ABSENT" => queue[j].linked
  /\ \A w \in Workers : Holds(w) /\ worker[w].job \notin LegacyJobs => worker[w].linked

\* A held job has a queue row, even one that another process settled.
HeldRowExists == \A w \in Workers : Holds(w) => queue[worker[w].job].status # "ABSENT"

\* NoOrphan at a mark_done: somebody holds a claimed row who has not read it as
\* DONE, and so will write its status.
Claimant(w, j) == Holds(w) /\ worker[w].job = j /\ ~worker[w].sawDone
ClaimIsOwned ==
  \A j \in Jobs : queue[j].status = "IN_PROGRESS" => j \in abandoned \/ \E w \in Workers : Claimant(w, j)

\* TerminalPair at a failure needs the link of the row (LinkedRows) and the row
\* itself (HeldRowExists); ClaimIsOwned at a start needs LiveWorkers.
IInv ==
  /\ TypeOK /\ LiveWorkers /\ LinkedRows /\ HeldRowExists
  /\ LockMatchesStatus /\ CirculatingBelowCeiling /\ ClaimIsOwned /\ TerminalPair
============================================================================
