----------------------------- MODULE WorkServer -----------------------------
(***************************************************************************)
(* infrastructure/work_server and infrastructure/jobs/job_loop.py: the     *)
(* server that takes URLs over HTTP, its job loop, and the one browser all *)
(* jobs of a batch share (BrowserEngine).  What the loop does to the rows  *)
(* of the list workers is in ListWorkers.                                  *)
(***************************************************************************)
EXTENDS BrowserEngine

CONSTANTS
  MaxRetries,       \* max_retries of a scraper
  MaxQueueRetries,  \* max_queue_retries of the job loop
  MaxSlots,         \* bound: max_concurrent_requests
  MaxStops          \* bound: shutdowns and kills of the server

\* Rows are numbered in insertion order.
Rows == Urls

ASSUME RowsAssumption == Rows \subseteq Nat /\ IsFiniteSet(Rows)
ASSUME LimitsAssumption ==
  /\ {MaxRetries, MaxQueueRetries, MaxSlots} \subseteq Nat \ {0}
  /\ MaxStops \in Nat

VARIABLES
  slots,     \* max_concurrent_requests
  queue,     \* the scrape_queue rows
  task,      \* the _process task of each row of the batch
  prov,      \* provenance: the row, and the page whose hash it records
  server,    \* "up", "closing" once the loop is cancelled, "down"
  stranded,  \* rows the server left IN_PROGRESS
  stops

jobVars == <<queue, task, prov, stranded>>
vars == <<browserVars, slots, jobVars, server, stops>>

NoTask == [pc |-> "none", attempt |-> 0]

Init ==
  /\ BrowserInit
  /\ slots \in 1 .. MaxSlots
  /\ queue = [r \in Rows |-> [status |-> "ABSENT", retry |-> 0]]
  /\ task = [r \in Rows |-> NoTask]
  /\ prov = {} /\ server = "up" /\ stranded = {} /\ stops = 0

SetStatus(r, s) == queue' = [queue EXCEPT ![r].status = s]
EndTask(r) == task' = [task EXCEPT ![r] = NoTask]
EndCall(r) == call' = [call EXCEPT ![r] = NoCall]
Environment == <<slots, server, stops>>

----------------------------------------------------------------------------
(* HTTP *)

\* POST /jobs: a URL the queue has is rejected as a duplicate.
Post(r) ==
  /\ server = "up" /\ queue[r].status = "ABSENT"
  /\ SetStatus(r, "PENDING")
  /\ UNCHANGED <<browserVars, task, prov, stranded, Environment>>

----------------------------------------------------------------------------
(* JobLoop.run *)

Pending == {r \in Rows : queue[r].status = "PENDING"}
Batch == {r \in Pending : Cardinality({q \in Pending : q < r}) < slots}

\* The locks of list_pending end with its session, before the rows are
\* processed.  The limit is also the size of the semaphore.
RunBatch ==
  /\ server = "up" /\ Pending # {} /\ \A r \in Rows : task[r].pc = "none"
  /\ task' = [r \in Rows |-> IF r \in Batch THEN [NoTask EXCEPT !.pc = "waiting"] ELSE task[r]]
  /\ UNCHANGED <<browserVars, queue, prov, stranded, Environment>>

\* _process marks the row whatever its status is by now.
StartJob(r) ==
  /\ task[r].pc = "waiting"
  /\ SetStatus(r, "IN_PROGRESS")
  /\ task' = [task EXCEPT ![r] = [pc |-> "fetching", attempt |-> 1]]
  /\ stranded' = stranded \ {r}
  /\ UNCHANGED <<browserVars, prov, Environment>>

\* The error is swallowed by gather; the commit may have been applied.
StartRaises(r) ==
  /\ task[r].pc = "waiting"
  /\ EndTask(r)
  /\ \/ UNCHANGED <<queue, stranded>>
     \/ SetStatus(r, "IN_PROGRESS") /\ stranded' = stranded \cup {r}
  /\ UNCHANGED <<browserVars, prov, Environment>>

\* make_scraper_factory knows no scraper for the URL: a ScraperError.
NoScraper(r) ==
  /\ task[r] = [pc |-> "fetching", attempt |-> 1] /\ At(r, "idle")
  /\ task' = [task EXCEPT ![r].pc = "failing"]
  /\ UNCHANGED <<browserVars, queue, prov, stranded, Environment>>

Fetch(r) ==
  /\ task[r].pc = "fetching"
  /\ Enter(r) \/ FetchStep(r)
  /\ UNCHANGED <<jobVars, Environment>>

\* fetch_and_parse tries again after a page load error, a rate limit or an
\* incomplete page, up to its limit; a parsing error fails the job at once.
Retry(r) ==
  /\ task[r].pc = "fetching" /\ call[r].pc \in {"raised", "returned"}
  /\ task[r].attempt < MaxRetries
  /\ task' = [task EXCEPT ![r].attempt = @ + 1]
  /\ EndCall(r)
  /\ UNCHANGED <<engine, chrome, queue, prov, stranded, Environment>>

\* Mutant: a scraper's error ends the task without a mark.
ScrapeFails_Unrecorded(r) ==
  /\ task[r].pc = "fetching" /\ call[r].pc \in {"raised", "returned"}
  /\ EndTask(r) /\ EndCall(r)
  /\ UNCHANGED <<engine, chrome, queue, prov, stranded, Environment>>
ScrapeFails(r) ==
  /\ task[r].pc = "fetching"
  /\ At(r, "returned") \/ (At(r, "raised") /\ task[r].attempt = MaxRetries)
  /\ task' = [task EXCEPT ![r].pc = "failing"]
  /\ EndCall(r)
  /\ UNCHANGED <<engine, chrome, queue, prov, stranded, Environment>>

\* Anything but a ScraperError or a RepositoryError ends the task with no mark:
\* fetch() or the parser crashed, or the last commit raised.
JobCrashes(r) ==
  /\ task[r].pc = "fetching" /\ call[r].pc \in {"crashed", "returned"}
  /\ EndTask(r) /\ EndCall(r)
  /\ stranded' = stranded \cup {r}
  /\ UNCHANGED <<engine, chrome, queue, prov, Environment>>

\* The provenance row and DONE are one commit.
Settle(r) ==
  /\ task[r].pc = "fetching" /\ At(r, "returned")
  /\ prov' = prov \cup {<<r, call[r].page>>}
  /\ SetStatus(r, "DONE")
  /\ EndTask(r) /\ EndCall(r)
  /\ UNCHANGED <<engine, chrome, stranded, Environment>>

\* Mutant: the generic mark_failed, which has no ceiling.
MarkFailed_Forever(r) ==
  /\ task[r].pc = "failing"
  /\ SetStatus(r, "PENDING")
  /\ EndTask(r)
  /\ UNCHANGED <<browserVars, prov, stranded, Environment>>

\* ScrapeQueueJobRepository.mark_failed, in a session of its own.
MarkFailed(r) ==
  /\ task[r].pc = "failing"
  /\ LET n == queue[r].retry + 1 IN
       queue' = [queue EXCEPT ![r] = [retry |-> n, status |-> IF n >= MaxQueueRetries THEN "FAILED" ELSE "PENDING"]]
  /\ EndTask(r)
  /\ UNCHANGED <<browserVars, prov, stranded, Environment>>

MarkFailedRaises(r) ==
  /\ task[r].pc = "failing"
  /\ EndTask(r)
  /\ stranded' = stranded \cup {r}
  /\ UNCHANGED <<browserVars, queue, prov, Environment>>

----------------------------------------------------------------------------
(* serve: shutdown and restart *)

InProgress == {r \in Rows : queue[r].status = "IN_PROGRESS" /\ task[r].pc \in {"fetching", "failing"}}
DropTasks ==
  /\ task' = [r \in Rows |-> NoTask] /\ call' = [r \in Rows |-> NoCall]
  /\ stranded' = stranded \cup InProgress

\* A signal: the site is stopped, and the loop's task is cancelled with its batch.
Shutdown ==
  /\ server = "up" /\ stops < MaxStops
  /\ server' = "closing" /\ stops' = stops + 1
  /\ DropTasks /\ engine' = [engine EXCEPT !.starting = None]
  /\ UNCHANGED <<chrome, queue, prov, slots>>

Close ==
  /\ server = "closing" /\ server' = "down"
  /\ CloseEngine
  /\ UNCHANGED <<call, jobVars, slots, stops>>

Kill ==
  /\ server = "up" /\ stops < MaxStops
  /\ server' = "down" /\ stops' = stops + 1
  /\ DropTasks /\ engine' = NoBrowser
  /\ chrome' = [c \in Chromes |-> IF Running(c) THEN [chrome[c] EXCEPT !.state = "stuck"] ELSE chrome[c]]
  /\ UNCHANGED <<queue, prov, slots>>

\* A start recovers no row.
Restart ==
  /\ server = "down" /\ server' = "up"
  /\ UNCHANGED <<browserVars, jobVars, slots, stops>>

ChromeDies(c) == Dies(c) /\ UNCHANGED <<jobVars, Environment>>

----------------------------------------------------------------------------
JobStep(r) ==
  \/ StartJob(r) \/ StartRaises(r) \/ NoScraper(r) \/ Fetch(r) \/ Retry(r) \/ ScrapeFails(r)
  \/ JobCrashes(r) \/ Settle(r) \/ MarkFailed(r) \/ MarkFailedRaises(r)

Next ==
  \/ \E r \in Rows : Post(r) \/ JobStep(r)
  \/ RunBatch \/ Shutdown \/ Close \/ Kill \/ Restart
  \/ \E c \in Chromes : ChromeDies(c)

Spec == Init /\ [][Next]_vars

\* The loop and its tasks run; the database does not refuse every start of a job.
Fairness ==
  /\ WF_vars(RunBatch) /\ \A r \in Rows : WF_vars(JobStep(r)) /\ SF_vars(StartJob(r))

FairSpec == Spec /\ Fairness

----------------------------------------------------------------------------
(* Properties *)

TypeOK ==
  /\ engine \in EngineState
  /\ chrome \in [Chromes -> ChromeState] /\ call \in [Urls -> CallState]
  /\ queue \in [Rows -> [status : {"ABSENT", "PENDING", "IN_PROGRESS", "DONE", "FAILED"}, retry : Nat]]
  /\ task \in [Rows -> [pc : {"none", "waiting", "fetching", "failing"}, attempt : 0 .. MaxRetries]]
  /\ prov \subseteq Rows \X Rows
  /\ slots \in 1 .. MaxSlots /\ server \in {"up", "closing", "down"}
  /\ stranded \subseteq Rows /\ stops \in Nat

\* A row is left IN_PROGRESS by a crash, a lost commit or a stop of the server
\* only: whatever error a scraper reports, and whatever the browser does to the
\* other jobs of the batch, the job is marked.
ErrorsDoNotStrand ==
  \A r \in Rows : queue[r].status = "IN_PROGRESS" =>
    task[r].pc \in {"fetching", "failing"} \/ r \in stranded

\* With one request at a time, a job records the hash of its own page: no
\* earlier attempt, no earlier job and no restart of the browser leaves another
\* page in the shared tab.
SerialPagesMatch == slots = 1 => \A p \in prov : p[1] = p[2]

\* With one request at a time, no Chrome is lost: one that runs is the engine's,
\* or did not stop when it was told to.
SerialChrome ==
  slots = 1 => \A c \in Chromes : chrome[c].state = "alive" => engine.browser = c

\* The start lock: however the calls of a batch interleave with failed launches
\* and cleanups, one launch is under way at a time.
OneLaunch == \A u, v \in Urls :
  call[u].pc \in {"display", "launching"} /\ call[v].pc \in {"display", "launching"} => u = v

\* The engine's browser, its processes and the calls agree: the types, no lost
\* Chrome and no second launch.
EngineInv == TypeOK /\ SerialChrome /\ OneLaunch

\* A submitted URL leaves the queue: it is done, given up or stranded, unless the
\* server stops or browsers that were lost use up the processes.
JobsLeaveQueue ==
  \A r \in Rows : queue[r].status = "PENDING" ~>
    (queue[r].status \in {"DONE", "FAILED"} \/ r \in stranded \/ server # "up" \/ Fresh = {})
=============================================================================
