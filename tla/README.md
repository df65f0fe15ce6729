# SportCrawl: verification project

TLA+ models of the parts of SportCrawl whose correctness depends on order,
failure and concurrency: the PostgreSQL job queue and the URL registry behind
it, the workers of the three steps, the buffered mode with its producer and its
shared rate-limit gate, the transaction that stores a player's page, the
commands that set the database up and start the pipeline, the daemon that keeps
the queue filled, the work server with its shared browser, and the browser
extension with the harness that drives it. TLC checks them on small instances;
TLAPS proves their main invariants, and that the queue implements a lease
protocol, for every value of the constants.

Paths below are relative to the repository. `SP` is
`scripts/scrape_player_info.py`.

## 1. Inventory

| component | code | state | operations | model |
|---|---|---|---|---|
| player_info queue | `repositories/scrape_queue.py`, `player_info_queue.py`, `core/application/retry_policy.py` | rows of `scrape_queue`: status, retry_count, locked_at, fk_url_registry_id | claim_next, claim_by_id, mark_done, release_to_pending, record_job_failure, recover_all_stale, recover_failed, recover_failed_job, peek_pending_ids | ScrapeQueue |
| URL registry | `repositories/backend_urls.py`, `player_discovery.py`, `models/backend/` | rows of the url tables: status, retry_count, next_scrape_at | bulk_enqueue, fetch_due_rows, mark_scraped, co-inserts and sync | ScrapeQueue, ScrapeDaemon, ListWorkers, Seeding (partly: teams not) |
| player_info workers, direct mode | `SP` run_claim_loop, `core/application/base_worker.py` | the claimed row's copy, attempts, the browser session | claim, scrape, settle, record a failure with retries, restart; startup recovery and drain | ScrapeQueue, PlayerData |
| rate-limit gate | `infrastructure/browser/gate.py` | an Event, the recovery task and its probes | signal_rate_limit, cancel_recovery, mark_engine_ready, shutdown, the recovery task | RateLimitGate |
| dispatch buffer, producer | `infrastructure/browser/dispatch.py` | a queue of references, the dedup set, closed, the stop event | put, get, close, abort; run, request_stop | DispatchBuffer |
| player_info workers, buffered mode | `SP` run_buffered, _run_buffered_loop, main | reference, claim, attempts, engine | claim by id, re-check of the gate, release, navigation, failure | BufferedDispatch |
| warm pool | `infrastructure/browser/pool.py` | slots with their own engine loop | WorkerSlot.run | BufferedDispatch (partly) |
| scrape transaction | `core/application/scrape_job_processor.py`, `scraping/player_info.py`, `player_std_stats.py`, `repositories/player_info.py`, `player_std_stats.py` | lookup tables, player and statistics rows, position_cache | parse, upsert, commit, roll back | PlayerData |
| player_list and team_list workers | `scripts/scrape_players.py`, `scrape_country_teams.py` | rows of two job types, their registries, the fetch semaphore | seed, recover, claim, scrape, three commits, retries | ListWorkers |
| preflight and seeding | `core/preflight/`, `cli/players.py`, `scripts/scrape_countries.py`, `scrape_country_squads.py`, `backfill_backend_urls.py` | schemas, revision, the tables one page fills | checks, migrations, four pages with retries, sync, verdict | Seeding, PlayersStart |
| reset | `cli/main.py` _do_reset | the same | drop, bootstrap, upgrade, refill | PlayersStart |
| pipeline | `scripts/scrape_pipeline.py` | step3_ready, step2_done, watcher and reseeder tasks | steps 1-3, trigger, reseeding, join | Pipeline, PlayersStart |
| cadence scheduler, notify listener | `scripts/run_daemon.py`, `infrastructure/scheduler/`, the notify functions of the migrations | LISTEN connection, handler tasks | tick, poll fallback, payload handlers, reconnect | ScrapeDaemon |
| job loop, work server | `infrastructure/jobs/job_loop.py`, `infrastructure/work_server/` | queue rows, tasks of a batch, provenance, the server's life | post, list, mark, process, shutdown, restart | WorkServer, ListWorkers |
| browser engine | `infrastructure/browser/pydoll_engine.py`, `xvfb_display.py` | one Chrome, one tab, the start lock | _ensure_browser, fetch, cleanup, close | BrowserEngine |
| browser extension | `extensions/sportcrawl-chrome/background.js`, `cli/extension_config.py` | storage, alarms, the variables of the service worker | load, poll, post a clearance, storage and alarm events | Extension |
| clearance harness | `cli/smoke_clearance_real.py`, `work_server_lifecycle.py`, `real_clearance_composition.py`, `browser_launcher.py`, `clearance_observer.py`, `clearance_post_client.py` | its gate, three processes, the clearance store | gates 1-14, cleanup | Clearance |
| schema migrations | `migrations/` | tables, triggers, rows without links | upgrade heads; notify functions | ScrapeQueue, PlayersStart, ScrapeDaemon (what they leave) |
| remote CDP engine | `infrastructure/browser/remote_cdp_engine.py` | a connection | | not modelled |
| single-player smoke command | `cli/smoke_player_info.py` | | | not modelled |
| configuration, display | `config/settings.py`, `infrastructure/display/`, `cli/header.py` | none that is shared | | not modelled |

How they interact: `players start` checks and fills the database and starts the
pipeline; step 2 inserts registry rows; the drain at the start of a scraper,
the pipeline's reseeder and the daemon turn due registry rows into queue rows;
workers claim them under `FOR UPDATE SKIP LOCKED`, commit, scrape without a
lock, and settle the rows afterwards: player_info in one transaction,
player_list in three (the players, the registry row, the queue row), team_list
in two. In buffered mode the producer reads PENDING ids without
claiming them and workers claim by id; every task of the process shares the
gate. The work server's job loop takes rows of the same table without locking
them, and all jobs of its batch share one tab. Nothing but the database connects
two processes of the scraper; harness, work server and extension talk HTTP.

What is hard in it, and what makes each part correct:

- *Queue*: several processes reset each other's claims at start; commits whose
  reply is lost are repeated; a process dies between two commits. Correct: a
  claimed job has one holder (in one process), is never forgotten, never
  circulates beyond the retry ceiling, and the two tables tell one story.
- *Buffered mode*: references go stale between peek, put, get and claim; the
  gate closes between the claim and the navigation; stopping must wake
  everybody. Correct: while every commit is answered, a row that is
  IN_PROGRESS is in exactly one worker's hands, the dedup set is exact, each worker gets its sentinel, and a closed
  gate has somebody who reopens it.
- *Scrape transaction*: workers insert the same lookup rows in the order of
  their pages and share a cache that is filled before the commit. Correct: a
  DONE job has all of its page, a failed one nothing, and nobody waits for ever.
- *List workers*: several commits, a generic mark_failed without a ceiling, a
  job loop on the same rows. Correct: what is marked has been stored.
- *Commands*: each commits many times and may be interrupted between two.
  Correct: the pipeline starts on a complete database only, what was stored is
  registered, every command ends.
- *Pipeline*: two events and four groups of tasks wait for each other. Correct:
  it ends once step3_ready is set, and every player that was found is enqueued.
- *Daemon*: notifications are lost, repeated and late. Correct: nothing that is
  not due is opened, and what is new is enqueued in the end.
- *Work server and browser*: calls of one batch launch, navigate, break and
  stop one browser. Correct: one launch at a time, no row is stranded by an
  error, and a job that runs alone reads its own page.
- *Extension and harness*: the service worker is terminated between two awaits
  and its handlers overlap; any gate may fail or be interrupted. Correct: a
  cleanup that runs to its end leaves nothing running, a stopped extension stays stopped, a confirmed keepalive stays.

`PROJECT.json` lists every hazard with its line and the properties that would
catch it.

## 2. The modules

| module | what it is |
|---|---|
| JobLease | abstract specification: what a queue promises its workers (offer, take, settle, lose, reclaim, revive) |
| ScrapeQueue | queue rows, registry rows, workers, processes, daemon inserts, crashes; its properties and the inductive invariant `IInv` |
| ScrapeQueueLease | the refinement mapping from ScrapeQueue to JobLease |
| DispatchConstants | the sets that gate and buffer share |
| RateLimitGate | operations of the gate and its recovery task |
| DispatchBuffer | operations of the buffer and the producer's loop |
| BufferedDispatch | composes gate and buffer with workers (plain or warm pool) and main() |
| PlayerData | the transaction that stores a page: locks, foreign keys, the shared cache |
| ListWorkers | a run of steps 1 or 2 on its rows, beside the job loop |
| PipelineConstants, Pipeline | steps 2 and 3, their events, watcher and reseeder |
| PipelineDocs | what a docstring says of the watcher |
| Seeding | the database: schemas, revision, the tables of one page, preflight, sync |
| PlayersStart | composes Pipeline and Seeding under the commands and their interruptions |
| ScrapeDaemon | scheduler and listener |
| BrowserEngine | the shared browser: start lock, fetch, cleanup |
| WorkServer | composes BrowserEngine with the server, its job loop and the rows |
| Extension | the service worker |
| Clearance | composes Extension with the harness, the work server and the processes |
| ScrapeQueueProofs, BufferedDispatchProofs, PlayerDataProofs, ListWorkersProofs, PlayersStartProofs, ScrapeDaemonProofs, WorkServerProofs, ClearanceProofs | the TLAPS proofs, one module for each composed system |
| MCScrapeQueue, MCBufferedDispatch, MCPlayerData, MCPlayersStart | instances for TLC: functions, page sets, symmetry |

Operators whose name ends in a suffix such as `_NoLock`, marked `Mutant:`, are
not part of the models. Each is a plausible bug that stands in for the
definition below it to show that a property can fail.

### ScrapeQueue

One action is one database transaction, or one step of a worker between two.
A job stands for one player URL: `queue[j]` is its queue row (retry_count,
`locked` for locked_at, `linked` for fk_url_registry_id), `urls[j]` its
registry row (`due` for next_scrape_at <= now()). `worker[w]` follows the claim
loop; `linked` in it is the copy of the link taken at the claim, which decides
on mark_scraped. `proc[p]` is main() up to the join.

- `Claim` stands for both claim_next and claim_by_id: SKIP LOCKED means that
  any PENDING row may be returned. `NoWork` is the empty claim: rows that a
  running upsert locks are skipped, so it may come while a row is PENDING.
- A success is one transaction over both tables, in two steps: mark_done's
  SELECT takes no lock (`ReadRow`), and its UPDATE (`CommitScrape`, with
  mark_scraped and the commit) writes only the columns that had another value in
  what was read (`MarkedRow`). What another transaction commits in between is
  overwritten in part. `torn` is a history variable: jobs on which a mark_done
  did not write what it meant to.
- `Succeed` is the answered commit; `SucceedReplyLost` is the one whose reply
  never arrives: the exception handler records a failure of a job that is DONE.
- `RecordFailure` and `RecordFailureRaises` are `_record_failure_with_retry`:
  three attempts, each may raise before or after its commit, the third raises
  RuntimeError and BaseWorker.run restarts the browser (`RestartAfterFatal`).
- `Recover`, `DrainBatch`, `DrainDone` are the startup; in the pipeline, failed
  jobs are reset too and the reseeder drains while workers run.
- `Crash` happens between any two transactions. `abandoned` is a history
  variable: jobs whose worker died or gave up.
- `LegacyJobs` are rows of the p56a schema, which have no link.

Retry counters are not capped; TLC's instances stay finite because failures are
bounded by the ceiling and process starts by `MaxRuns`.

### RateLimitGate, DispatchBuffer, BufferedDispatch

asyncio switches tasks only at an await, so an action runs from one await to
the next. `gate.task` says what the recovery task awaits, `gate.owner` whose
engine its probe warms up. `producer` holds the producer's locals, the dedup
set (`seen`) and `closed`; `buffer` holds references and, as `None`,
sentinels. `worker[w].pc` names what the worker awaits:

    starting -> entering -> getting -> claiming -> claimed -> gated -> navigating
                                                         \-> releasing
    navigating -> gated (next attempt) | entering (scraped) | recording -> entering, closing, starting
    navigating -> marked -> entering   (mark_done has read a row that is DONE)

Each commit of a worker may be applied and its reply lost: the claim
(`ClaimRaises`), the release (`ReleaseRaises`), the scrape (`SucceedReplyLost`,
after which a failure is recorded on a DONE row) and each attempt at recording a
failure (`RecordAgain`, `RecordEnds`: the next attempt counts it again, perhaps
on a row that another worker has claimed by then).
`lost` is a history variable: jobs left IN_PROGRESS by a failed transaction or
by Ctrl+C. `doubtful` is another: jobs whose settlement was committed and
reported as failed, from then until the last worker that holds them lets go. `warmPool`, chosen in Init from `PoolModes`, switches to the slots of
the pool, which close their engine after any exception and cancel the recovery
in a finally block. Rows keep only status and retry count; what other processes
and crashes do to them is ScrapeQueue's subject.

Deliberate over-approximation: puts of one batch are separate steps, in any
order, although several run without an await between them when there is room;
and the peek may return all PENDING jobs (the prefetch limit is not smaller
than the instance). Deliberate coarseness: Ctrl+C cancels all workers in one
step.

### PlayerData

A page is a list of what it names: position tokens, a birth city, a country, a
club, the rows of four tables of statistics. `Work(page)` is the order in which
the repositories touch the lookup tables, and an action is one statement:
an INSERT ... ON CONFLICT DO NOTHING whose key another open transaction has
inserted waits, a cycle of waits is broken by aborting one of them, a foreign
key without its row raises. `tx[w].mine` is what the transaction has inserted
and not committed, `cache` the position_cache that outlives it: after a rollback
it holds ids that no row has. Cities and teams have no id of their own here: a
row that is there is 1. The parsers filter with `Chosen`, which says without
recursion what SelectSeq does; TLC compares the two on all short sequences
(`ChosenIsSelectSeq`).

### ListWorkers

One module for both scripts: `kind` chooses the job type, and with it the
seeding, whether rows are linked, where the data is stored, and what mark_scraped
writes. The scrape, the registry row and the queue row are three actions, each with the outcome that
raises and the one whose commit was applied although the reply was lost. `loop`
is the job loop of the work server, which lists PENDING rows without a lock and
marks them whatever they are by then; it takes one row.

### Pipeline

`step2`, `step3` map workers to what they scrape; `ready` and `done` are the two
events; `watcher`, `reseeder` and `main` are what those tasks await. Claims and
failures are those of ScrapeQueue reduced to what the order of the steps
depends on. The reseeder's look at step2_done is a step of its own
(`ReseedCheck`), because the event may be set while a drain commits: that is
what its final drain is for. The queries of the watcher and of the reseeder may
raise: nobody awaits the watcher's task (`WatcherDies`), main() learns of the
reseeder's error where it awaits it (`ReseederDies`). A country's players are
committed before its row is marked; `CountryInDoubt` is a failure in between, or
one that is not recorded. main() waits for step 1 at its end (`Step1Over`); what
its workers do is ListWorkers' subject, here they run or have returned.

### Seeding, PlayersStart

A table is the set of its keys; storing a page is one transaction, and what a
page yields is any subset of what the site lists, because rows without a link or
a valid value are skipped. `Refused` says which foreign key or lookup the
database misses. `cmd` is the place of the running command: the checks, the
migrations, the four pages, the two syncs, the verdict on the checks, then
Pipeline's actions; or the statements of reset. `Interrupt` ends any command at
any place and keeps what was committed. The upgrade has a place in its middle
because revision p56a opens an autocommit block, which commits what comes before
it; those of p51a, p53a and p55a change nothing the module keeps and are not
places of their own.

### ScrapeDaemon

`tasks` is the set of handler tasks the listener has started; `linked` says
that the LISTEN connection is up, which the listener does not look at while it
sleeps. `Notify` loses what is sent while nobody listens. A poll whose query
raises is logged and skipped (`PollSkips`); one whose upsert raises ends the
connection (`PollRaises`). One table; the
listener's limit of five handlers at a time only orders them.

### BrowserEngine, WorkServer

`engine` has the fields of the PydollEngine, `chrome` the processes and the page
of their tab, `call[u].pc` what a call of fetch() awaits. `browser` is set before
the start is awaited and stays set when it fails, so that the next call finds a
browser without a tab. A Chrome that was told to stop may stay (`stuck`). In
WorkServer a row is its URL; `task[r]` is `_process`, and its call is inside it.
`stranded` is a history variable: rows left IN_PROGRESS by a crash of the job, a
commit that raised, or the stop of the server. `slots` is
max_concurrent_requests, chosen in Init.

### Extension, Clearance

`stored` and `alarms` outlive the service worker, `sw` does not; `task` maps each
handler to the await it is at. A step of a handler ends at an await; a
storage write is a step of its own, a read happens when its answer is used.
Clearance adds the harness's gate, the processes it starts, who listens on the
port (its own server, or one an operator left running), whether the token is
known there, and the last clearance the server keeps. The checks before the first
service are one step. A gate that awaits has an action for its success and one
for its failure or time-out. `Interrupted` is Ctrl+C at any gate: it leads to the
finally block, and inside the block it ends the block, because `except Exception`
does not catch it; `cut` records at which of the two stops. Two things are
assumed: a Popen of the harness is not torn between the start of the process and
its return, and two polls of one life do not overlap, because the alarm comes
every minute and Chrome ends a service worker whose fetch is not answered within
30 seconds.

## 3. The runs

| run | question | instance |
|---|---|---|
| queue_single | Is a claim exclusive, does the queue implement JobLease, is no mark_done torn, is nothing scheduled early, lost behind a DONE row or revived unasked? | 3 jobs (one legacy row in any status), 2 workers in 1 pipeline process, buffered mode, daemon, 2 process starts |
| queue_faults | Do no orphan, the retry ceiling and, but for torn rows, the pairing of the two tables survive two processes, mark_done's unlocked read, lost replies and crashes? | 2 jobs, 2 processes of 1 worker, 3 starts |
| queue_live | Does every waiting job settle? | 2 jobs, 2 workers, 1 process, 2 starts, fairness |
| buffered_faults | Buffered mode, with the warm pool and without it, with everything that can fail failing | 2 jobs, 2 workers, buffer of 1, 2 probes, 1 attempt at a page, 2 at recording a failure, ceiling 2, Ctrl+C, 1 job in doubt at a time without the pool and none with it |
| buffered_ends | Does the process end, without deadlock? | 2 jobs, 2 workers, 2 attempts at a page, ceiling 1, no pool, fairness |
| player_data | Is a DONE page whole, with the right positions, and does every transaction end? | 2 jobs, 2 workers, 2 codes, 2 teams, 1 city, ceiling 2, 1 restart; the pages of MCPlayerData, which share codes and teams in both orders |
| list_workers | Do steps 1 and 2 keep what they mark, beside the job loop? | 2 jobs, 2 workers, 2 attempts, 2 runs |
| players_start | Do all commands end unless the trigger is lost, on a database that is whole, with every player enqueued? | 2 countries (the failures of one may be in doubt), 2 players, 1 competition, trigger 1, 1 + 1 workers, 2 seed retries, from an empty database |
| daemon_faults | Late, lost and failed deliveries | 2 URLs, poll limit 1, 2 restarts, connections that break |
| work_server | Does every submitted URL leave the queue, and does the shared browser keep jobs apart? | 2 URLs, 2 Chromes, 1 or 2 slots, 2 retries, ceiling 2, 1 stop or kill |
| clearance | Does the harness end, and leave nothing unless its cleanup is cut off, and does the extension keep its stop and its keepalive? | 1 termination of the service worker, 1 cookie, three initial profiles |
| doc_trigger | A docstring that the code contradicts (section 5) | trigger 3, 2 players |

Why the bounds are enough. Every interaction of the queue is between at most
two holders of one row, so two workers, and two processes where a second
process matters, show every pair; a second and third job let a worker go on
while another is late. A ceiling of 2 has a failure that is retried and one
that is terminal. `MaxRuns` of 3 with two processes lets each start while the
other works and one of them start again. `BatchSize` of 1 makes a batch smaller
than the candidates. A buffer of 1 with two jobs is full, empty and blocked;
two probes and two attempts at recording a failure have a first and a last (the
code makes three attempts: the third differs from the second in nothing the
model keeps). Attempts at a page differ in nothing but the pass through the gate:
buffered_faults makes one, buffered_ends two. `MaxDoubtful` bounds the jobs whose
lost replies are pending at once: one shows every consequence for its holders
and for the other job's; the pool changes what an exception does to the engine,
not to the row, and is run without. The proofs have none of these bounds.
Two daemon restarts lose a notification, its repetition and a handler. In
player_data a deadlock needs two transactions that insert two keys in opposite
orders, a stale cache one rollback, and a stale cache that outlives the other
worker's commit a second page. In list_workers the second run recovers what the
first lost. In work_server two Chromes are one that is used and one that was
launched beside it; rows beyond the batch are those of the second URL when
`slots` is 1. In players_start a trigger count of 1 is below and reached by what
a country lists; two countries let step 2 go on while step 3 runs, and
`Doubtful` makes one of them a country whose failures may come after its players
or stay unrecorded. One
termination of the service worker may come between any two awaits of its
handlers, and every variable it loses is read again by the next start.

Deadlock is checked in buffered_ends, players_start and doc_trigger, where the
end is a state of its own. In the other runs the system may stop: no job is
left, no start is left, the operator left the gate closed, or a stop ended it.

Symmetry is used in queue_faults (of the jobs, and of the two processes with
their workers) and buffered_faults only, neither of which checks a liveness
property. The VIEW of buffered_faults leaves out two fields of the gate where no
action and no invariant reads them: the engine of a recovery that is over, which
the next signal overwrites, and its count of probes once the gate is open.

### Fairness

- Weak fairness of every coroutine's and task's step: the event loop runs what
  is ready. Also of `EngineReady`: Chrome starts some day. Nothing is assumed of
  outcomes: a page may fail every time.
- Process starts and crashes are not fair, with one exception: list_workers
  assumes that a run is started (`RunEnds` speaks of runs that were).
  `JobsSettle` excuses jobs whose worker was killed or gave them up and assumes
  that the operator does not reset failed jobs for ever.
- `PollFallback` and each `Handle` of the daemon are strongly fair: the
  database does not refuse every poll and every handler for ever.
- In Pipeline, `ScrapeCountry` and `SettleForGood` are strongly fair. For
  players the retry ceiling justifies it (JobsSettle of ScrapeQueue). For
  countries it is a real assumption: the generic mark_failed never gives a job
  up, so a country that always fails keeps step 2 from ending. Weak fairness of
  `TeamsOver` is the same assumption for step 1. ListWorkers makes it too (`Scrape`, `Complete`), and that the semaphore serves a
  worker that goes on asking (`Acquire`; asyncio's is first come, first served).
- In PlayersStart each step of a command is weakly fair: the command runs while
  it is alive. `CommandEnds` excepts a main() that has lost its trigger
  (`TriggerLost`): section 5 gives both ways to lose it.
- In PlayerData each worker's next statement is weakly fair: PostgreSQL detects
  every deadlock, and one that waits goes on when the lock is free.
- In WorkServer the loop and the tasks are weakly fair and `StartJob` strongly:
  not every commit of mark_in_progress is refused. `JobsLeaveQueue` excuses a
  server that is down and one whose stuck Chromes use up the bound.
- In Clearance the harness's step is weakly fair, because each gate polls with a
  deadline or makes one request; nothing is assumed of the server, the browser or
  the extension. The requests of the getter and of the post
  client have no time-out: `HarnessEnds` assumes an answer or a refusal.
- In buffered_ends the last probe of a recovery passes (`ProbesMayFail` is
  FALSE) and nobody presses Ctrl+C: section 5 says what happens otherwise.

## 4. What is proved

`ScrapeQueueProofs` proves, for all jobs, workers, processes and bounds:
`TypeCorrect`, `LockCorrect`, `CeilingCorrect`, `NoOrphanCorrect`,
`TerminalPairCorrect` and, behind them, `InvCorrect`: `Spec => []IInv`. The
queue row of a job on which a mark_done was torn, beside another process or after
a lost reply, may be left with any part of what two transactions meant to write:
`LockCorrect`, `TerminalPairCorrect` and `RetryCorrect` except these rows
(`torn`), the ceiling and `NoOrphan` hold for them too.
`IInv` strengthens the checked invariants by

- `LinkedRows`: rows of the current schema are linked, and so is a worker's
  copy of them; without it a failure could be recorded on one table only and
  `TerminalPair` would not be inductive;
- `ClaimIsOwned`: the worker that has a claimed row has not read it as DONE, or
  the row is abandoned. A mark_done that read DONE does not write the status, and
  so would leave the row IN_PROGRESS; this says that the claim is another
  worker's then (`NoOrphan`);
- `HeldRowExists`: a held job has a row, also one that another process settled
  in the meantime, so that a late failure meets a row;
- `LiveWorkers`: only the workers of a running process run, so that a start
  does not overwrite a worker that holds a job (`NoOrphan`).

The assumptions are those declared in ScrapeQueue: the jobs are finitely many,
the ceiling is positive, every worker belongs to a process.

With the additional hypothesis `OneReliableProcess` (one process, no lost
replies) the module proves

- `ExclusiveCorrect` (`[]ClaimExclusive`) and `Refinement`
  (`Spec => Lease!Spec`), each action mapped to a lease step or a stutter;
- `NothingTornCorrect` (`[]NothingTorn`), from the exclusive claims: between
  mark_done's SELECT and its UPDATE nobody else writes the row, so what was read
  still holds (`ReadsHold`);
- `DonePageCorrect` (`[]DonePageReturns`), from `PageRows`: although the worker's
  copy of the link may be older than the row, a page that this leaves unmarked is
  still due, and the next drain opens its row again. `SuccessCorrect` puts the two
  together as the property of queue_single;
- `NoRedundantCorrect` (`[]NoRedundantScrape`), from `DueRows`: a row that
  circulates or has failed has its page due, because only a success moves
  next_scrape_at;
- `RetryExplicitCorrect` (`RetryIsExplicit`).

The hypothesis is needed: with two processes recover_all_stale takes rows from
live workers, and with lost replies a worker's late failure puts a job back that
somebody may have claimed. It is the deployment of one scraper on a database
that answers. `RetryCorrect` (`[]RetryInStep`) assumes instead that no process
is a pipeline, for any number of processes and with lost replies:
recover_failed, which only the pipeline calls, resets the counter of one table.
`PairFields` says once what any step does to the two rows of a job
(`PairChange`); these proofs go through its cases instead of the actions.

`BufferedDispatchProofs` proves `HandoffCorrect` (`[]ClaimedAtHandoff`) and
`DispatchTypes` for any jobs, workers, buffer size, ceilings and fault switches.
The property counts holders; the inductive `Handoff` says the same without
cardinalities: a row that is IN_PROGRESS is held or lost, and for a job that is
not in doubt no two workers hold it and a held row is IN_PROGRESS and not lost.
This is what each step can be compared with: `Takes`, `Drops`, `Moves` and
`FallsInDoubt` are the ways a step may change who holds what, and
`HandoffCardinality` returns to the count. The types
need `ProbesLeft` and `RetriesLeft`: a recovery that runs, and a row that is not
FAILED, are below their ceilings. On top of this invariant:

- `BufferCorrect` (`[]BufferInv`): the dedup set is exact. `DedupInv` says it of
  the buffer as a sequence without repetitions; `AppendReference` and `TakeHead`
  are what a put and a get do to its references and its sentinels.
- `SentinelsCorrect` (`[]SentinelsSuffice`) counts sentinels against the workers
  that have not exited: both sides lose one with a get of a sentinel.
- `RecoveryCorrect` (`[]RecoveryProbesLiveEngine`) from `OwnerWaits`: until
  main() stops, the worker whose engine a recovery warms up waits for the gate
  or is about to cancel the recovery.
- `WatchedCorrect` (`[]ClosedGateIsWatched`).

`PlayerDataProofs` proves `LookupCorrect` (`[]LookupInv`), `PositionsCorrect`
(`[]PositionsRight`) and `WholeCorrect` (`[]DoneIsWhole`) for any pages of any
length, any workers, codes, teams, cities and ceiling. The conjuncts of its
`IInv`:

- `JobInv`: a job has one holder, and is stored exactly when it is DONE;
- `InsertInv`: a key is inserted by one open transaction at a time, and only
  while no row has it. This is what the wait in ON CONFLICT DO NOTHING gives,
  and what keeps a committed row's id as it is;
- `IdInv`: an id belongs to one code for ever, wherever it is: in the row, in an
  open transaction, in the cache or among the ids a transaction has collected.
  A rollback may leave it in the cache only; then it is no other code's;
- `TxInv`: what a transaction has, by the number of entries of `Work(page)` it
  has done: one id for each of the first codes, every key it inserted named by
  an entry, exactly the rows of statistics it has passed, every team of theirs
  visible, and, once the player's row is written, ids that exist (`KeysHold`).

At the commit the list is done. The foreign keys say that each id is some
code's row, `IdInv` that the code is the one of the page: a stale id never
passes, and this is `PositionsRight`. `DoneIsWhole` is `TxInv` at the end of the
list, with `WorkFacts`: the list begins with the codes, contains the player and
exactly the rows with a team's link. `Does` describes every
statement as one step along the list, so that most conjuncts have one proof;
a rollback and a restart only let go (`IdsKept`, `InsertsKept`). The
assumptions on the constants say that codes, teams, cities, parsed rows and
None are different things, and that pages are pages.

`ListWorkersProofs` proves `StoredCorrect` (`[]MarkedIsStored`) and `RowsCorrect` (`[]RowInv`) from
the order of the three transactions: a worker at mark_scraped has stored
(`StoredFirst`), a worker at mark_done has marked or failed to (`MarkedFirst`);
and `OneHolderCorrect`, for which a held row must not be PENDING
(`HeldNotPending`), true only without a job loop.

`PlayersStartProofs` proves, from `StartSpec`, `DatabaseCorrect`
(`[]DatabaseInv`), `SeededCorrect` (`[]EveryPlayerSeeded`), `AtHeadCorrect`
(`[]PipelineAtHead`) and `RegisteredCorrect` (`[]StoredIsRegistered`), for any
tables, workers, trigger count and retries. `OrderInv` orders main(), the
reseeder and step 2: while main() waits for the trigger or for step 2,
step2_done is not set, and a reseeder that returned has drained after it;
that is why no player is missed. `ResetInv` follows a reset through its drops
(the backend schema goes first and comes back with the others), `PreflightInv`
the revision from the checks to the start of the pipeline, `RegisterInv` says
which sync has filled which registry by which step.

`ClearanceProofs` proves `HarnessCorrect` (`[]HarnessInv`), `OnePollCorrect`
(`[]OnePollPerLife`) and `KeepaliveCorrect` (`KeepaliveStays`), for any bound on
terminations and cookies and any set of initial profiles. `ProcessInv` says that
handlers run in a service worker and that one in a browser; `StopInv` what a
poll that left in spite of the stop leaves behind: the variable every later poll
of that life reads first; `KeepInv` that a handler about to set the alarms has
loaded the configuration in this life; `ReportInv` where the clearance that the
harness reports came from, and what the finally block has stopped by which gate,
unless Ctrl+C cut it off.

`ScrapeDaemonProofs` proves `DaemonCorrect` (`[]DaemonInv`). A late handler
enqueues only what has no row, and a URL without a row was never scraped, so it
is still due (`NewIsDue`).

`WorkServerProofs` proves `NothingStrands`, `PagesMatch` and `EngineCorrect`.
`OneLaunch` follows from `StarterLaunches` (who launches is the holder of the
start lock). `SerialPagesMatch` needs that one slot means one task (`OneTask`,
from the cardinality in `Batch`), that only the task's own call touches the tab
(`CallsOfTasks`), and that a tab shows the page of the call that navigated it
until it is read (`OwnPage`); `SerialChrome` needs `OwnBrowser`. `CallStep`
states once what a step of fetch() has to respect, and each step is shown to.

Every invariant that a run checks is stated by a theorem. Only model-checked:
all liveness (`JobsSettle`, `ProcessEnds`, `TransactionsEnd`, `RunEnds`,
`CommandEnds`, `NewIsEnqueued`, `JobsLeaveQueue`, `HarnessEnds`), which rests on
fairness and ENABLED and is out of the prover's reach; and that `Chosen` is
SelectSeq, which is defined by recursion. What is proved of `Chosen` is that it
returns exactly the elements at the places given (`ChosenFacts`), by counting
with cardinalities instead of an induction.

## 5. Where the code and its documents disagree

doc_trigger ends in a counterexample. `scrape_pipeline.py`:408 says that the
watcher "Also fires immediately when step2_done is set". main() sets step2_done
after it has waited for step3_ready, so step 3 never starts when step 2 finds
fewer players than the trigger count. The comment in main() (lines 724-727)
describes this wait and avoids it for the case without step 2 only.

Observations made with the models, for which no run is kept.

Queue, buffered mode, daemon:

- mark_done (`scrape_queue.py`:126) reads the row without a lock, and the ORM's
  UPDATE leaves out the columns that already had their new value. If another
  process has recovered the row before the SELECT (PENDING, locked_at NULL) and a
  worker claims it before the UPDATE, the row ends DONE with locked_at set, which
  `models/scrape_queue.py`:94 says is "cleared to NULL on DONE/FAILED". If it was
  DONE at the SELECT, the status is not written: a row that is claimed in between
  stays IN_PROGRESS with locked_at as it is, or a row that fails for good in
  between stays FAILED while its page is marked ACTIVE.
- "Atomic: mark_scraped on URL registry in the same session" (`SP`:384): the
  decision uses the link copied at the claim. The daemon may have linked the row
  since: the row becomes DONE, its registry row stays due, and the next drain
  opens the row again.
- A commit of the scrape whose reply is lost is followed by a recorded failure
  (`SP`:668, :736-743; direct mode :390, :430-437): the DONE row goes back to
  PENDING, or becomes FAILED at the ceiling. A recorded failure whose reply is
  lost is recorded again (`SP`:145-164), perhaps on a row another worker has
  claimed by then: two workers scrape one page.
- The drain ends at the first batch that inserts nothing; unlinked rows that
  ON CONFLICT skips can fill a batch (`SP`:903) while later URLs are due.
- A worker that could not record a failure goes on claiming after a restart
  (`base_worker.py`:147), although `SP`:139 speaks of stopping it.
- A worker may return while PENDING rows are locked by an upsert (`SP`:310).
- A buffered reference may name a row that is no longer PENDING
  (`dispatch.py`:114); claim_by_id discards it.
- The producer stops when nothing is PENDING and nothing is buffered, also
  while jobs are in progress (`dispatch.py`:210): one that fails then stays
  PENDING until the next start.
- The warm pool's runbook (line 443) promises that "all slots and the gate
  recovery task terminate without hanging". A slot that took its sentinel
  cancels the recovery that another slot waits for (`pool.py`:127).
- After the last failed probe the gate stays closed, and no navigation can
  happen that would signal again (`gate.py`:163).
- request_stop does not wake a producer that waits for the gate
  (`dispatch.py`:186): after Ctrl+C with the gate closed, main() waits for it.
- The watcher's query is in no try block (`scrape_pipeline.py`:418): an error ends
  its task, nobody awaits the task before the end of main() (:793), and main()
  waits for step3_ready (:732) until Ctrl+C.
- step2_done is set before the reseeder's last drain (`scrape_pipeline.py`:781):
  step-3 workers may be gone when it inserts rows.
- "Connection loss is handled with exponential back-off"
  (`notify_listener.py`:7): the loop that sleeps after LISTEN (:135) never looks
  at the connection.
- A poll whose query fails is logged and skipped (`notify_listener.py`:184-192);
  the listener then sleeps until the next notification, and what was due waits
  for the scheduler's tick.
- The DONE row of a page that is due again is not reopened by the daemon
  (`notify_listener.py`:249), only by the next drain of a scraper.
- Nothing calls recover_stale, the recovery with a TTL.

List workers and scrape transaction:

- mark_failed of the generic queue, whose docstring says that jobs "never die"
  (`scrape_queue.py`:138), keeps a country that always fails in circulation, and
  step 2 with it; a team_list row without its country does so at every attempt,
  and keeps the pipeline from ending (`scrape_pipeline.py`:785-787).
- "if it fails, the queue job stays IN_PROGRESS and recover_stale will retry the
  whole item" (`scrape_players.py`:153, `scrape_country_teams.py`:241, of
  mark_scraped): the error is caught and logged, the row goes on to mark_done,
  and the page stays due.
- Step 1 marks "tbl_team_urls" with an id of tbl_country_squad_urls
  (`scrape_country_teams.py`:246): some team's row changes, the page's never does.
- The job loop takes rows of any job type and marks them whatever their status
  is by now (`job_loop.py`:215): beside a run, a row has two holders.
- position_cache keeps the ids of a transaction that was rolled back
  (`core/application/scrape_job_processor.py`:162). A cached code is not inserted
  again: every later page that names it fails on the foreign key, until the
  process is restarted.
- The country of a statistics row is validated by nothing before the insert: one
  unknown code fails its page at every attempt.

Commands:

- "Truncate all scraped data. Keeps schemas and migrations intact."
  (`cli/main.py`:265) and the panel's "Schemas and migrations will NOT be touched."
  (:282): reset drops four schemas (:316-325) and runs all migrations again.
- The co-insert of URLs is "best-effort" and skips errors
  (`country_squads.py`:94-152, `competitions.py`:108-131). PostgreSQL has aborted
  the transaction by then: the commit rolls the whole page back, and the command
  goes on as if it were stored.
- `backfill_backend_urls.py`:54 says that CountryRepository co-inserts country
  URLs. It does not; the sync is what registers them.
- A page is fetched when its table is empty: a seed that stored some rows is
  never completed. Countries without a players page are fetched at every start.
- A fatal check ends run_checks before the migrations, and the command still
  seeds. The revision order of the checks stops at p37a; the function that
  would use it is not called.

Work server, extension, harness:

- engine.browser is set before start() is awaited (`pydoll_engine.py`:192-193). After
  a failed launch, every call finds a browser without a tab and fails with an
  AttributeError, which is no ScraperError: its row is stranded.
- `runtime.py`:10 and :226 say "Drain in-flight JobLoop batch"; the loop's task is
  cancelled, and its batch with it, and no start recovers the rows.
- With more than one request at a time, a job may read the page that another
  navigated the shared tab to (`pydoll_engine.py`:900) and record its hash.
- A service worker that was restarted after a fatal stop polls once before it
  has read the stop (`background.js`:65 against :9).
- A storage change that arrives while the reaction to another is in flight is
  dropped (`background.js`:447-450).
- "Cleanup always runs" (`smoke_clearance_real.py`:667): the block catches
  Exception, which KeyboardInterrupt is not. Ctrl+C while the browser stops skips
  work_server.shutdown() (:672-675), and a server that the signal did not reach
  goes on running.
- The post gate always fails: the clearance it posts has no clearance_class, for
  which the client raises ValueError. `real_clearance_composition.py`:73 calls
  engine.stop, which the engine does not have.

## 6. Not modelled, and the plan

Not modelled: the remote CDP engine, one connection to a browser that the
operator runs, used by one call at a time; smoke_player_info, which deletes one
candidate's rows, runs main() of `SP`, which is modelled, and compares;
settings and display, which keep nothing that is shared; the DDL of revisions
other than those that matter to rows (p52, p56, p57). Partly modelled: the pool
without its start semaphores and back-off, the engine without display and
profile lock as processes of their own, the registry of teams. Data is abstracted throughout: names, timestamps
and the text of a page appear only as what they decide.

Left for later, in this order:

1. An abstract store for PlayerData (a page is stored whole or not at all) and
   the refinement that shows the transaction implements it; `TxInv` is what its
   mapping needs.
2. Action properties of the other modules: what a restart, a recovery or a
   release of the buffered mode may never do to a row, and the same for
   ListWorkers.
3. The start semaphores and the back-off of the warm pool.
