---------------------------- MODULE ListWorkers ----------------------------
(***************************************************************************)
(* scripts/scrape_players.py and scripts/scrape_country_teams.py: a run of *)
(* list workers over the scrape_queue rows of its job_type.  A country     *)
(* page is scraped under the shared fetch gate; its data, its registry row *)
(* and its queue row are written in transactions of their own.             *)
(*                                                                         *)
(* The job loop of the work server (WorkServer) does not look at job_type: *)
(* it may take the same rows while the run is on.                          *)
(***************************************************************************)
EXTENDS Naturals, FiniteSets

CONSTANTS
  Jobs, Workers, None,
  MaxAttempts,         \* max_attempts of run_claim_loop
  MaxRuns              \* bound: runs that are started

ASSUME ListAssumption ==
  /\ Jobs \subseteq Nat /\ IsFiniteSet(Jobs) /\ None \notin Jobs
  /\ MaxAttempts \in Nat \ {0} /\ MaxRuns \in Nat

VARIABLES
  kind,      \* the job_type of the run: "player_list" or "team_list"
  serving,   \* a work server runs beside
  queue,     \* the rows, numbered in insertion order
  due,       \* jobs whose registry row (tbl_country_urls, tbl_country_squad_urls) is due
  stored,    \* jobs whose players or teams are committed
  worker,    \* the workers of the run
  gate,      \* the holder of the fetch gate
  loop,      \* what the job loop does, with which row (bound: it takes one row)
  lost,      \* rows left IN_PROGRESS by a failed write or a crash
  unmarked,  \* jobs whose mark_scraped failed
  runs

vars == <<kind, serving, queue, due, stored, worker, gate, loop, lost, unmarked, runs>>

Idle == [pc |-> "idle", job |-> None, attempt |-> 0]
Down == [Idle EXCEPT !.pc = "down"]

\* A row was enqueued by the notify listener, with a link and for a team_list
\* perhaps without its country, or will be by the seeding of the run.
Init ==
  /\ kind \in {"player_list", "team_list"} /\ serving \in BOOLEAN
  /\ queue \in [Jobs -> [status : {"PENDING", "ABSENT"}, linked : {TRUE}, country : BOOLEAN]]
  /\ \A j \in Jobs : ~queue[j].country => kind = "team_list" /\ queue[j].status = "PENDING"
  /\ due = Jobs
  /\ stored = {} /\ worker = [w \in Workers |-> Down] /\ gate = None
  /\ loop = [pc |-> "none", job |-> None] /\ lost = {} /\ unmarked = {} /\ runs = 0

Job(w) == worker[w].job
At(w, pc) == worker[w].pc = pc
Goes(w, pc) == worker' = [worker EXCEPT ![w].pc = pc]
EndJob(w) == worker' = [worker EXCEPT ![w] = Idle]
SetStatus(j, s) == queue' = [queue EXCEPT ![j].status = s]

Fixed == <<kind, serving, runs>>

----------------------------------------------------------------------------
(* main: seeding and recovery, then the workers *)

\* _seed_queue enqueues without a link, _notify_all_due with link and country (a
\* squad page stays PENDING in its table for ever: see MarkScraped).
SeedQueue == [status |-> "PENDING", linked |-> FALSE, country |-> TRUE]
NotifyAllDue == [SeedQueue EXCEPT !.linked = TRUE]
Seeded == IF kind = "player_list" THEN SeedQueue ELSE NotifyAllDue
SeedsRow(j) == queue[j].status = "ABSENT"

\* recover_all_stale and recover_failed: no row is held by this run yet, but the
\* job loop may hold some.
StartRun ==
  /\ runs < MaxRuns /\ \A w \in Workers : worker[w].pc \in {"down", "exited"}
  /\ runs' = runs + 1
  /\ queue' = [j \in Jobs |->
       IF SeedsRow(j) THEN Seeded
       ELSE IF queue[j].status \in {"IN_PROGRESS", "FAILED"} THEN [queue[j] EXCEPT !.status = "PENDING"]
       ELSE queue[j]]
  /\ lost' = {}
  /\ worker' = [w \in Workers |-> Idle]
  /\ UNCHANGED <<kind, serving, due, stored, gate, loop, unmarked>>

\* The process dies.
Crash ==
  /\ \E w \in Workers : worker[w].pc \notin {"down", "exited"}
  /\ lost' = lost \cup {Job(w) : w \in {v \in Workers : Job(v) # None}}
  /\ worker' = [w \in Workers |-> Down] /\ gate' = None
  /\ UNCHANGED <<Fixed, queue, due, stored, loop, unmarked>>

----------------------------------------------------------------------------
(* run_claim_loop *)

Pending == {j \in Jobs : queue[j].status = "PENDING"}
First(j) == j \in Pending /\ \A i \in Pending : j <= i

\* Mutant: the claim is not committed.
Claim_NotWritten(w, j) ==
  /\ At(w, "idle") /\ First(j)
  /\ worker' = [worker EXCEPT ![w] = [pc |-> IF queue[j].country THEN "waiting" ELSE "failing",
                                      job |-> j, attempt |-> 1]]
  /\ UNCHANGED <<Fixed, queue, due, stored, gate, loop, lost, unmarked>>

\* claim_next, and a team_list row without a country fails at once.
Claim(w, j) ==
  /\ At(w, "idle") /\ First(j)
  /\ SetStatus(j, "IN_PROGRESS")
  /\ worker' = [worker EXCEPT ![w] = [pc |-> IF queue[j].country THEN "waiting" ELSE "failing",
                                      job |-> j, attempt |-> 1]]
  /\ UNCHANGED <<Fixed, due, stored, gate, loop, lost, unmarked>>

\* The commit raises, applied or not: the worker restarts without a job.
ClaimRaises(w, j) ==
  /\ At(w, "idle") /\ First(j)
  /\ SetStatus(j, "IN_PROGRESS") /\ lost' = lost \cup {j}
  /\ UNCHANGED <<Fixed, due, stored, worker, gate, loop, unmarked>>

Acquire(w) ==
  /\ At(w, "waiting") /\ gate = None
  /\ gate' = w /\ Goes(w, "scraping")
  /\ UNCHANGED <<Fixed, queue, due, stored, loop, lost, unmarked>>

AfterScrape(w) == IF queue[Job(w)].linked THEN "marking" ELSE "completing"

\* Mutant: the gate is left before the players are persisted.
Scrape_NotPersisted(w) ==
  /\ At(w, "scraping") /\ gate' = None
  /\ Goes(w, AfterScrape(w))
  /\ UNCHANGED <<Fixed, queue, due, stored, loop, lost, unmarked>>

\* PlayerListScraper.scrape commits the players before it returns; the teams'
\* scraper only parses them.
ScrapePlayers(w) == kind = "player_list" /\ stored' = stored \cup {Job(w)}
ScrapeTeams == kind = "team_list" /\ UNCHANGED stored

Scrape(w) ==
  /\ At(w, "scraping") /\ gate' = None
  /\ Goes(w, AfterScrape(w))
  /\ ScrapePlayers(w) \/ ScrapeTeams
  /\ UNCHANGED <<Fixed, queue, due, loop, lost, unmarked>>

\* An attempt raised: the next one, or the failure of the job.
NextAttempt(w) ==
  \/ /\ worker[w].attempt < MaxAttempts
     /\ worker' = [worker EXCEPT ![w].pc = "waiting", ![w].attempt = @ + 1]
  \/ worker[w].attempt = MaxAttempts /\ Goes(w, "failing")

\* Mutant: an attempt that raises keeps the gate.
ScrapeRaises_KeepsGate(w) ==
  /\ At(w, "scraping") /\ gate' = gate
  /\ NextAttempt(w)
  /\ UNCHANGED <<Fixed, queue, due, stored, loop, lost, unmarked>>

\* Perhaps after the commit of the players.
ScrapeRaises(w) ==
  /\ At(w, "scraping") /\ gate' = None
  /\ NextAttempt(w)
  /\ ScrapePlayers(w) \/ UNCHANGED stored
  /\ UNCHANGED <<Fixed, queue, due, loop, lost, unmarked>>

\* A BrowserException: no other attempt, the browser is restarted.
BrowserFails(w) ==
  /\ At(w, "scraping") /\ gate' = None
  /\ Goes(w, "failing")
  /\ UNCHANGED <<Fixed, queue, due, stored, loop, lost, unmarked>>

\* CountryTeamsWorker passes "tbl_team_urls" with an id of tbl_country_squad_urls:
\* some team's row changes, the row of the page never does.
MarkScraped(w) ==
  /\ At(w, "marking")
  /\ due' = IF kind = "player_list" THEN due \ {Job(w)} ELSE due
  /\ Goes(w, "completing") /\ unmarked' = unmarked \ {Job(w)}
  /\ UNCHANGED <<Fixed, queue, stored, gate, loop, lost>>

\* The error is logged, and the job goes on to mark_done.
MarkScrapedRaises(w) ==
  /\ At(w, "marking")
  /\ Goes(w, "completing") /\ unmarked' = unmarked \cup {Job(w)}
  /\ UNCHANGED <<Fixed, queue, due, stored, gate, loop, lost>>

\* mark_done; the teams are upserted in the same transaction.
UpsertTeams(w) == stored' = IF kind = "team_list" THEN stored \cup {Job(w)} ELSE stored
Done(w) == SetStatus(Job(w), "DONE") /\ UpsertTeams(w)

Complete(w) ==
  /\ At(w, "completing")
  /\ Done(w) /\ EndJob(w)
  /\ UNCHANGED <<Fixed, due, gate, loop, lost, unmarked>>

\* The transaction raises, applied or not: a failed attempt like any other.
CompleteRaises(w) ==
  /\ At(w, "completing")
  /\ Done(w) \/ UNCHANGED <<queue, stored>>
  /\ NextAttempt(w)
  /\ UNCHANGED <<Fixed, due, gate, loop, lost, unmarked>>

\* Mutant: the failure is recorded nowhere.
MarkFailed_Nowhere(w) ==
  /\ At(w, "failing") /\ EndJob(w)
  /\ UNCHANGED <<Fixed, queue, due, stored, gate, loop, lost, unmarked>>

\* The generic mark_failed: back to PENDING whatever the count and the status.
\* (The registry's mark_failed, which follows for a linked row, moves the retry
\* count and the status of its row, and leaves it as due as it was.)
MarkFailed(w) ==
  /\ At(w, "failing") /\ EndJob(w)
  /\ SetStatus(Job(w), "PENDING")
  /\ UNCHANGED <<Fixed, due, stored, gate, loop, lost, unmarked>>

\* Logged, or ended with a restart of the worker: the row stays behind.
MarkFailedRaises(w) ==
  /\ At(w, "failing") /\ EndJob(w)
  /\ lost' = lost \cup {j \in {Job(w)} : queue[j].status = "IN_PROGRESS"}
  /\ UNCHANGED <<Fixed, queue, due, stored, gate, loop, unmarked>>

Exit(w) ==
  /\ At(w, "idle") /\ Pending = {}
  /\ Goes(w, "exited")
  /\ UNCHANGED <<Fixed, queue, due, stored, gate, loop, lost, unmarked>>

----------------------------------------------------------------------------
(* The job loop: it lists, starts and ends a row; its scrape stores nothing. *)

LoopSide == <<Fixed, due, stored, worker, gate, unmarked>>

LoopLists(j) ==
  /\ serving /\ loop.pc = "none" /\ j \in Pending
  /\ loop' = [pc |-> "listed", job |-> j]
  /\ UNCHANGED <<LoopSide, queue, lost>>

LoopGoes(from, to) == loop.pc = from /\ loop' = [loop EXCEPT !.pc = to]

LoopStarts ==
  /\ LoopGoes("listed", "held")
  /\ SetStatus(loop.job, "IN_PROGRESS")
  /\ UNCHANGED <<LoopSide, lost>>

LoopCompletes ==
  /\ LoopGoes("held", "completed")
  /\ SetStatus(loop.job, "DONE")
  /\ UNCHANGED <<LoopSide, lost>>

\* Below the ceiling or at it.
LoopFails ==
  /\ LoopGoes("held", "failed")
  /\ SetStatus(loop.job, "PENDING") \/ SetStatus(loop.job, "FAILED")
  /\ UNCHANGED <<LoopSide, lost>>

\* A failed write, or the end of the server.
LoopStrands ==
  /\ LoopGoes("held", "failed")
  /\ lost' = lost \cup {j \in {loop.job} : queue[j].status = "IN_PROGRESS"}
  /\ UNCHANGED <<LoopSide, queue>>

----------------------------------------------------------------------------
LoopStep == (\E j \in Jobs : LoopLists(j)) \/ LoopStarts \/ LoopCompletes \/ LoopFails \/ LoopStrands

WorkerStep(w) ==
  \/ \E j \in Jobs : Claim(w, j) \/ ClaimRaises(w, j)
  \/ Acquire(w) \/ Scrape(w) \/ ScrapeRaises(w) \/ BrowserFails(w)
  \/ MarkScraped(w) \/ MarkScrapedRaises(w) \/ Complete(w) \/ CompleteRaises(w)
  \/ MarkFailed(w) \/ MarkFailedRaises(w) \/ Exit(w)

Next ==
  \/ StartRun \/ Crash
  \/ \E w \in Workers : WorkerStep(w)
  \/ LoopStep

Spec == Init /\ [][Next]_vars

\* A run is started and its workers run; a page is scraped, and mark_done
\* committed, some day.
Fairness ==
  /\ WF_vars(StartRun)
  /\ \A w \in Workers :
       WF_vars(WorkerStep(w)) /\ SF_vars(Acquire(w)) /\ SF_vars(Scrape(w)) /\ SF_vars(Complete(w))

FairSpec == Spec /\ Fairness

----------------------------------------------------------------------------
(* Properties *)

TypeOK ==
  /\ kind \in {"player_list", "team_list"} /\ serving \in BOOLEAN
  /\ queue \in [Jobs -> [status : {"ABSENT", "PENDING", "IN_PROGRESS", "DONE", "FAILED"},
                         linked : BOOLEAN, country : BOOLEAN]]
  /\ worker \in [Workers -> [pc : {"down", "idle", "waiting", "scraping", "marking", "completing",
                                   "failing", "exited"},
                             job : Jobs \cup {None}, attempt : 0 .. MaxAttempts]]
  /\ gate \in Workers \cup {None} /\ due \cup stored \cup lost \cup unmarked \subseteq Jobs
  /\ loop \in [pc : {"none", "listed", "held", "completed", "failed"}, job : Jobs \cup {None}]
  /\ runs \in 0 .. MaxRuns

LoopTook(j) == loop = [pc |-> "completed", job |-> j]

\* What is marked has its data: a country that is DONE, and a page whose next
\* scrape was put off, has been scraped and stored, whatever attempts, crashes
\* and lost replies came between the three transactions (unless the job loop,
\* which stores nothing, did it).
MarkedIsStored ==
  \A j \in Jobs :
    /\ queue[j].status = "DONE" => j \in stored \/ LoopTook(j)
    /\ kind = "player_list" /\ j \notin due => j \in stored

\* A linked country that is DONE is no longer due, unless the write of the
\* registry row failed or the job loop took the row.
DoneIsMarked ==
  kind = "player_list" => \A j \in Jobs :
    queue[j].status = "DONE" /\ queue[j].linked /\ j \in due => j \in unmarked \/ LoopTook(j)

\* A row is IN_PROGRESS only in somebody's hands, or after a write that failed
\* or a crash, for which the next run's recover_all_stale is there.
HeldOrLost ==
  \A j \in Jobs : queue[j].status = "IN_PROGRESS" =>
    (\E w \in Workers : Job(w) = j) \/ (loop.pc = "held" /\ loop.job = j) \/ j \in lost

\* The tables, the workers and the job loop agree on every row: the types, no
\* forgotten claim, no registry row left behind.
RowInv == TypeOK /\ HeldOrLost /\ DoneIsMarked

\* Each country is in the hands of one worker of the run, as long as no job loop
\* takes rows: no claim, reopened row or recovery hands it out twice.
OneHolder ==
  ~serving => \A v, w \in Workers : Job(v) # None /\ Job(v) = Job(w) => v = w

\* A run ends once every page can be scraped: the workers never wait for each
\* other, nor for the gate of one that failed.
RunEnds ==
  (~serving /\ \A j \in Jobs : queue[j].country) =>
    []((\A w \in Workers : ~At(w, "down")) =>
         <>(\A w \in Workers : worker[w].pc \in {"exited", "down"}))
=============================================================================
