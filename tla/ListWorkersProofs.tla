------------------------- MODULE ListWorkersProofs -------------------------
(***************************************************************************)
(* RowInv, MarkedIsStored and OneHolder of ListWorkers, for any rows,      *)
(* workers, attempts and runs.                                             *)
(***************************************************************************)
EXTENDS ListWorkers, TLAPS

\* Workers hold a job from the claim to its end.
WorkersHold == \A w \in Workers : Job(w) = None <=> worker[w].pc \in {"down", "idle", "exited"}

\* A held job has a row, also one that the job loop ended in the meantime.
HeldRowExists == \A w \in Workers : Job(w) # None => queue[Job(w)].status # "ABSENT"

\* The page of a player_list row is stored before its rows are marked.
StoredFirst == \A w \in Workers :
  kind = "player_list" /\ worker[w].pc \in {"marking", "completing"} => Job(w) \in stored

\* mark_scraped comes before mark_done.
MarkedFirst == \A w \in Workers :
  kind = "player_list" /\ worker[w].pc = "completing" /\ queue[Job(w)].linked =>
    Job(w) \notin due \/ Job(w) \in unmarked

\* The job loop has a row once it listed one.
LoopHolds == loop.pc # "none" => loop.job \in Jobs

IInv == RowInv /\ MarkedIsStored /\ LoopHolds /\ WorkersHold /\ HeldRowExists /\ StoredFirst /\ MarkedFirst

\* Without a job loop nobody puts a held row back.
HeldNotPending == ~serving =>
  /\ loop.pc = "none"
  /\ \A w \in Workers : Job(w) # None => queue[Job(w)].status # "PENDING"

----------------------------------------------------------------------------
LEMMA InitInv == Init => IInv /\ OneHolder /\ HeldNotPending
<1> SUFFICES ASSUME Init PROVE IInv /\ OneHolder /\ HeldNotPending
  OBVIOUS
<1>1. \A w \in Workers : worker[w] = [pc |-> "down", job |-> None, attempt |-> 0]
  BY DEF Init, Down, Idle
<1>2. queue \in [Jobs -> [status : {"ABSENT", "PENDING", "IN_PROGRESS", "DONE", "FAILED"},
                          linked : BOOLEAN, country : BOOLEAN]]
  BY DEF Init
<1>3. worker \in [Workers -> [pc : {"down", "idle", "waiting", "scraping", "marking", "completing",
                                   "failing", "exited"},
                              job : Jobs \cup {None}, attempt : 0 .. MaxAttempts]]
  BY <1>1, ListAssumption DEF Init, Down, Idle
<1>4. TypeOK
  BY <1>2, <1>3, ListAssumption DEF Init, TypeOK
<1>5. \A j \in Jobs : queue[j].status \in {"PENDING", "ABSENT"}
  BY DEF Init
<1>6. HeldOrLost /\ DoneIsMarked /\ MarkedIsStored
  BY <1>5 DEF Init, HeldOrLost, DoneIsMarked, MarkedIsStored
<1>7. LoopHolds /\ WorkersHold /\ HeldRowExists /\ StoredFirst /\ MarkedFirst /\ OneHolder /\ HeldNotPending
  BY <1>1 DEF Init, Job, LoopHolds, WorkersHold, HeldRowExists, StoredFirst, MarkedFirst, OneHolder, HeldNotPending
<1> QED BY <1>4, <1>6, <1>7 DEF IInv, RowInv

\* The worker's next attempt keeps its job, or ends in the failure of the job.
LEMMA NextAttemptKeeps ==
  ASSUME TypeOK, NEW w \in Workers, NextAttempt(w)
  PROVE  /\ worker' \in [Workers -> [pc : {"down", "idle", "waiting", "scraping", "marking", "completing",
                                          "failing", "exited"},
                                     job : Jobs \cup {None}, attempt : 0 .. MaxAttempts]]
         /\ \A v \in Workers : worker'[v].job = worker[v].job
         /\ \A v \in Workers \ {w} : worker'[v] = worker[v]
         /\ worker'[w].pc \in {"waiting", "failing"}
<1> USE ListAssumption DEF TypeOK
<1>1. CASE worker[w].attempt < MaxAttempts
  <2>1. worker[w].attempt + 1 \in 0 .. MaxAttempts
    BY <1>1
  <2>2. worker' = [worker EXCEPT ![w].pc = "waiting", ![w].attempt = worker[w].attempt + 1]
    BY <1>1 DEF NextAttempt
  <2> QED BY <2>1, <2>2
<1>2. CASE Goes(w, "failing")
  BY <1>2 DEF Goes
<1> QED BY <1>1, <1>2 DEF NextAttempt

LEMMA StepInv == IInv /\ [Next]_vars => IInv'
<1> SUFFICES ASSUME IInv, [Next]_vars PROVE IInv'
  OBVIOUS
<1> USE ListAssumption
    DEF IInv, RowInv, TypeOK, HeldOrLost, DoneIsMarked, MarkedIsStored, WorkersHold, HeldRowExists,
        StoredFirst, MarkedFirst, LoopHolds, Job, LoopTook, At, Fixed
<1>1. CASE StartRun
  <2>1. ASSUME NEW j \in Jobs
        PROVE  /\ queue'[j] \in [status : {"PENDING", "DONE"}, linked : BOOLEAN, country : BOOLEAN]
               /\ queue'[j].status = "DONE" => queue'[j] = queue[j]
    <3>1. CASE SeedsRow(j)
      BY <1>1, <3>1 DEF StartRun, SeedsRow, Seeded, NotifyAllDue, SeedQueue
    <3>2. CASE ~SeedsRow(j)
      BY <1>1, <3>2 DEF StartRun, SeedsRow
    <3> QED BY <3>1, <3>2
  <2>2. queue' = [j \in Jobs |-> queue'[j]]
    BY <1>1 DEF StartRun
  <2>3. \A w \in Workers : worker'[w] = Idle
    BY <1>1 DEF StartRun
  <2>4. TypeOK'
    <3>1. queue' \in [Jobs -> [status : {"ABSENT", "PENDING", "IN_PROGRESS", "DONE", "FAILED"},
                               linked : BOOLEAN, country : BOOLEAN]]
      BY <2>1, <2>2
    <3>2. runs' \in 0 .. MaxRuns
      BY <1>1 DEF StartRun
    <3> QED BY <1>1, <3>1, <3>2 DEF StartRun, Idle
  <2>5. HeldOrLost' /\ DoneIsMarked' /\ MarkedIsStored'
    BY <1>1, <2>1 DEF StartRun
  <2>6. LoopHolds' /\ WorkersHold' /\ HeldRowExists' /\ StoredFirst' /\ MarkedFirst'
    BY <1>1, <2>3 DEF StartRun, Idle
  <2> QED BY <2>4, <2>5, <2>6
<1>2. CASE Crash
  BY <1>2 DEF Crash, Down, Idle
<1>3. ASSUME NEW w \in Workers, NEW j \in Jobs, Claim(w, j) PROVE IInv'
  BY <1>3 DEF Claim, First, Pending, SetStatus
<1>4. ASSUME NEW w \in Workers, NEW j \in Jobs, ClaimRaises(w, j) PROVE IInv'
  BY <1>4 DEF ClaimRaises, First, Pending, SetStatus
<1>5. ASSUME NEW w \in Workers, Acquire(w) PROVE IInv'
  BY <1>5 DEF Acquire, Goes
<1>6. ASSUME NEW w \in Workers, Scrape(w) PROVE IInv'
  BY <1>6 DEF Scrape, Goes, AfterScrape, ScrapePlayers, ScrapeTeams
<1>7. ASSUME NEW w \in Workers, ScrapeRaises(w) PROVE IInv'
  <2>1. Job(w) \in Jobs
    BY <1>7 DEF ScrapeRaises
  <2>2. stored' \in SUBSET Jobs /\ stored \subseteq stored'
    BY <1>7, <2>1 DEF ScrapeRaises, ScrapePlayers
  <2>3. TypeOK'
    BY <1>7, <2>2, NextAttemptKeeps DEF ScrapeRaises
  <2>4. HeldOrLost' /\ DoneIsMarked' /\ MarkedIsStored'
    BY <1>7, <2>2, NextAttemptKeeps DEF ScrapeRaises
  <2>5. /\ \A v \in Workers : worker'[v].job = worker[v].job
        /\ \A v \in Workers \ {w} : worker'[v] = worker[v]
        /\ worker'[w].pc \in {"waiting", "failing"}
    BY <1>7, NextAttemptKeeps DEF ScrapeRaises
  <2>6. LoopHolds' /\ WorkersHold' /\ HeldRowExists'
    BY <1>7, <2>1, <2>5 DEF ScrapeRaises
  <2>7. StoredFirst'
    BY <1>7, <2>2, <2>5 DEF ScrapeRaises
  <2>8. MarkedFirst'
    BY <1>7, <2>5 DEF ScrapeRaises
  <2> QED BY <2>3, <2>4, <2>6, <2>7, <2>8
<1>8. ASSUME NEW w \in Workers, BrowserFails(w) PROVE IInv'
  BY <1>8 DEF BrowserFails, Goes
<1>9. ASSUME NEW w \in Workers, MarkScraped(w) PROVE IInv'
  BY <1>9 DEF MarkScraped, Goes
<1>10. ASSUME NEW w \in Workers, MarkScrapedRaises(w) PROVE IInv'
  BY <1>10 DEF MarkScrapedRaises, Goes
<1>11. ASSUME NEW w \in Workers, Complete(w) PROVE IInv'
  BY <1>11 DEF Complete, Done, SetStatus, UpsertTeams, EndJob, Idle
<1>12. ASSUME NEW w \in Workers, CompleteRaises(w) PROVE IInv'
  <2>1. Job(w) \in Jobs
    BY <1>12 DEF CompleteRaises
  <2>2. /\ \A v \in Workers : worker'[v].job = worker[v].job
        /\ \A v \in Workers \ {w} : worker'[v] = worker[v]
        /\ worker'[w].pc \in {"waiting", "failing"}
    BY <1>12, NextAttemptKeeps DEF CompleteRaises
  <2>3. CASE Done(w)
    <3>1. queue' = [queue EXCEPT ![Job(w)].status = "DONE"] /\ UpsertTeams(w)
      BY <2>3 DEF Done, SetStatus
    <3>2. stored' \in SUBSET Jobs /\ stored \subseteq stored' /\ Job(w) \in stored'
      BY <1>12, <2>1, <3>1 DEF CompleteRaises, UpsertTeams
    <3>3. TypeOK'
      BY <1>12, <2>1, <3>1, <3>2, NextAttemptKeeps DEF CompleteRaises
    <3>4. HeldOrLost' /\ DoneIsMarked' /\ MarkedIsStored'
      BY <1>12, <2>1, <2>2, <3>1, <3>2 DEF CompleteRaises
    <3>5. LoopHolds' /\ WorkersHold' /\ HeldRowExists'
      BY <1>12, <2>1, <2>2, <3>1 DEF CompleteRaises
    <3>6. StoredFirst'
      BY <1>12, <2>2, <3>2 DEF CompleteRaises
    <3>7. \A j \in Jobs : queue'[j].linked = queue[j].linked
      BY <3>1
    <3>8. MarkedFirst'
      BY <1>12, <2>2, <3>7 DEF CompleteRaises
    <3> QED BY <3>3, <3>4, <3>5, <3>6, <3>8
  <2>4. CASE UNCHANGED <<queue, stored>>
    <3>1. TypeOK'
      BY <1>12, <2>4, NextAttemptKeeps DEF CompleteRaises
    <3>2. HeldOrLost' /\ DoneIsMarked' /\ MarkedIsStored'
      BY <1>12, <2>1, <2>2, <2>4 DEF CompleteRaises
    <3>3. LoopHolds' /\ WorkersHold' /\ HeldRowExists' /\ StoredFirst' /\ MarkedFirst'
      BY <1>12, <2>1, <2>2, <2>4 DEF CompleteRaises
    <3> QED BY <3>1, <3>2, <3>3
  <2> QED BY <1>12, <2>3, <2>4 DEF CompleteRaises
<1>13. ASSUME NEW w \in Workers, MarkFailed(w) PROVE IInv'
  BY <1>13 DEF MarkFailed, SetStatus, EndJob, Idle
<1>14. ASSUME NEW w \in Workers, MarkFailedRaises(w) PROVE IInv'
  BY <1>14 DEF MarkFailedRaises, EndJob, Idle
<1>15. ASSUME NEW w \in Workers, Exit(w) PROVE IInv'
  BY <1>15 DEF Exit, Goes
<1>16. CASE LoopStep
  <2> USE DEF LoopGoes, LoopSide, Pending, SetStatus
  <2>1. ASSUME NEW j \in Jobs, LoopLists(j) PROVE IInv'
    BY <2>1 DEF LoopLists
  <2>2. CASE LoopStarts \/ LoopCompletes \/ LoopFails \/ LoopStrands
    <3>1. PICK to \in {"held", "completed", "failed"} : loop' = [loop EXCEPT !.pc = to]
      BY <2>2 DEF LoopStarts, LoopCompletes, LoopFails, LoopStrands
    <3>2. PICK s \in {"IN_PROGRESS", "DONE", "PENDING", "FAILED"} :
            queue' = [queue EXCEPT ![loop.job].status = s] \/ queue' = queue
      BY <2>2 DEF LoopStarts, LoopCompletes, LoopFails, LoopStrands
    <3>3. loop.pc # "completed" /\ UNCHANGED <<Fixed, due, stored, worker, gate, unmarked>>
      BY <2>2 DEF LoopStarts, LoopCompletes, LoopFails, LoopStrands
    <3>4. lost' \in SUBSET Jobs /\ lost \subseteq lost'
      BY <2>2 DEF LoopStarts, LoopCompletes, LoopFails, LoopStrands
    <3>5. TypeOK'
      <4>1. queue' \in [Jobs -> [status : {"ABSENT", "PENDING", "IN_PROGRESS", "DONE", "FAILED"},
                                 linked : BOOLEAN, country : BOOLEAN]]
        BY <3>2
      <4>2. loop' \in [pc : {"none", "listed", "held", "completed", "failed"}, job : Jobs \cup {None}]
        BY <3>1
      <4> QED BY <3>3, <3>4, <4>1, <4>2
    <3>6. HeldOrLost'
      BY <2>2, <3>3 DEF LoopStarts, LoopCompletes, LoopFails, LoopStrands
    <3>7. DoneIsMarked' /\ MarkedIsStored'
      BY <2>2, <3>3 DEF LoopStarts, LoopCompletes, LoopFails, LoopStrands
    <3>8. LoopHolds' /\ WorkersHold' /\ HeldRowExists' /\ StoredFirst' /\ MarkedFirst'
      BY <2>2, <3>1, <3>2, <3>3 DEF LoopStarts, LoopCompletes, LoopFails, LoopStrands
    <3> QED BY <3>5, <3>6, <3>7, <3>8
  <2> QED BY <1>16, <2>1, <2>2 DEF LoopStep
<1>17. CASE UNCHANGED vars
  BY <1>17 DEF vars
<1> QED
  BY <1>1, <1>2, <1>3, <1>4, <1>5, <1>6, <1>7, <1>8, <1>9, <1>10, <1>11, <1>12, <1>13, <1>14, <1>15, <1>16,
     <1>17 DEF Next, WorkerStep

----------------------------------------------------------------------------
(* One holder *)

LEMMA StepHolder == IInv /\ OneHolder /\ HeldNotPending /\ [Next]_vars => (OneHolder /\ HeldNotPending)'
<1> SUFFICES ASSUME IInv, OneHolder, HeldNotPending, [Next]_vars PROVE (OneHolder /\ HeldNotPending)'
  OBVIOUS
<1> USE ListAssumption
    DEF IInv, RowInv, TypeOK, WorkersHold, HeldRowExists, OneHolder, HeldNotPending, Job, At, Fixed
<1>1. CASE StartRun
  <2>1. \A w \in Workers : worker'[w].job = None
    BY <1>1 DEF StartRun, Idle
  <2> QED BY <1>1, <2>1 DEF StartRun
<1>2. CASE Crash
  BY <1>2 DEF Crash, Down, Idle
<1>3. ASSUME NEW w \in Workers, NEW j \in Jobs, Claim(w, j) PROVE (OneHolder /\ HeldNotPending)'
  BY <1>3 DEF Claim, First, Pending, SetStatus
<1>4. ASSUME NEW w \in Workers, NEW j \in Jobs, ClaimRaises(w, j) PROVE (OneHolder /\ HeldNotPending)'
  BY <1>4 DEF ClaimRaises, First, Pending, SetStatus
\* A step that changes neither jobs nor rows.
<1>5. ASSUME NEW w \in Workers,
             Acquire(w) \/ Scrape(w) \/ ScrapeRaises(w) \/ BrowserFails(w) \/ MarkScraped(w)
               \/ MarkScrapedRaises(w) \/ Exit(w)
      PROVE  (OneHolder /\ HeldNotPending)'
  <2>1. \A v \in Workers : worker'[v].job = worker[v].job
    BY <1>5, NextAttemptKeeps
       DEF Acquire, Scrape, ScrapeRaises, BrowserFails, MarkScraped, MarkScrapedRaises, Exit, Goes
  <2>2. UNCHANGED <<queue, loop, serving>>
    BY <1>5 DEF Acquire, Scrape, ScrapeRaises, BrowserFails, MarkScraped, MarkScrapedRaises, Exit
  <2> QED BY <2>1, <2>2
<1>6. ASSUME NEW w \in Workers, Complete(w) PROVE (OneHolder /\ HeldNotPending)'
  BY <1>6 DEF Complete, Done, SetStatus, EndJob, Idle
<1>7. ASSUME NEW w \in Workers, CompleteRaises(w) PROVE (OneHolder /\ HeldNotPending)'
  <2>1. \A v \in Workers : worker'[v].job = worker[v].job
    BY <1>7, NextAttemptKeeps DEF CompleteRaises
  <2>2. \A j \in Jobs : queue'[j].status \in {queue[j].status, "DONE"}
    BY <1>7 DEF CompleteRaises, Done, SetStatus
  <2>3. UNCHANGED <<serving, loop>>
    BY <1>7 DEF CompleteRaises
  <2>4. OneHolder'
    BY <2>1, <2>3
  <2>5. HeldNotPending'
    BY <2>1, <2>2, <2>3
  <2> QED BY <2>4, <2>5
<1>8. ASSUME NEW w \in Workers, MarkFailed(w) PROVE (OneHolder /\ HeldNotPending)'
  <2>1. worker'[w].job = None /\ \A v \in Workers \ {w} : worker'[v] = worker[v]
    BY <1>8 DEF MarkFailed, EndJob, Idle
  <2>2. \A j \in Jobs \ {Job(w)} : queue'[j] = queue[j]
    BY <1>8 DEF MarkFailed, SetStatus
  <2>3. ~serving => \A v \in Workers \ {w} : Job(v) # None => Job(v) # Job(w)
    BY <1>8 DEF MarkFailed
  <2> QED BY <1>8, <2>1, <2>2, <2>3 DEF MarkFailed
<1>9. ASSUME NEW w \in Workers, MarkFailedRaises(w) PROVE (OneHolder /\ HeldNotPending)'
  BY <1>9 DEF MarkFailedRaises, EndJob, Idle
<1>10. CASE LoopStep
  <2>1. serving \/ loop.pc # "none"
    BY <1>10 DEF LoopStep, LoopLists, LoopStarts, LoopCompletes, LoopFails, LoopStrands, LoopGoes
  <2>2. serving' = serving
    BY <1>10 DEF LoopStep, LoopLists, LoopStarts, LoopCompletes, LoopFails, LoopStrands, LoopSide
  <2> QED BY <2>1, <2>2
<1>11. CASE UNCHANGED vars
  BY <1>11 DEF vars
<1> QED BY <1>1, <1>2, <1>3, <1>4, <1>5, <1>6, <1>7, <1>8, <1>9, <1>10, <1>11 DEF Next, WorkerStep

----------------------------------------------------------------------------
(* Theorems *)

\* What the runs of steps 1 and 2 mark done or put off has been stored, whatever
\* attempts, lost replies, crashes, recoveries and job loops come between the
\* transactions (scrape_players.py, scrape_country_teams.py).
THEOREM StoredCorrect == Spec => []MarkedIsStored
<1>1. IInv => MarkedIsStored
  BY DEF IInv
<1> QED BY InitInv, StepInv, <1>1, PTL DEF Spec

\* And the tables agree with each other and with the workers: a row that is
\* IN_PROGRESS is held or a recovery away, a row that is DONE is marked.
THEOREM RowsCorrect == Spec => []RowInv
<1>1. IInv => RowInv
  BY DEF IInv
<1> QED BY InitInv, StepInv, <1>1, PTL DEF Spec

\* Without a job loop no row has two holders (claim_next of scrape_queue.py).
THEOREM OneHolderCorrect == Spec => []OneHolder
<1> QED BY InitInv, StepInv, StepHolder, PTL DEF Spec
=============================================================================
