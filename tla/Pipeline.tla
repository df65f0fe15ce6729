------------------------------ MODULE Pipeline ------------------------------
(***************************************************************************)
(* scripts/scrape_pipeline.py, main(): step 2 finds players country by     *)
(* country while step 3 scrapes their profiles.  Two events order them:    *)
(* step3_ready, which the trigger watcher sets, and step2_done, which      *)
(* main() sets.  The reseeder enqueues the players step 2 goes on finding.  *)
(* Step 1, which scrapes the teams beside them, is only waited for.        *)
(*                                                                         *)
(* Claims and failures are those of ScrapeQueue, reduced to what the order *)
(* of the steps depends on.                                                *)
(***************************************************************************)
EXTENDS PipelineConstants

CONSTANTS
  KnownPlayers,  \* players of earlier runs: in tbl_players, not yet enqueued
  TriggerCount,  \* --trigger-count
  Step2Workers, Step3Workers,
  Doubtful       \* bound: countries whose failure may come after their players are
                 \* committed, or stay unrecorded

ASSUME TriggerAssumption == KnownPlayers \subseteq Players /\ TriggerCount \in Nat
ASSUME DoubtfulAssumption == Doubtful \subseteq Countries

VARIABLES
  players,    \* tbl_players
  country,    \* the player_list row of each country
  row,        \* the player_info row of each player
  step1,      \* a step-1 worker runs
  step2,      \* what each step-2 worker scrapes
  step3,      \* what each step-3 worker scrapes
  ready,      \* step3_ready
  done,       \* step2_done
  watcher,    \* _trigger_watcher; an exception ends it and nobody awaits it
  reseeder,   \* _player_info_reseeder
  main        \* what main() awaits

vars == <<players, country, row, step1, step2, step3, ready, done, watcher, reseeder, main>>

Init ==
  /\ players = KnownPlayers
  /\ country = [c \in Countries |-> "ABSENT"] /\ row = [p \in Players |-> "ABSENT"]
  /\ step1 = FALSE
  /\ step2 = [w \in Step2Workers |-> "exited"] /\ step3 = [w \in Step3Workers |-> "exited"]
  /\ ready = FALSE /\ done = FALSE
  /\ watcher = "returned" /\ reseeder = "returned" /\ main = "none"

\* main() up to the workers: _seed_queue inserts the countries it was given,
\* recover_all_stale and recover_failed return the others to the queue.  There are
\* no more step-2 workers than countries; without any, step3_ready is set at once.
\* teams: a club page of step 1 is not DONE, there are step-1 workers.
Start(wanted, teams) ==
  LET staffed == CHOOSE W \in SUBSET Step2Workers :
        /\ Cardinality(W) <= Cardinality(wanted)
        /\ Cardinality(W) = Cardinality(wanted) \/ W = Step2Workers
  IN /\ main = "none"
     /\ country' = [c \in Countries |->
          IF country[c] \in {"IN_PROGRESS", "FAILED"} \/ (country[c] = "ABSENT" /\ c \in wanted)
          THEN "PENDING" ELSE country[c]]
     /\ step1' = teams
     /\ step2' = [w \in Step2Workers |-> IF w \in staffed THEN None ELSE "exited"]
     /\ ready' = (staffed = {}) /\ done' = FALSE
     /\ watcher' = "polling" /\ reseeder' = "none" /\ main' = "trigger"
     /\ UNCHANGED <<players, row, step3>>

\* The process ends, after main() or before; what it committed stays.
ProcessEnds ==
  /\ main # "none"
  /\ step1' = FALSE
  /\ step2' = [w \in Step2Workers |-> "exited"] /\ step3' = [w \in Step3Workers |-> "exited"]
  /\ ready' = FALSE /\ done' = FALSE
  /\ watcher' = "returned" /\ reseeder' = "returned" /\ main' = "none"
  /\ UNCHANGED <<players, country, row>>

----------------------------------------------------------------------------
(* Step 2: PlayerListWorker *)

ClaimCountry(w, c) ==
  /\ step2[w] = None /\ country[c] = "PENDING"
  /\ country' = [country EXCEPT ![c] = "IN_PROGRESS"]
  /\ step2' = [step2 EXCEPT ![w] = c]
  /\ UNCHANGED <<players, row, step1, step3, ready, done, watcher, reseeder, main>>

\* PlayerListScraper.scrape commits the players before it returns.
FindsPlayers(w) == players' = players \cup PlayersOf[step2[w]]

ScrapeCountry(w) ==
  /\ step2[w] \in Countries
  /\ FindsPlayers(w)
  /\ country' = [country EXCEPT ![step2[w]] = "DONE"]
  /\ step2' = [step2 EXCEPT ![w] = None]
  /\ UNCHANGED <<row, step1, step3, ready, done, watcher, reseeder, main>>

\* The attempts raise.  The generic mark_failed never gives a job up.
CountryFails(w) ==
  /\ step2[w] \in Countries
  /\ country' = [country EXCEPT ![step2[w]] = "PENDING"]
  /\ step2' = [step2 EXCEPT ![w] = None]
  /\ UNCHANGED <<players, row, step1, step3, ready, done, watcher, reseeder, main>>

\* They raise after the players were committed, or mark_failed raises as well, or a
\* claim's reply was lost: then the row stays IN_PROGRESS without a worker until the
\* next start.
CountryInDoubt(w) ==
  /\ step2[w] \in Doubtful
  /\ FindsPlayers(w) \/ UNCHANGED players
  /\ \E status \in {"PENDING", "IN_PROGRESS"} : country' = [country EXCEPT ![step2[w]] = status]
  /\ step2' = [step2 EXCEPT ![w] = None]
  /\ UNCHANGED <<row, step1, step3, ready, done, watcher, reseeder, main>>

Step2Exit(w) ==
  /\ step2[w] = None /\ \A c \in Countries : country[c] # "PENDING"
  /\ step2' = [step2 EXCEPT ![w] = "exited"]
  /\ UNCHANGED <<players, country, row, step1, step3, ready, done, watcher, reseeder, main>>

----------------------------------------------------------------------------
(* The trigger and the reseeder *)

Trigger ==
  /\ watcher = "polling"
  /\ ready \/ done \/ Cardinality(players) >= TriggerCount
  /\ ready' = TRUE /\ watcher' = "returned"
  /\ UNCHANGED <<players, country, row, step1, step2, step3, done, reseeder, main>>

\* Its query raises: the task is over, and nobody learns of it.
WatcherDies ==
  /\ watcher = "polling" /\ ~ready /\ ~done
  /\ watcher' = "dead"
  /\ UNCHANGED <<players, country, row, step1, step2, step3, ready, done, reseeder, main>>

\* A player that is not enqueued gets a row.
Enqueued(rows) == [p \in Players |-> IF p \in players /\ rows[p] = "ABSENT" THEN "PENDING" ELSE rows[p]]
\* recover_all_stale and recover_failed.
Recovered == [p \in Players |-> IF row[p] \in {"IN_PROGRESS", "FAILED"} THEN "PENDING" ELSE row[p]]

\* The drain of ScrapeQueue, all its batches.
Drain == row' = Enqueued(row)

\* step2_done may be set while a drain that has read its last rows commits.
Reseed ==
  /\ reseeder = "sleeping"
  /\ Drain
  /\ reseeder' = "checking"
  /\ UNCHANGED <<players, country, step1, step2, step3, ready, done, watcher, main>>

ReseedCheck ==
  /\ reseeder = "checking"
  /\ reseeder' = IF done THEN "final" ELSE "sleeping"
  /\ UNCHANGED <<players, country, row, step1, step2, step3, ready, done, watcher, main>>

\* Mutant: the reseeder ends without the final drain.
FinalReseed_NoDrain ==
  /\ reseeder = "final"
  /\ reseeder' = "returned"
  /\ UNCHANGED <<players, country, row, step1, step2, step3, ready, done, watcher, main>>
FinalReseed ==
  /\ reseeder = "final"
  /\ Drain
  /\ reseeder' = "returned"
  /\ UNCHANGED <<players, country, step1, step2, step3, ready, done, watcher, main>>

\* A drain raises: main() learns of it where it awaits the reseeder.
ReseederDies ==
  /\ reseeder \in {"sleeping", "final"}
  /\ reseeder' = "dead"
  /\ UNCHANGED <<players, country, row, step1, step2, step3, ready, done, watcher, main>>

----------------------------------------------------------------------------
(* main() *)

\* Recovery and the drain; then the workers start.
StartStep3 ==
  /\ main = "trigger" /\ ready
  /\ row' = Enqueued(Recovered)
  /\ step3' = [w \in Step3Workers |-> None]
  /\ reseeder' = "checking" /\ main' = "step 2"
  /\ UNCHANGED <<players, country, step1, step2, ready, done, watcher>>

Step2Over ==
  /\ main = "step 2" /\ \A w \in Step2Workers : step2[w] = "exited"
  /\ done' = TRUE /\ main' = "reseeder"
  /\ UNCHANGED <<players, country, row, step1, step2, step3, ready, watcher, reseeder>>

ReseederOver ==
  /\ main = "reseeder"
  /\ \/ reseeder = "returned" /\ main' = "step 3"
     \/ reseeder = "dead" /\ main' = "raised"
  /\ UNCHANGED <<players, country, row, step1, step2, step3, ready, done, watcher, reseeder>>

Step3Over ==
  /\ main = "step 3" /\ \A w \in Step3Workers : step3[w] = "exited"
  /\ main' = "step 1"
  /\ UNCHANGED <<players, country, row, step1, step2, step3, ready, done, watcher, reseeder>>

\* The end also cancels the watcher; how it ended is not looked at.
Step1Over ==
  /\ main = "step 1" /\ ~step1
  /\ main' = "returned" /\ watcher' = "returned"
  /\ UNCHANGED <<players, country, row, step1, step2, step3, ready, done, reseeder>>

----------------------------------------------------------------------------
(* Step 3: PlayerInfoWorker with step2_done *)

ClaimPlayer(w, p) ==
  /\ step3[w] = None /\ row[p] = "PENDING"
  /\ row' = [row EXCEPT ![p] = "IN_PROGRESS"]
  /\ step3' = [step3 EXCEPT ![w] = p]
  /\ UNCHANGED <<players, country, step1, step2, ready, done, watcher, reseeder, main>>

\* Scraped, failed for good, back in the queue, or left IN_PROGRESS because the
\* failure could not be recorded.
Settle(w, status) ==
  /\ step3[w] \in Players
  /\ row' = [row EXCEPT ![step3[w]] = status]
  /\ step3' = [step3 EXCEPT ![w] = None]
  /\ UNCHANGED <<players, country, step1, step2, ready, done, watcher, reseeder, main>>

\* Mutant: an empty queue is not enough to return.
Step3Exit_NeverEmpty(w) ==
  /\ step3[w] = None /\ done /\ \A p \in Players : row[p] = "DONE"
  /\ step3' = [step3 EXCEPT ![w] = "exited"]
  /\ UNCHANGED <<players, country, row, step1, step2, ready, done, watcher, reseeder, main>>
\* The queue is empty and step 2 is done (otherwise the worker sleeps).
Step3Exit(w) ==
  /\ step3[w] = None /\ done /\ \A p \in Players : row[p] # "PENDING"
  /\ step3' = [step3 EXCEPT ![w] = "exited"]
  /\ UNCHANGED <<players, country, row, step1, step2, ready, done, watcher, reseeder, main>>

----------------------------------------------------------------------------
(* Step 1: CountryTeamsWorker, see ListWorkers *)

\* The last worker finds its queue empty.
TeamsOver ==
  /\ step1 /\ step1' = FALSE
  /\ UNCHANGED <<players, country, row, step2, step3, ready, done, watcher, reseeder, main>>

----------------------------------------------------------------------------
Step2(w) == (\E c \in Countries : ClaimCountry(w, c)) \/ Step2Exit(w)
Step3(w) == (\E p \in Players : ClaimPlayer(w, p)) \/ Step3Exit(w)
MainStep == StartStep3 \/ Step2Over \/ ReseederOver \/ Step3Over \/ Step1Over
SettleForGood(w) == Settle(w, "DONE") \/ Settle(w, "FAILED")

\* What runs between the start and the end of main().
Runs ==
  \/ \E w \in Step2Workers : Step2(w) \/ ScrapeCountry(w) \/ CountryFails(w) \/ CountryInDoubt(w)
  \/ \E w \in Step3Workers : Step3(w) \/ SettleForGood(w) \/ Settle(w, "PENDING") \/ Settle(w, "IN_PROGRESS")
  \/ TeamsOver \/ Trigger \/ WatcherDies
  \/ Reseed \/ ReseedCheck \/ FinalReseed \/ ReseederDies \/ MainStep

\* Every task of the event loop runs.  A country is scraped some day or left
\* IN_PROGRESS, the retry ceiling ends the failures of a player (JobsSettle of
\* ScrapeQueue), and the workers of step 1 end: that no club page fails at every
\* attempt for ever is assumed here as in ListWorkers (RunEnds).
Fairness ==
  /\ \A w \in Step2Workers : WF_vars(Step2(w)) /\ SF_vars(ScrapeCountry(w))
  /\ \A w \in Step3Workers : WF_vars(Step3(w)) /\ SF_vars(SettleForGood(w))
  /\ WF_vars(TeamsOver)
  /\ WF_vars(Trigger) /\ WF_vars(Reseed \/ ReseedCheck) /\ WF_vars(FinalReseed) /\ WF_vars(MainStep)

----------------------------------------------------------------------------
(* Properties *)

TypeOK ==
  /\ players \subseteq Players
  /\ country \in [Countries -> {"ABSENT", "PENDING", "IN_PROGRESS", "DONE"}]
  /\ row \in [Players -> {"ABSENT", "PENDING", "IN_PROGRESS", "DONE", "FAILED"}]
  /\ step1 \in BOOLEAN
  /\ step2 \in [Step2Workers -> Countries \cup {None, "exited"}]
  /\ step3 \in [Step3Workers -> Players \cup {None, "exited"}]
  /\ {ready, done} \subseteq BOOLEAN
  /\ watcher \in {"polling", "returned", "dead"}
  /\ reseeder \in {"none", "checking", "sleeping", "final", "returned", "dead"}
  /\ main \in {"none", "trigger", "step 2", "reseeder", "step 3", "step 1", "returned", "raised"}

\* When main() joins the step-3 workers, every player that step 2 found, to the
\* last country, has been enqueued: the final drain comes after step2_done.
EveryPlayerSeeded ==
  main \in {"step 3", "step 1", "returned"} => \A p \in players : row[p] # "ABSENT"
\* main() waits for step3_ready and nothing will set it: the watcher is dead, or
\* step 2 is over below the trigger count (README, section 5).
TriggerLost ==
  /\ main = "trigger" /\ ~ready
  /\ \/ watcher = "dead"
     \/ Cardinality(players) < TriggerCount /\ \A w \in Step2Workers : step2[w] = "exited"
=============================================================================
