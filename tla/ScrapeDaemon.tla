---------------------------- MODULE ScrapeDaemon ----------------------------
(***************************************************************************)
(* scripts/run_daemon.py: CadenceScheduler makes the database NOTIFY every *)
(* due URL once a minute, PgNotifyListener turns notifications into queue  *)
(* rows.  A notification reaches the listener only while its connection    *)
(* LISTENs; a handler task may run long after it; a restart loses both.    *)
(*                                                                         *)
(* The scrapers of ScrapeQueue appear as the two actions that end a job.   *)
(***************************************************************************)
EXTENDS Naturals, FiniteSets

CONSTANTS
  Urls,        \* rows of the URL registry
  PollLimit,   \* _POLL_LIMIT
  DropsLink,   \* the LISTEN connection may break while the listener idles
  MaxRestarts  \* bound: daemon restarts that are explored

ASSUME DaemonAssumption ==
  /\ IsFiniteSet(Urls) /\ PollLimit \in Nat \ {0} /\ MaxRestarts \in Nat /\ DropsLink \in BOOLEAN

VARIABLES
  url,       \* the registry row: status, and whether next_scrape_at has passed
  row,       \* the status of the scrape_queue row
  listener,  \* where PgNotifyListener.start is
  linked,    \* the LISTEN connection is up
  tasks,     \* _handle_payload tasks, by the URL of their payload
  restarts

vars == <<url, row, listener, linked, tasks, restarts>>

Init ==
  /\ url \in [Urls -> {[status |-> "ABSENT", due |-> FALSE], [status |-> "PENDING", due |-> TRUE]}]
  /\ row = [u \in Urls |-> "ABSENT"]
  /\ listener = "down" /\ linked = FALSE /\ tasks = {} /\ restarts = 0

\* Mutant: the filter that migration p56a replaced.
Due_ActiveOnly == {u \in Urls : url[u].status = "ACTIVE" /\ url[u].due}
Due == {u \in Urls : url[u].status \in {"PENDING", "ACTIVE"} /\ url[u].due}

\* NOTIFY to whoever listens.
Notify(S) == tasks' = IF linked THEN tasks \cup S ELSE tasks

----------------------------------------------------------------------------
(* The database: discovery with its trigger, time, and the end of jobs *)

Discover(u) ==
  /\ url[u].status = "ABSENT"
  /\ url' = [url EXCEPT ![u] = [status |-> "PENDING", due |-> TRUE]]
  /\ Notify({u})
  /\ UNCHANGED <<row, listener, linked, restarts>>

BecomeDue(u) ==
  /\ url[u].status = "ACTIVE" /\ ~url[u].due
  /\ url' = [url EXCEPT ![u].due = TRUE]
  /\ UNCHANGED <<row, listener, linked, tasks, restarts>>

Scrape(u) ==
  /\ row[u] = "OPEN"
  /\ row' = [row EXCEPT ![u] = "DONE"]
  /\ url' = [url EXCEPT ![u] = [status |-> "ACTIVE", due |-> FALSE]]
  /\ UNCHANGED <<listener, linked, tasks, restarts>>

GiveUp(u) ==
  /\ row[u] = "OPEN"
  /\ row' = [row EXCEPT ![u] = "FAILED"]
  /\ url' = [url EXCEPT ![u].status = "STALE"]
  /\ UNCHANGED <<listener, linked, tasks, restarts>>

----------------------------------------------------------------------------
(* CadenceScheduler *)

Tick == Notify(Due) /\ UNCHANGED <<url, row, listener, linked, restarts>>

----------------------------------------------------------------------------
(* PgNotifyListener *)

\* Mutant: the conflict is not restricted, the row is opened again.
Enqueued_Reopens(S) == [u \in Urls |-> IF u \in S THEN "OPEN" ELSE row[u]]
\* _enqueue_row: ON CONFLICT touches nothing but a missing link.
Enqueued(S) == [u \in Urls |-> IF u \in S /\ row[u] = "ABSENT" THEN "OPEN" ELSE row[u]]

Connect ==
  /\ listener = "down"
  /\ listener' = "polling" /\ linked' = TRUE
  /\ UNCHANGED <<url, row, tasks, restarts>>

\* The oldest due rows, up to the limit.
PollFallback ==
  /\ listener = "polling"
  /\ \E S \in SUBSET Due :
       /\ Cardinality(S) = IF Cardinality(Due) < PollLimit THEN Cardinality(Due) ELSE PollLimit
       /\ row' = Enqueued(S)
  /\ listener' = "idling"
  /\ UNCHANGED <<url, linked, tasks, restarts>>

\* The query of the table raises: that is logged, and the listener goes on.
PollSkips ==
  /\ listener = "polling"
  /\ listener' = "idling"
  /\ UNCHANGED <<url, row, linked, tasks, restarts>>

\* The upsert or the commit of the poll raises: the connection is closed and start() backs off.
PollRaises ==
  /\ listener = "polling"
  /\ listener' = "down" /\ linked' = FALSE
  /\ UNCHANGED <<url, row, tasks, restarts>>

\* One task commits its row; a task that raises is lost.
Handle(u) ==
  /\ u \in tasks
  /\ tasks' = tasks \ {u} /\ row' = Enqueued({u})
  /\ UNCHANGED <<url, listener, linked, restarts>>

HandleRaises(u) ==
  /\ u \in tasks
  /\ tasks' = tasks \ {u}
  /\ UNCHANGED <<url, row, listener, linked, restarts>>

\* The connection breaks; the loop that sleeps does not look at it.
LinkBreaks ==
  /\ DropsLink /\ listener # "down" /\ linked
  /\ linked' = FALSE
  /\ UNCHANGED <<url, row, listener, tasks, restarts>>

Restart ==
  /\ restarts < MaxRestarts
  /\ listener' = "down" /\ linked' = FALSE /\ tasks' = {} /\ restarts' = restarts + 1
  /\ UNCHANGED <<url, row>>

----------------------------------------------------------------------------
Next ==
  \/ \E u \in Urls : Discover(u) \/ BecomeDue(u) \/ Scrape(u) \/ GiveUp(u)
                      \/ Handle(u) \/ HandleRaises(u)
  \/ Tick \/ Connect \/ PollFallback \/ PollSkips \/ PollRaises \/ LinkBreaks \/ Restart

Spec == Init /\ [][Next]_vars

\* The daemon's tasks run; the database does not refuse every poll and every
\* handler for ever.
Fairness ==
  /\ WF_vars(Tick) /\ WF_vars(Connect) /\ SF_vars(PollFallback)
  /\ \A u \in Urls : SF_vars(Handle(u))

FairSpec == Spec /\ Fairness

----------------------------------------------------------------------------
(* Properties *)

TypeOK ==
  /\ url \in [Urls -> [status : {"ABSENT", "PENDING", "ACTIVE", "STALE"}, due : BOOLEAN]]
  /\ row \in [Urls -> {"ABSENT", "OPEN", "DONE", "FAILED"}]
  /\ listener \in {"down", "polling", "idling"} /\ linked \in BOOLEAN
  /\ tasks \subseteq Urls /\ restarts \in Nat

\* Only due pages are open, however late a handler runs: a notification that
\* outlived the scrape it asked for does not cause another one.
OpenIsDue == \A u \in Urls : row[u] = "OPEN" => u \in Due

\* The rows the daemon writes: their types, and none opened that is not due.
DaemonInv == TypeOK /\ OpenIsDue

\* The listener sleeps on a connection that is gone.
Deaf == listener = "idling" /\ ~linked

\* A new URL gets its queue row: whatever notification is lost to a restart, a
\* failed poll or a failed handler, the next tick repeats it, as long as the
\* connection does not break unnoticed.
NewIsEnqueued ==
  \A u \in Urls : url[u].status = "PENDING" ~> (row[u] # "ABSENT" \/ []Deaf)
=============================================================================
