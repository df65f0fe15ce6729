------------------------- MODULE ScrapeDaemonProofs -------------------------
(***************************************************************************)
(* DaemonInv of ScrapeDaemon, for any URLs, poll limit and restarts.       *)
(***************************************************************************)
EXTENDS ScrapeDaemon, TLAPS

\* A URL without a queue row was never scraped, and is still due.
NewIsDue == \A u \in Urls : row[u] = "ABSENT" /\ url[u].status # "ABSENT" => u \in Due

\* Handlers only run for URLs that were discovered.
TasksKnown == \A u \in tasks : url[u].status # "ABSENT"

\* A handler that runs late meets a row that exists, or a URL that is due.
IInv == DaemonInv /\ NewIsDue /\ TasksKnown

----------------------------------------------------------------------------
LEMMA InitInv == Init => IInv
<1> SUFFICES ASSUME Init PROVE IInv
  OBVIOUS
<1> USE DEF Init
<1>1. TypeOK
  <2>1. \A u \in Urls : url[u] \in [status : {"ABSENT", "PENDING", "ACTIVE", "STALE"}, due : BOOLEAN]
    <3>1. TAKE u \in Urls
    <3>2. url[u] = [status |-> "ABSENT", due |-> FALSE] \/ url[u] = [status |-> "PENDING", due |-> TRUE]
      OBVIOUS
    <3>3. \A due \in BOOLEAN : \A s \in {"ABSENT", "PENDING"} :
            [status |-> s, due |-> due] \in [status : {"ABSENT", "PENDING", "ACTIVE", "STALE"}, due : BOOLEAN]
      OBVIOUS
    <3>4. FALSE \in BOOLEAN /\ TRUE \in BOOLEAN
      OBVIOUS
    <3> QED BY <3>2, <3>3, <3>4, Zenon
  <2>2. url \in [Urls -> [status : {"ABSENT", "PENDING", "ACTIVE", "STALE"}, due : BOOLEAN]]
    BY <2>1
  <2> QED BY <2>2 DEF TypeOK
<1>2. OpenIsDue /\ TasksKnown
  BY DEF OpenIsDue, TasksKnown
<1>3. NewIsDue
  BY DEF NewIsDue, Due
<1> QED BY <1>1, <1>2, <1>3 DEF IInv, DaemonInv

\* Opening the rows of due URLs that have none keeps rows typed and due.
LEMMA EnqueuedDue ==
  ASSUME TypeOK, OpenIsDue, NEW S \in SUBSET Urls,
         \A u \in S : row[u] = "ABSENT" => u \in Due
  PROVE  /\ Enqueued(S) \in [Urls -> {"ABSENT", "OPEN", "DONE", "FAILED"}]
         /\ \A u \in Urls : Enqueued(S)[u] = "OPEN" => u \in Due
         /\ \A u \in Urls : Enqueued(S)[u] = "ABSENT" => row[u] = "ABSENT"
  BY DEF TypeOK, OpenIsDue, Enqueued

LEMMA StepInv == IInv /\ [Next]_vars => IInv'
<1> SUFFICES ASSUME IInv, [Next]_vars PROVE IInv'
  OBVIOUS
<1> USE DEF IInv, DaemonInv, TypeOK, OpenIsDue, NewIsDue, TasksKnown
<1>1. ASSUME NEW u \in Urls, Discover(u) PROVE IInv'
  <2>1. Due' = Due \cup {u}
    BY <1>1 DEF Discover, Due
  <2>2. tasks' \subseteq tasks \cup {u}
    BY <1>1 DEF Discover, Notify
  <2> QED BY <1>1, <2>1, <2>2 DEF Discover
<1>2. ASSUME NEW u \in Urls, BecomeDue(u) PROVE IInv'
  <2>1. Due' = Due \cup {u}
    BY <1>2 DEF BecomeDue, Due
  <2> QED BY <1>2, <2>1 DEF BecomeDue
<1>3. ASSUME NEW u \in Urls, Scrape(u) PROVE IInv'
  <2>1. Due' = Due \ {u}
    BY <1>3 DEF Scrape, Due
  <2> QED BY <1>3, <2>1 DEF Scrape
<1>4. ASSUME NEW u \in Urls, GiveUp(u) PROVE IInv'
  <2>1. Due' = Due \ {u}
    BY <1>4 DEF GiveUp, Due
  <2> QED BY <1>4, <2>1 DEF GiveUp
<1>5. ASSUME NEW u \in Urls, Handle(u) PROVE IInv'
  <2>1. Due' = Due
    BY <1>5 DEF Handle, Due
  <2>2. row[u] = "ABSENT" => u \in Due
    BY <1>5 DEF Handle
  <2>3. row' = Enqueued({u})
    BY <1>5 DEF Handle
  <2> QED BY <1>5, <2>1, <2>2, <2>3, EnqueuedDue DEF Handle
<1>6. ASSUME NEW u \in Urls, HandleRaises(u) PROVE IInv'
  BY <1>6 DEF HandleRaises, Due
<1>7. CASE Tick
  <2>1. tasks' \subseteq tasks \cup Due
    BY <1>7 DEF Tick, Notify
  <2>2. \A u \in Due : u \in Urls /\ url[u].status # "ABSENT"
    BY DEF Due
  <2> QED BY <1>7, <2>1, <2>2 DEF Tick, Due
<1>8. CASE Connect
  BY <1>8 DEF Connect, Due
<1>9. CASE PollFallback
  <2>1. PICK S \in SUBSET Due : row' = Enqueued(S)
    BY <1>9 DEF PollFallback
  <2>2. S \in SUBSET Urls /\ Due' = Due
    BY <1>9, <2>1 DEF PollFallback, Due
  <2> QED BY <1>9, <2>1, <2>2, EnqueuedDue DEF PollFallback
<1>10. CASE PollSkips \/ PollRaises
  BY <1>10 DEF PollSkips, PollRaises, Due
<1>11. CASE LinkBreaks
  BY <1>11 DEF LinkBreaks, Due
<1>12. CASE Restart
  <2>1. restarts' \in Nat
    BY <1>12 DEF Restart
  <2>2. Due' = Due
    BY <1>12 DEF Restart, Due
  <2> QED BY <1>12, <2>1, <2>2 DEF Restart
<1>13. CASE UNCHANGED vars
  BY <1>13 DEF vars, Due
<1> QED BY <1>1, <1>2, <1>3, <1>4, <1>5, <1>6, <1>7, <1>8, <1>9, <1>10, <1>11, <1>12, <1>13 DEF Next

\* The daemon opens no row of a page that is not due, whatever restarts, failed
\* polls and late handlers come between a notification and its row
\* (notify_listener.py, cadence_scheduler.py).
THEOREM DaemonCorrect == Spec => []DaemonInv
<1>1. IInv => DaemonInv
  BY DEF IInv
<1> QED BY InitInv, StepInv, <1>1, PTL DEF Spec
=============================================================================
