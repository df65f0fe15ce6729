--------------------------- MODULE BrowserEngine ---------------------------
(***************************************************************************)
(* infrastructure/browser/pydoll_engine.py: one Chrome with one tab, which *)
(* every caller of the engine shares.  Starting takes a lock; navigating   *)
(* and reading do not.  The callers are tasks of one event loop: a step is *)
(* what a task does from one await to the next.                            *)
(***************************************************************************)
EXTENDS Naturals, FiniteSets

CONSTANTS
  Urls,     \* the callers, by the URL they fetch
  Chromes,  \* bound: the Chrome processes that may run at a time
  None

ASSUME BrowserAssumption == IsFiniteSet(Chromes) /\ None \notin Urls \cup Chromes

VARIABLES
  engine,  \* the fields of the PydollEngine
  chrome,  \* the Chrome processes and the page of their tab
  call     \* where each call of fetch() is

browserVars == <<engine, chrome, call>>

\* starting is the holder of _start_lock.  A process that does not stop when it
\* is told to is "stuck".  "returned", "raised" and "crashed" are the results of
\* a call: a page, a ScraperError, and any other exception.
EngineState == [browser : Chromes \cup {None}, tab : Chromes \cup {None},
                starting : Urls \cup {None}]
ChromeState == [state : {"alive", "stuck", "dead"}, page : Urls \cup {None}]
CallState == [pc : {"idle", "locked", "display", "launching", "loading", "polling", "stopping",
                    "returned", "raised", "crashed"},
              chrome : Chromes \cup {None}, page : Urls \cup {None}]

NoBrowser == [browser |-> None, tab |-> None, starting |-> None]
NoProcess == [state |-> "dead", page |-> None]
NoCall == [pc |-> "idle", chrome |-> None, page |-> None]

BrowserInit ==
  /\ engine = NoBrowser
  /\ chrome = [c \in Chromes |-> NoProcess]
  /\ call = [u \in Urls |-> NoCall]

At(u, pc) == call[u].pc = pc
Goes(u, pc) == call' = [call EXCEPT ![u].pc = pc]
Result(u, pc, page) == call' = [call EXCEPT ![u] = [pc |-> pc, chrome |-> None, page |-> page]]
Fails(u, pc) == Result(u, pc, None)

----------------------------------------------------------------------------
(* _ensure_browser *)

\* fetch() copies the tab of a browser that is there.  While that browser is
\* being launched, and for good after its launch failed, there is none:
\* go_to of None raises AttributeError.
WithTab(u) ==
  call' = [call EXCEPT ![u] = [NoCall EXCEPT !.pc = IF engine.tab = None THEN "crashed" ELSE "loading",
                                             !.chrome = engine.tab]]

Enter(u) ==
  /\ At(u, "idle")
  /\ \/ engine.browser # None /\ WithTab(u) /\ UNCHANGED engine
     \/ engine.browser = None /\ engine.starting # None /\ Goes(u, "locked") /\ UNCHANGED engine
     \/ engine.browser = None /\ engine.starting = None
        /\ Goes(u, "display") /\ engine' = [engine EXCEPT !.starting = u]
  /\ UNCHANGED chrome

Locked(u) ==
  /\ At(u, "locked") /\ engine.starting = None
  /\ \/ engine.browser # None /\ WithTab(u) /\ UNCHANGED engine
     \/ engine.browser = None /\ Goes(u, "display") /\ engine' = [engine EXCEPT !.starting = u]
  /\ UNCHANGED chrome

\* A process that ended and that nothing refers to stands for a fresh one.
Fresh == {c \in Chromes : chrome[c].state = "dead" /\ engine.browser # c
                           /\ \A u \in Urls : call[u].chrome # c}

\* The display is up; _browser is assigned before the process is awaited.
Launch(u) ==
  /\ At(u, "display")
  /\ \E c \in Fresh :
       /\ chrome' = [chrome EXCEPT ![c] = [state |-> "alive", page |-> None]]
       /\ engine' = [engine EXCEPT !.browser = c]
       /\ call' = [call EXCEPT ![u].pc = "launching", ![u].chrome = c]

Launched(u) ==
  /\ At(u, "launching") /\ chrome[call[u].chrome].state = "alive"
  /\ engine' = [engine EXCEPT !.tab = call[u].chrome, !.starting = None]
  /\ Goes(u, "loading")
  /\ UNCHANGED chrome

\* Mutant: the browser that did not start is forgotten, not kept.
LaunchFails_Forgets(u) ==
  /\ At(u, "launching")
  /\ UNCHANGED chrome
  /\ engine' = NoBrowser
  /\ Fails(u, "crashed")

\* start() raises, perhaps with the process up; _browser stays assigned.
LaunchFails(u) ==
  /\ At(u, "launching")
  /\ \/ UNCHANGED chrome
     \/ chrome' = [chrome EXCEPT ![call[u].chrome] = NoProcess]
  /\ engine' = [engine EXCEPT !.starting = None]
  /\ Fails(u, "crashed")

----------------------------------------------------------------------------
(* fetch *)

Running(c) == chrome[c].state \in {"alive", "stuck"}

\* Mutant: go_to does not wait for the page.
Loads_NoWait(u) ==
  /\ At(u, "loading") /\ Running(call[u].chrome)
  /\ Goes(u, "polling")
  /\ UNCHANGED <<engine, chrome>>

\* go_to returns: the tab shows the page of whoever navigated last.
Loads(u) ==
  /\ At(u, "loading") /\ Running(call[u].chrome)
  /\ chrome' = [chrome EXCEPT ![call[u].chrome].page = u]
  /\ Goes(u, "polling")
  /\ UNCHANGED engine

\* _wait_for_challenge sees no marker of a challenge.
Reads(u) ==
  /\ At(u, "polling") /\ Running(call[u].chrome)
  /\ Result(u, "returned", chrome[call[u].chrome].page)
  /\ UNCHANGED <<engine, chrome>>

\* go_to times out; the challenge stays; the connection is lost in a poll; the
\* page is a rate limit: the error leaves the browser as it is.
GivesUp(u) ==
  /\ call[u].pc \in {"loading", "polling"}
  /\ Fails(u, "raised")
  /\ UNCHANGED <<engine, chrome>>

\* A CDP error stops the browser the engine has now, which need not be the one
\* this call was using.
Breaks(u) ==
  /\ call[u].pc \in {"loading", "polling"}
  /\ \/ engine.browser = None /\ Fails(u, "raised") /\ engine' = [engine EXCEPT !.tab = None]
     \/ engine.browser # None
        /\ call' = [call EXCEPT ![u].pc = "stopping", ![u].chrome = engine.browser]
        /\ UNCHANGED engine
  /\ UNCHANGED chrome

\* A process ends by itself.
Dies(c) ==
  /\ Running(c)
  /\ chrome' = [chrome EXCEPT ![c] = NoProcess]
  /\ UNCHANGED <<engine, call>>

Stop(c) ==
  \/ chrome' = [chrome EXCEPT ![c] = NoProcess]
  \/ Running(c) /\ chrome' = [chrome EXCEPT ![c].state = "stuck"]

\* stop() returned or raised.  The fields are cleared, even when another caller
\* has started a browser during the await.
Stopped(u) ==
  /\ At(u, "stopping")
  /\ Stop(call[u].chrome)
  /\ engine' = [engine EXCEPT !.browser = None, !.tab = None]
  /\ Fails(u, "raised")

FetchStep(u) ==
  \/ Locked(u) \/ Launch(u) \/ Launched(u) \/ LaunchFails(u)
  \/ Loads(u) \/ Reads(u) \/ GivesUp(u) \/ Breaks(u) \/ Stopped(u)

----------------------------------------------------------------------------
(* close *)

\* Errors and the timeout of stop() are swallowed; no caller is running.
CloseEngine ==
  /\ IF engine.browser = None THEN UNCHANGED chrome ELSE Stop(engine.browser)
  /\ engine' = NoBrowser
=============================================================================
