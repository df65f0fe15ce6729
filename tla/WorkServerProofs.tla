-------------------------- MODULE WorkServerProofs --------------------------
(***************************************************************************)
(* The invariants of WorkServer, for any rows, Chromes and limits.         *)
(***************************************************************************)
EXTENDS WorkServer, FiniteSetTheorems, TLAPS

\* A batch of a single slot is a single task.
OneTask == slots = 1 => \A r, q \in Rows : task[r].pc # "none" /\ task[q].pc # "none" => r = q

\* Only a task that fetches has a call; a server that is not up has no tasks.
CallsOfTasks == \A r \in Rows : call[r].pc # "idle" => task[r].pc = "fetching"
TasksOfServer == server # "up" => \A r \in Rows : task[r].pc = "none"

\* A call that uses a Chrome has one; the holder of the start lock launches.
CallsHaveChrome == \A u \in Urls :
  call[u].pc \in {"launching", "loading", "polling", "stopping"} => call[u].chrome \in Chromes
StarterLaunches == \A u \in Urls : call[u].pc \in {"display", "launching"} <=> engine.starting = u

\* A tab that was navigated shows some page until it is read.
Loaded == \A u \in Urls :
  /\ call[u].pc = "polling" /\ chrome[call[u].chrome].state # "dead" => chrome[call[u].chrome].page # None
  /\ call[u].pc = "returned" => call[u].page # None

\* With one slot, a call works on the engine's own browser, and a tab that was
\* navigated shows the page until it is read.
OwnBrowser == slots = 1 => \A u \in Urls :
  /\ call[u].pc = "display" => engine.browser = None
  /\ call[u].pc = "stopping" => call[u].chrome = engine.browser
OwnPage == slots = 1 => \A u \in Urls :
  /\ call[u].pc = "polling" /\ Running(call[u].chrome) => chrome[call[u].chrome].page = u
  /\ call[u].pc = "returned" => call[u].page = u

Links == OneTask /\ CallsOfTasks /\ TasksOfServer /\ CallsHaveChrome /\ StarterLaunches /\ Loaded
Serial == OwnBrowser /\ OwnPage /\ SerialChrome /\ SerialPagesMatch

IInv == TypeOK /\ Links /\ Serial /\ ErrorsDoNotStrand

----------------------------------------------------------------------------
LEMMA InitInv == Init => IInv
<1> SUFFICES ASSUME Init PROVE IInv
  OBVIOUS
<1> USE BrowserAssumption, LimitsAssumption
        DEF Init, BrowserInit, NoBrowser, NoProcess, NoCall, NoTask
<1>1. engine \in EngineState /\ chrome \in [Chromes -> ChromeState] /\ call \in [Urls -> CallState]
  BY DEF EngineState, ChromeState, CallState
<1>2. TypeOK
  BY <1>1 DEF TypeOK, Rows
<1>3. Links
  BY DEF Links, OneTask, CallsOfTasks, TasksOfServer, CallsHaveChrome, StarterLaunches, Loaded, Rows
<1>4. Serial /\ ErrorsDoNotStrand
  BY DEF Serial, OwnBrowser, OwnPage, SerialChrome, SerialPagesMatch, ErrorsDoNotStrand, Rows
<1> QED BY <1>2, <1>3, <1>4 DEF IInv

\* What a step of a call has to respect: its Chrome, the start lock and, when it
\* runs alone, the browser and the tab.
Keeps == \A c \in Chromes : chrome'[c].state # "dead" =>
  \/ chrome[c].state # "dead" /\ (chrome[c].page # None => chrome'[c].page # None)
  \/ \A u \in Urls : call[u].chrome # c
Respects(r, s) ==
  /\ s \in CallState /\ engine' \in EngineState /\ chrome' \in [Chromes -> ChromeState]
  /\ s.pc \in {"launching", "loading", "polling", "stopping"} => s.chrome \in Chromes
  /\ s.pc \in {"display", "launching"} <=> engine'.starting = r
  /\ \A u \in Urls \ {r} : engine'.starting = u <=> engine.starting = u
  /\ s.pc = "polling" /\ chrome'[s.chrome].state # "dead" => chrome'[s.chrome].page # None
  /\ s.pc = "returned" => s.page # None
  /\ Keeps
Alone(r, s) ==
  /\ s.pc = "display" => engine'.browser = None
  /\ s.pc = "stopping" => s.chrome = engine'.browser
  /\ s.pc = "polling" /\ chrome'[s.chrome].state # "dead" => chrome'[s.chrome].page = r
  /\ s.pc = "returned" => s.page = r
  /\ \A c \in Chromes : chrome'[c].state = "alive" => engine'.browser = c

LEMMA CallStep ==
  ASSUME IInv, NEW r \in Rows, task[r].pc = "fetching",
         UNCHANGED <<queue, task, prov, stranded, slots, server, stops>>,
         NEW s, call' = [call EXCEPT ![r] = s],
         Respects(r, s), slots = 1 => Alone(r, s)
  PROVE  IInv'
<1> USE BrowserAssumption DEF IInv, Rows
<1>1. call \in [Urls -> CallState] /\ s \in CallState
  BY DEF TypeOK, Respects
<1>2. TypeOK'
  BY <1>1 DEF TypeOK, Respects
<1>3. Links'
  <2>1. (OneTask /\ CallsOfTasks /\ TasksOfServer /\ CallsHaveChrome /\ StarterLaunches)'
    BY <1>1 DEF Links, OneTask, CallsOfTasks, TasksOfServer, CallsHaveChrome, StarterLaunches, Respects
  <2>2. Loaded'
    BY <1>1 DEF Links, CallsHaveChrome, Loaded, Respects, Keeps
  <2> QED BY <2>1, <2>2 DEF Links
<1>4. slots = 1 => \A u \in Urls \ {r} : call'[u].pc = "idle"
  BY <1>1 DEF Links, OneTask, CallsOfTasks
<1>5. OwnBrowser'
  BY <1>1, <1>4 DEF OwnBrowser, Alone
<1>6. OwnPage'
  BY <1>1, <1>4 DEF OwnPage, Running, Alone
<1>7. SerialChrome' /\ SerialPagesMatch' /\ ErrorsDoNotStrand'
  BY DEF Serial, SerialChrome, SerialPagesMatch, ErrorsDoNotStrand, Alone
<1> QED BY <1>2, <1>3, <1>5, <1>6, <1>7 DEF Serial

\* A step of fetch() or of its lazy launch.
LEMMA FetchInv ==
  ASSUME IInv, NEW r \in Rows, Fetch(r)
  PROVE  IInv'
<1>1. task[r].pc = "fetching" /\ UNCHANGED <<queue, task, prov, stranded, slots, server, stops>>
  BY DEF Fetch, jobVars, Environment
<1>2. /\ engine \in EngineState /\ chrome \in [Chromes -> ChromeState] /\ call \in [Urls -> CallState]
      /\ r \in Urls
  BY DEF IInv, TypeOK, Rows
<1>3. /\ call[r].pc \in {"launching", "loading", "polling", "stopping"} => call[r].chrome \in Chromes
      /\ call[r].pc \in {"display", "launching"} <=> engine.starting = r
  BY <1>2 DEF IInv, Links, CallsHaveChrome, StarterLaunches
<1>4. slots = 1 =>
        /\ call[r].pc = "display" => engine.browser = None
        /\ call[r].pc = "stopping" => call[r].chrome = engine.browser
        /\ call[r].pc = "polling" /\ chrome[call[r].chrome].state # "dead" => chrome[call[r].chrome].page = r
        /\ \A c \in Chromes : chrome[c].state = "alive" => engine.browser = c
  <2>1. \A c \in Chromes : Running(c) <=> chrome[c].state # "dead"
    BY <1>2 DEF Running, ChromeState
  <2> QED BY <1>2, <1>3, <2>1 DEF IInv, Serial, OwnBrowser, OwnPage, SerialChrome
<1> USE BrowserAssumption DEF At
<1>5. \A u \in Urls : None # u
  OBVIOUS
<1>18. UNCHANGED chrome => Keeps
  BY DEF Keeps
<1>6. ASSUME NEW s, call' = [call EXCEPT ![r] = s], Respects(r, s), slots = 1 => Alone(r, s)
      PROVE  IInv'
  BY <1>1, <1>6, CallStep
\* The call goes on to another await with what it has.
<1>7. ASSUME NEW pc \in {"locked", "display", "loading", "polling"}, Goes(r, pc),
             engine' \in EngineState, engine'.browser = engine.browser,
             chrome' \in [Chromes -> ChromeState],
             \A c \in Chromes : chrome'[c].state = chrome[c].state,
             pc \in {"loading", "polling"} => call[r].chrome \in Chromes,
             pc = "display" => engine.browser = None /\ engine'.starting = r,
             pc = "display" \/ engine'.starting # r,
             \A u \in Urls \ {r} : engine'.starting = u <=> engine.starting = u,
             pc = "polling" => chrome'[call[r].chrome].page = r,
             Keeps
      PROVE  IInv'
  <2> DEFINE s == [call[r] EXCEPT !.pc = pc]
  <2>1. s \in CallState /\ s.pc = pc /\ s.chrome = call[r].chrome /\ call' = [call EXCEPT ![r] = s]
    BY <1>2, <1>7 DEF CallState, Goes
  <2> HIDE DEF s
  <2>2. Respects(r, s)
    BY <1>2, <1>5, <1>7, <2>1 DEF Respects
  <2>3. slots = 1 => Alone(r, s)
    BY <1>4, <1>7, <2>1 DEF Alone
  <2> QED BY <1>6, <2>1, <2>2, <2>3
\* The call ends.
<1>8. ASSUME NEW pc \in {"returned", "raised", "crashed"}, NEW page \in Urls \cup {None}, Result(r, pc, page),
             engine' \in EngineState, chrome' \in [Chromes -> ChromeState],
             engine'.starting # r, \A u \in Urls \ {r} : engine'.starting = u <=> engine.starting = u,
             pc = "returned" => page # None, Keeps,
             slots = 1 => /\ pc = "returned" => page = r
                          /\ \A c \in Chromes : chrome'[c].state = "alive" => engine'.browser = c
      PROVE  IInv'
  <2> DEFINE s == [pc |-> pc, chrome |-> None, page |-> page]
  <2>1. s \in CallState /\ s.pc = pc /\ s.page = page /\ call' = [call EXCEPT ![r] = s]
    BY <1>2, <1>8 DEF CallState, Result
  <2> HIDE DEF s
  <2>2. Respects(r, s)
    BY <1>8, <2>1 DEF Respects
  <2>3. slots = 1 => Alone(r, s)
    BY <1>8, <2>1 DEF Alone
  <2> QED BY <1>6, <2>1, <2>2, <2>3
<1>9. CASE WithTab(r) /\ call[r].pc \in {"idle", "locked"} /\ UNCHANGED <<engine, chrome>>
  <2> DEFINE s == [NoCall EXCEPT !.pc = IF engine.tab = None THEN "crashed" ELSE "loading", !.chrome = engine.tab]
  <2>1. call' = [call EXCEPT ![r] = s]
    BY <1>9 DEF WithTab
  <2>2. /\ s \in CallState /\ s.chrome = engine.tab /\ engine.tab \in Chromes \cup {None}
        /\ s.pc = IF engine.tab = None THEN "crashed" ELSE "loading"
    BY <1>2 DEF CallState, NoCall, EngineState
  <2> HIDE DEF s
  <2>3. Respects(r, s)
    BY <1>18, <1>2, <1>3, <1>9, <2>2 DEF Respects
  <2>4. slots = 1 => Alone(r, s)
    BY <1>4, <1>9, <2>2 DEF Alone
  <2> QED BY <1>6, <2>1, <2>3, <2>4
<1>10. CASE Enter(r) \/ Locked(r)
  <2>1. CASE Goes(r, "locked") /\ call[r].pc = "idle" /\ UNCHANGED <<engine, chrome>>
    BY <1>18, <1>2, <1>3, <1>7, <2>1
  <2>2. CASE /\ Goes(r, "display") /\ call[r].pc \in {"idle", "locked"} /\ engine.browser = None
             /\ engine.starting = None /\ engine' = [engine EXCEPT !.starting = r] /\ UNCHANGED chrome
    <3>1. engine' \in EngineState /\ engine'.browser = engine.browser /\ engine'.starting = r
      BY <1>2, <2>2 DEF EngineState
    <3> QED BY <1>18, <1>2, <1>5, <1>7, <2>2, <3>1
  <2> QED BY <1>9, <1>10, <2>1, <2>2 DEF Enter, Locked
<1>11. CASE Launch(r)
  <2>1. PICK c \in Fresh : /\ chrome' = [chrome EXCEPT ![c] = [state |-> "alive", page |-> None]]
                           /\ engine' = [engine EXCEPT !.browser = c]
                           /\ call' = [call EXCEPT ![r].pc = "launching", ![r].chrome = c]
    BY <1>11 DEF Launch
  <2> DEFINE s == [call[r] EXCEPT !.pc = "launching", !.chrome = c]
  <2>2. s \in CallState /\ s.pc = "launching" /\ s.chrome = c /\ call' = [call EXCEPT ![r] = s] /\ c \in Chromes
    BY <1>2, <2>1 DEF CallState, Fresh
  <2>3. engine' \in EngineState /\ engine'.browser = c /\ engine'.starting = engine.starting /\ engine.starting = r
    BY <1>2, <1>3, <1>11, <2>1, <2>2 DEF EngineState, Launch
  <2>4. chrome' \in [Chromes -> ChromeState] /\ \A d \in Chromes \ {c} : chrome'[d] = chrome[d]
    BY <1>2, <2>1, <2>2 DEF ChromeState
  <2>5. slots = 1 => \A d \in Chromes : chrome'[d].state = "alive" => engine'.browser = d
    BY <1>4, <1>11, <2>3, <2>4 DEF Launch
  <2>6. Keeps
    BY <2>1, <2>4 DEF Keeps, Fresh
  <2> HIDE DEF s
  <2>7. Respects(r, s) /\ (slots = 1 => Alone(r, s))
    BY <2>2, <2>3, <2>4, <2>5, <2>6 DEF Respects, Alone
  <2> QED BY <1>6, <2>2, <2>7
<1>12. CASE Launched(r)
  <2>1. engine' \in EngineState /\ engine'.browser = engine.browser /\ engine'.starting = None
    BY <1>2, <1>3, <1>12 DEF Launched, EngineState
  <2> QED BY <1>18, <1>2, <1>3, <1>5, <1>7, <1>12, <2>1 DEF Launched
<1>13. CASE LaunchFails(r)
  <2>1. engine' \in EngineState /\ engine'.browser = engine.browser /\ engine'.starting = None
    BY <1>2, <1>13 DEF LaunchFails, EngineState
  <2>2. chrome' \in [Chromes -> ChromeState] /\ \A c \in Chromes : chrome'[c].state = "alive" => chrome[c].state = "alive"
    BY <1>2, <1>13 DEF LaunchFails, NoProcess, ChromeState
  <2>3. engine'.starting # r /\ \A u \in Urls \ {r} : engine'.starting = u <=> engine.starting = u
    BY <1>2, <1>3, <1>5, <1>13, <2>1 DEF LaunchFails
  <2>4. slots = 1 => \A c \in Chromes : chrome'[c].state = "alive" => engine'.browser = c
    BY <1>4, <2>1, <2>2
  <2>5. Result(r, "crashed", None)
    BY <1>13 DEF LaunchFails, Fails
  <2>6. Keeps
    BY <1>2, <1>13 DEF LaunchFails, NoProcess, Keeps
  <2> QED BY <1>8, <2>1, <2>2, <2>3, <2>4, <2>5, <2>6
<1>14. CASE Loads(r)
  <2>1. /\ chrome' = [chrome EXCEPT ![call[r].chrome].page = r] /\ UNCHANGED engine
        /\ call[r].pc = "loading" /\ call[r].chrome \in Chromes /\ Goes(r, "polling")
    BY <1>3, <1>14 DEF Loads
  <2>2. /\ chrome' \in [Chromes -> ChromeState] /\ chrome'[call[r].chrome].page = r
        /\ \A c \in Chromes : chrome'[c].state = chrome[c].state
        /\ Keeps
    BY <1>2, <1>5, <2>1 DEF ChromeState, Keeps
  <2> QED BY <1>2, <1>3, <1>7, <2>1, <2>2
<1>15. CASE Reads(r)
  <2>1. chrome[call[r].chrome].state # "dead" /\ chrome[call[r].chrome].page \in Urls
    BY <1>2, <1>3, <1>15 DEF Reads, Running, ChromeState, IInv, Links, Loaded
  <2> QED BY <1>2, <1>3, <1>4, <1>5, <1>8, <1>15, <1>18, <2>1 DEF Reads
<1>16. CASE GivesUp(r) \/ Breaks(r)
  <2>1. call[r].pc \in {"loading", "polling"} /\ UNCHANGED chrome
    BY <1>16 DEF GivesUp, Breaks
  <2>2. CASE Fails(r, "raised") /\ (UNCHANGED engine \/ engine' = [engine EXCEPT !.tab = None])
    <3>1. engine' \in EngineState /\ engine'.browser = engine.browser /\ engine'.starting = engine.starting
      BY <1>2, <2>2 DEF EngineState
    <3> QED BY <1>18, <1>2, <1>3, <1>4, <1>8, <2>1, <2>2, <3>1 DEF Fails
  <2>3. CASE /\ engine.browser # None /\ UNCHANGED engine
             /\ call' = [call EXCEPT ![r].pc = "stopping", ![r].chrome = engine.browser]
    <3> DEFINE s == [call[r] EXCEPT !.pc = "stopping", !.chrome = engine.browser]
    <3>1. /\ s \in CallState /\ s.pc = "stopping" /\ s.chrome = engine.browser /\ engine.browser \in Chromes
          /\ call' = [call EXCEPT ![r] = s]
      BY <1>2, <2>3 DEF CallState, EngineState
    <3> HIDE DEF s
    <3>2. Respects(r, s) /\ (slots = 1 => Alone(r, s))
      BY <1>18, <1>2, <1>3, <1>4, <2>1, <2>3, <3>1 DEF Respects, Alone
    <3> QED BY <1>6, <3>1, <3>2
  <2> QED BY <1>16, <2>2, <2>3 DEF GivesUp, Breaks
<1>17. CASE Stopped(r)
  <2>1. /\ call[r].pc = "stopping" /\ call[r].chrome \in Chromes /\ Stop(call[r].chrome)
        /\ engine' = [engine EXCEPT !.browser = None, !.tab = None] /\ Fails(r, "raised")
    BY <1>3, <1>17 DEF Stopped
  <2>2. engine' \in EngineState /\ engine'.starting = engine.starting
    BY <1>2, <2>1 DEF EngineState
  <2>3. /\ chrome' \in [Chromes -> ChromeState] /\ chrome'[call[r].chrome].state # "alive"
        /\ \A c \in Chromes \ {call[r].chrome} : chrome'[c] = chrome[c]
    BY <1>2, <2>1 DEF Stop, NoProcess, ChromeState
  <2>4. slots = 1 => \A c \in Chromes : chrome'[c].state # "alive"
    BY <1>4, <2>1, <2>3
  <2>5. Keeps
    <3>1. CASE chrome' = [chrome EXCEPT ![call[r].chrome] = NoProcess]
      BY <1>2, <3>1 DEF NoProcess, Keeps
    <3>2. CASE Running(call[r].chrome) /\ chrome' = [chrome EXCEPT ![call[r].chrome].state = "stuck"]
      BY <1>2, <2>1, <3>2 DEF Running, Keeps, ChromeState
    <3> QED BY <2>1, <3>1, <3>2 DEF Stop
  <2> QED BY <1>3, <1>8, <2>1, <2>2, <2>3, <2>4, <2>5 DEF Fails
<1> QED BY <1>10, <1>11, <1>12, <1>13, <1>14, <1>15, <1>16, <1>17 DEF Fetch, FetchStep

\* A step that ends the call of r, and perhaps its task, and leaves the browser.
LEMMA EndStep ==
  ASSUME IInv, NEW r \in Rows, UNCHANGED <<engine, chrome, slots, server, stops>>,
         call[r].pc \notin {"display", "launching"},
         call' = [call EXCEPT ![r] = NoCall],
         NEW t \in [pc : {"none", "fetching", "failing"}, attempt : 0 .. MaxRetries],
         task' = [task EXCEPT ![r] = t], task[r].pc # "none"
  PROVE  Links' /\ OwnBrowser' /\ OwnPage' /\ SerialChrome'
<1> USE BrowserAssumption DEF IInv, Rows
<1>1. call \in [Urls -> CallState] /\ task \in [Urls -> [pc : {"none", "waiting", "fetching", "failing"}, attempt : 0 .. MaxRetries]]
  BY DEF TypeOK
<1>2. Links'
  BY <1>1 DEF Links, OneTask, CallsOfTasks, TasksOfServer, CallsHaveChrome, StarterLaunches, Loaded, NoCall
<1>3. OwnBrowser' /\ OwnPage' /\ SerialChrome'
  BY <1>1 DEF Serial, OwnBrowser, OwnPage, SerialChrome, NoCall, Running
<1> QED BY <1>2, <1>3

\* The other steps of a task.
LEMMA JobInv ==
  ASSUME IInv, NEW r \in Rows, JobStep(r)
  PROVE  IInv'
<1>1. TypeOK /\ r \in Rows
  BY DEF IInv
<1>2. /\ call \in [Rows -> CallState] /\ queue \in [Rows -> [status : {"ABSENT", "PENDING", "IN_PROGRESS", "DONE", "FAILED"}, retry : Nat]]
      /\ task \in [Rows -> [pc : {"none", "waiting", "fetching", "failing"}, attempt : 0 .. MaxRetries]]
      /\ stranded \subseteq Rows /\ prov \subseteq Rows \X Rows /\ MaxRetries \in Nat \ {0} /\ MaxQueueRetries \in Nat \ {0}
      /\ engine \in EngineState
  BY <1>1, LimitsAssumption DEF TypeOK, Rows
<1>3. StarterLaunches
  BY DEF IInv, Links
\* A step of a task that has no call leaves the browser alone.
<1>4. ASSUME UNCHANGED <<browserVars, slots, server, stops, prov>>, call[r].pc = "idle", task[r].pc # "none",
             NEW t \in [pc : {"none", "fetching", "failing"}, attempt : 0 .. MaxRetries],
             task' = [task EXCEPT ![r] = t],
             queue' \in [Rows -> [status : {"ABSENT", "PENDING", "IN_PROGRESS", "DONE", "FAILED"}, retry : Nat]],
             stranded' \subseteq Rows, stranded \ {r} \subseteq stranded',
             \A q \in Rows \ {r} : queue'[q] = queue[q],
             queue'[r].status = "IN_PROGRESS" => t.pc \in {"fetching", "failing"} \/ r \in stranded'
      PROVE  IInv'
  <2>1. TypeOK'
    BY <1>1, <1>2, <1>4 DEF TypeOK, browserVars
  <2>2. Links'
    BY <1>2, <1>4, BrowserAssumption DEF IInv, Links, OneTask, CallsOfTasks, TasksOfServer, CallsHaveChrome, StarterLaunches, Loaded, browserVars, Rows
  <2>3. Serial'
    BY <1>4 DEF IInv, Serial, OwnBrowser, OwnPage, SerialChrome, SerialPagesMatch, browserVars, Running
  <2>4. ErrorsDoNotStrand'
    BY <1>2, <1>4 DEF IInv, ErrorsDoNotStrand
  <2> QED BY <2>1, <2>2, <2>3, <2>4 DEF IInv
\* A step that ends a call.
<1>5. ASSUME UNCHANGED <<engine, chrome, slots, server, stops>>,
             call[r].pc \in {"returned", "raised", "crashed"}, task[r].pc = "fetching", EndCall(r),
             NEW t \in [pc : {"none", "fetching", "failing"}, attempt : 0 .. MaxRetries],
             task' = [task EXCEPT ![r] = t],
             queue' \in [Rows -> [status : {"ABSENT", "PENDING", "IN_PROGRESS", "DONE", "FAILED"}, retry : Nat]],
             stranded' \subseteq Rows, stranded \subseteq stranded', prov' \subseteq Rows \X Rows,
             \A q \in Rows \ {r} : queue'[q] = queue[q],
             queue'[r].status = "IN_PROGRESS" => t.pc \in {"fetching", "failing"} \/ r \in stranded',
             SerialPagesMatch'
      PROVE  IInv'
  <2>1. call' = [call EXCEPT ![r] = NoCall] /\ NoCall \in CallState
    BY <1>5 DEF EndCall, NoCall, CallState
  <2>2. TypeOK'
    BY <1>1, <1>2, <1>5, <2>1 DEF TypeOK, Rows
  <2>3. Links' /\ OwnBrowser' /\ OwnPage' /\ SerialChrome'
    BY <1>5, <2>1, EndStep
  <2>4. ErrorsDoNotStrand'
    BY <1>2, <1>5 DEF IInv, ErrorsDoNotStrand
  <2> QED BY <1>5, <2>2, <2>3, <2>4 DEF IInv, Serial
<1>6. task[r].pc # "fetching" => call[r].pc = "idle"
  BY DEF IInv, Links, CallsOfTasks
<1> USE DEF Environment, SetStatus, EndTask, NoTask, At
<1>7. CASE StartJob(r)
  <2> DEFINE t == [pc |-> "fetching", attempt |-> 1]
  <2>1. t \in [pc : {"none", "fetching", "failing"}, attempt : 0 .. MaxRetries] /\ t.pc = "fetching"
    BY <1>2
  <2> HIDE DEF t
  <2> QED BY <1>2, <1>4, <1>6, <1>7, <2>1 DEF StartJob, t
<1>8. NoTask \in [pc : {"none", "fetching", "failing"}, attempt : 0 .. MaxRetries] /\ NoTask.pc = "none"
  BY <1>2
<1>12. ErrorsDoNotStrand /\ SerialPagesMatch
  BY DEF IInv, Serial
<1>9. CASE StartRaises(r)
  <2>1. CASE UNCHANGED <<queue, stranded>>
    BY <1>2, <1>4, <1>6, <1>8, <1>9, <1>12, <2>1 DEF StartRaises, ErrorsDoNotStrand
  <2>2. CASE SetStatus(r, "IN_PROGRESS") /\ stranded' = stranded \cup {r}
    <3>1. /\ UNCHANGED <<browserVars, slots, server, stops, prov>> /\ task' = [task EXCEPT ![r] = NoTask]
          /\ task[r].pc = "waiting"
      BY <1>9 DEF StartRaises
    <3>2. /\ queue' \in [Rows -> [status : {"ABSENT", "PENDING", "IN_PROGRESS", "DONE", "FAILED"}, retry : Nat]]
          /\ \A q \in Rows \ {r} : queue'[q] = queue[q]
      BY <1>2, <2>2
    <3>3. r \in stranded' /\ stranded' \subseteq Rows /\ stranded \ {r} \subseteq stranded'
      BY <1>2, <2>2
    <3> QED BY <1>4, <1>6, <1>8, <3>1, <3>2, <3>3
  <2> QED BY <1>9, <2>1, <2>2 DEF StartRaises
<1>10. CASE NoScraper(r)
  <2> DEFINE t == [task[r] EXCEPT !.pc = "failing"]
  <2>1. /\ t \in [pc : {"none", "fetching", "failing"}, attempt : 0 .. MaxRetries] /\ t.pc = "failing"
        /\ task' = [task EXCEPT ![r] = t] /\ task[r].pc = "fetching"
    BY <1>2, <1>10 DEF NoScraper
  <2> HIDE DEF t
  <2> QED BY <1>2, <1>4, <1>10, <2>1 DEF NoScraper
<1>11. CASE Fetch(r)
  BY <1>11, FetchInv
<1>13. CASE Retry(r)
  <2> DEFINE t == [task[r] EXCEPT !.attempt = @ + 1]
  <2>1. /\ t \in [pc : {"none", "fetching", "failing"}, attempt : 0 .. MaxRetries] /\ t.pc = "fetching"
        /\ task' = [task EXCEPT ![r] = t] /\ task[r].pc = "fetching"
    BY <1>2, <1>13 DEF Retry
  <2> HIDE DEF t
  <2> QED BY <1>2, <1>5, <1>12, <1>13, <2>1 DEF Retry, SerialPagesMatch
<1>14. CASE ScrapeFails(r)
  <2> DEFINE t == [task[r] EXCEPT !.pc = "failing"]
  <2>1. /\ t \in [pc : {"none", "fetching", "failing"}, attempt : 0 .. MaxRetries] /\ t.pc = "failing"
        /\ task' = [task EXCEPT ![r] = t] /\ task[r].pc = "fetching"
    BY <1>2, <1>14 DEF ScrapeFails
  <2> HIDE DEF t
  <2> QED BY <1>2, <1>5, <1>12, <1>14, <2>1 DEF ScrapeFails, SerialPagesMatch
<1>15. CASE JobCrashes(r)
  BY <1>2, <1>5, <1>8, <1>12, <1>15 DEF JobCrashes, SerialPagesMatch
<1>16. CASE Settle(r)
  <2>1. call[r].page \in Urls /\ (slots = 1 => call[r].page = r)
    BY <1>2, <1>16 DEF Settle, IInv, Links, Loaded, Serial, OwnPage, CallState, Rows
  <2>2. SerialPagesMatch'
    BY <1>12, <1>16, <2>1 DEF SerialPagesMatch, Settle
  <2>3. prov' \subseteq Rows \X Rows
    BY <1>2, <1>16, <2>1 DEF Settle, Rows
  <2>4. /\ queue' \in [Rows -> [status : {"ABSENT", "PENDING", "IN_PROGRESS", "DONE", "FAILED"}, retry : Nat]]
        /\ queue'[r].status = "DONE" /\ \A q \in Rows \ {r} : queue'[q] = queue[q]
    BY <1>2, <1>16 DEF Settle
  <2>5. /\ UNCHANGED <<engine, chrome, slots, server, stops, stranded>> /\ task' = [task EXCEPT ![r] = NoTask]
        /\ call[r].pc = "returned" /\ task[r].pc = "fetching" /\ EndCall(r)
    BY <1>16 DEF Settle
  <2> QED BY <1>2, <1>5, <1>8, <2>2, <2>3, <2>4, <2>5
<1>17. CASE MarkFailed(r)
  <2> DEFINE n == queue[r].retry + 1
             row == [retry |-> n, status |-> IF n >= MaxQueueRetries THEN "FAILED" ELSE "PENDING"]
  <2>1. /\ row \in [status : {"ABSENT", "PENDING", "IN_PROGRESS", "DONE", "FAILED"}, retry : Nat]
        /\ row.status # "IN_PROGRESS"
    BY <1>2
  <2>2. queue' = [queue EXCEPT ![r] = row]
    BY <1>17 DEF MarkFailed
  <2> HIDE DEF row
  <2>3. /\ queue' \in [Rows -> [status : {"ABSENT", "PENDING", "IN_PROGRESS", "DONE", "FAILED"}, retry : Nat]]
        /\ queue'[r].status # "IN_PROGRESS" /\ \A q \in Rows \ {r} : queue'[q] = queue[q]
    BY <1>2, <2>1, <2>2
  <2>4. /\ UNCHANGED <<browserVars, slots, server, stops, prov, stranded>> /\ task' = [task EXCEPT ![r] = NoTask]
        /\ task[r].pc = "failing"
    BY <1>17 DEF MarkFailed
  <2> QED BY <1>2, <1>4, <1>6, <1>8, <2>3, <2>4
<1>18. CASE MarkFailedRaises(r)
  BY <1>2, <1>4, <1>6, <1>8, <1>18 DEF MarkFailedRaises
<1> QED BY <1>7, <1>9, <1>10, <1>11, <1>13, <1>14, <1>15, <1>16, <1>17, <1>18 DEF JobStep

\* The steps of the server and of the Chromes.
LEMMA ServerInv ==
  ASSUME IInv,
         \/ \E r \in Rows : Post(r)
         \/ RunBatch \/ Shutdown \/ Close \/ Kill \/ Restart
         \/ \E c \in Chromes : ChromeDies(c)
         \/ UNCHANGED vars
  PROVE  IInv'
<1>1. /\ call \in [Urls -> CallState] /\ queue \in [Urls -> [status : {"ABSENT", "PENDING", "IN_PROGRESS", "DONE", "FAILED"}, retry : Nat]]
      /\ task \in [Urls -> [pc : {"none", "waiting", "fetching", "failing"}, attempt : 0 .. MaxRetries]]
      /\ stranded \subseteq Urls /\ prov \subseteq Urls \X Urls /\ MaxRetries \in Nat \ {0}
      /\ engine \in EngineState /\ chrome \in [Chromes -> ChromeState] /\ slots \in 1 .. MaxSlots
      /\ MaxSlots \in Nat /\ stops \in Nat
  BY LimitsAssumption DEF IInv, TypeOK, Rows
<1> USE BrowserAssumption DEF Rows, jobVars, browserVars, Environment
<1>2. TypeOK /\ Links /\ Serial /\ ErrorsDoNotStrand
  BY DEF IInv
<1>3. ASSUME NEW r \in Rows, Post(r) PROVE IInv'
  <2>1. TypeOK' /\ ErrorsDoNotStrand'
    BY <1>1, <1>2, <1>3 DEF TypeOK, ErrorsDoNotStrand, Post, SetStatus
  <2>2. Links'
    BY <1>2, <1>3 DEF Post, Links, OneTask, CallsOfTasks, TasksOfServer, CallsHaveChrome, StarterLaunches, Loaded
  <2>3. Serial'
    BY <1>2, <1>3 DEF Post, Serial, OwnBrowser, OwnPage, SerialChrome, SerialPagesMatch, Running
  <2> QED BY <2>1, <2>2, <2>3 DEF IInv
\* The rows below the limit are one row when the limit is one.
<1>4. slots = 1 => \A r, q \in Batch : r = q
  <2>1. ASSUME slots = 1, NEW r \in Batch, NEW q \in Batch, r < q PROVE FALSE
    <3>1. IsFiniteSet({p \in Pending : p < q}) /\ r \in {p \in Pending : p < q}
      BY <2>1, RowsAssumption, FS_Subset DEF Batch, Pending
    <3>2. Cardinality({p \in Pending : p < q}) = 0
      BY <2>1, <3>1, FS_CardinalityType DEF Batch
    <3> QED BY <3>1, <3>2, FS_EmptySet
  <2>2. Batch \subseteq Nat
    BY RowsAssumption DEF Batch, Pending
  <2>3. SUFFICES ASSUME slots = 1, NEW r \in Batch, NEW q \in Batch PROVE r = q
    OBVIOUS
  <2>4. r \in Nat /\ q \in Nat /\ ~ (r < q) /\ ~ (q < r)
    BY <2>1, <2>2, <2>3
  <2> QED BY <2>4
<1>5. CASE RunBatch
  <2>1. task' \in [Urls -> [pc : {"none", "waiting", "fetching", "failing"}, attempt : 0 .. MaxRetries]]
    BY <1>1, <1>5 DEF RunBatch, NoTask
  <2>2. \A r \in Rows : task[r].pc = "none" /\ task'[r].pc \in {"none", "waiting"} /\ (task'[r].pc # "none" => r \in Batch)
    BY <1>1, <1>5 DEF RunBatch, NoTask
  <2>3. TypeOK'
    BY <1>2, <1>5, <2>1 DEF TypeOK, RunBatch
  <2>4. ErrorsDoNotStrand'
    BY <1>2, <1>5, <2>2 DEF ErrorsDoNotStrand, RunBatch
  <2>5. OneTask'
    BY <1>4, <1>5, <2>2 DEF OneTask, RunBatch
  <2>6. Links'
    BY <1>2, <1>5, <2>2, <2>5 DEF RunBatch, Links, CallsOfTasks, TasksOfServer, CallsHaveChrome, StarterLaunches, Loaded
  <2>7. Serial'
    BY <1>2, <1>5 DEF RunBatch, Serial, OwnBrowser, OwnPage, SerialChrome, SerialPagesMatch, Running
  <2> QED BY <2>3, <2>4, <2>6, <2>7 DEF IInv
<1>6. CASE Restart \/ UNCHANGED vars
  <2>1. UNCHANGED <<engine, chrome, call, queue, task, prov, stranded, slots, stops>> /\ server' \in {"up", server}
    BY <1>6 DEF Restart, vars
  <2>2. TypeOK' /\ ErrorsDoNotStrand'
    BY <1>2, <2>1 DEF TypeOK, ErrorsDoNotStrand
  <2>3. Links'
    BY <1>2, <2>1 DEF Links, OneTask, CallsOfTasks, TasksOfServer, CallsHaveChrome, StarterLaunches, Loaded
  <2>4. Serial'
    BY <1>2, <2>1 DEF Serial, OwnBrowser, OwnPage, SerialChrome, SerialPagesMatch, Running
  <2> QED BY <2>2, <2>3, <2>4 DEF IInv
<1>7. ASSUME NEW c \in Chromes, ChromeDies(c) PROVE IInv'
  <2>1. /\ chrome' = [chrome EXCEPT ![c] = NoProcess]
        /\ UNCHANGED <<engine, call, queue, task, prov, stranded, slots, server, stops>>
    BY <1>7 DEF ChromeDies, Dies
  <2>2. chrome' \in [Chromes -> ChromeState] /\ \A d \in Chromes : chrome'[d] = chrome[d] \/ chrome'[d].state = "dead"
    BY <1>1, <2>1 DEF NoProcess, ChromeState
  <2>3. TypeOK' /\ ErrorsDoNotStrand'
    BY <1>2, <2>1, <2>2 DEF TypeOK, ErrorsDoNotStrand
  <2>4. (OneTask /\ CallsOfTasks /\ TasksOfServer /\ CallsHaveChrome /\ StarterLaunches)'
    BY <1>2, <2>1 DEF Links, OneTask, CallsOfTasks, TasksOfServer, CallsHaveChrome, StarterLaunches
  <2>5. Loaded'
    BY <1>2, <2>1, <2>2 DEF Links, CallsHaveChrome, Loaded
  <2>6. Serial'
    BY <1>2, <2>1, <2>2 DEF Serial, OwnBrowser, OwnPage, SerialChrome, SerialPagesMatch, Running, Links, CallsHaveChrome
  <2> QED BY <2>3, <2>4, <2>5, <2>6 DEF IInv, Links
\* What the stops of the server have in common: no task, no call, and the rows
\* of the tasks are accounted for.
<1>8. ASSUME task' = [r \in Rows |-> NoTask], call' = [r \in Rows |-> NoCall],
             engine' \in EngineState, engine'.starting = None, chrome' \in [Chromes -> ChromeState],
             UNCHANGED <<queue, prov, slots>>, server' \in {"closing", "down"}, stops' \in Nat,
             stranded' \subseteq Rows, stranded \cup InProgress \subseteq stranded',
             slots = 1 => \A c \in Chromes : chrome'[c].state = "alive" => engine'.browser = c
      PROVE  IInv'
  <2>1. TypeOK'
    BY <1>1, <1>2, <1>8 DEF TypeOK, NoTask, NoCall, CallState
  <2>2. ErrorsDoNotStrand'
    BY <1>2, <1>8 DEF ErrorsDoNotStrand, InProgress
  <2>3. Links'
    BY <1>8 DEF Links, OneTask, CallsOfTasks, TasksOfServer, CallsHaveChrome, StarterLaunches, Loaded, NoTask, NoCall
  <2>4. Serial'
    BY <1>2, <1>8 DEF Serial, OwnBrowser, OwnPage, SerialChrome, SerialPagesMatch, NoCall
  <2> QED BY <2>1, <2>2, <2>3, <2>4 DEF IInv
<1>9. InProgress \subseteq Rows /\ (slots = 1 => \A c \in Chromes : chrome[c].state = "alive" => engine.browser = c)
  BY <1>2 DEF InProgress, Serial, SerialChrome
<1>10. CASE Shutdown
  <2>1. engine' \in EngineState /\ engine'.starting = None /\ engine'.browser = engine.browser
    BY <1>1, <1>10 DEF Shutdown, EngineState
  <2> QED BY <1>1, <1>8, <1>9, <1>10, <2>1 DEF Shutdown, DropTasks
<1>11. CASE Kill
  <2>1. chrome' \in [Chromes -> ChromeState] /\ \A c \in Chromes : chrome'[c].state # "alive"
    BY <1>1, <1>11 DEF Kill, Running, ChromeState
  <2>2. engine' \in EngineState /\ engine'.starting = None
    BY <1>11 DEF Kill, NoBrowser, EngineState
  <2> QED BY <1>1, <1>8, <1>9, <1>11, <2>1, <2>2 DEF Kill, DropTasks
<1>12. CASE Close
  <2>1. \A r \in Rows : task[r].pc = "none" /\ call[r].pc = "idle"
    BY <1>2, <1>12 DEF Close, Links, TasksOfServer, CallsOfTasks
  <2>2. UNCHANGED <<call, queue, task, prov, stranded, slots, stops>> /\ server' = "down" /\ engine' = NoBrowser
    BY <1>12 DEF Close, CloseEngine
  <2>3. chrome' \in [Chromes -> ChromeState] /\ (slots = 1 => \A c \in Chromes : chrome'[c].state # "alive")
    <3>1. CASE engine.browser = None /\ UNCHANGED chrome
      BY <1>1, <1>9, <3>1
    <3>2. CASE engine.browser # None /\ Stop(engine.browser)
      <4>1. engine.browser \in Chromes
        BY <1>1, <3>2 DEF EngineState
      <4>2. CASE chrome' = [chrome EXCEPT ![engine.browser] = NoProcess]
        BY <1>1, <1>9, <4>1, <4>2 DEF NoProcess, ChromeState
      <4>3. CASE chrome' = [chrome EXCEPT ![engine.browser].state = "stuck"]
        BY <1>1, <1>9, <4>1, <4>3 DEF ChromeState
      <4> QED BY <3>2, <4>2, <4>3 DEF Stop
    <3> QED BY <1>12, <3>1, <3>2 DEF Close, CloseEngine
  <2>4. TypeOK' /\ ErrorsDoNotStrand'
    BY <1>2, <2>2, <2>3 DEF TypeOK, ErrorsDoNotStrand, NoBrowser, EngineState
  <2>5. Links'
    BY <1>2, <2>1, <2>2 DEF Links, OneTask, CallsOfTasks, TasksOfServer, CallsHaveChrome, StarterLaunches, Loaded, NoBrowser
  <2>6. Serial'
    BY <1>2, <2>1, <2>2, <2>3 DEF Serial, OwnBrowser, OwnPage, SerialChrome, SerialPagesMatch
  <2> QED BY <2>4, <2>5, <2>6 DEF IInv
<1> QED BY <1>3, <1>5, <1>6, <1>7, <1>10, <1>11, <1>12

----------------------------------------------------------------------------
LEMMA Inductive == Spec => []IInv
<1>1. Init => IInv
  BY InitInv
<1>2. IInv /\ [Next]_vars => IInv'
  <2> SUFFICES ASSUME IInv, [Next]_vars PROVE IInv'
    OBVIOUS
  <2>1. CASE \E r \in Rows : JobStep(r)
    BY <2>1, JobInv
  <2>2. CASE ~ \E r \in Rows : JobStep(r)
    BY <2>2, ServerInv DEF Next
  <2> QED BY <2>1, <2>2
<1> QED BY <1>1, <1>2, PTL DEF Spec

\* For any rows, Chromes and limits: a row stays IN_PROGRESS only while its task
\* runs, or after a crash of the job, a lost commit or a stop of the server
\* (_process of job_loop.py).
THEOREM NothingStrands == Spec => []ErrorsDoNotStrand
<1>1. IInv => ErrorsDoNotStrand
  BY DEF IInv
<1> QED BY <1>1, Inductive, PTL

\* For any number of rows and Chromes: a server of one slot records for each row
\* the hash of the row's own page (job_loop.py, fetch of
\* pydoll_engine.py).
THEOREM PagesMatch == Spec => []SerialPagesMatch
<1>1. IInv => SerialPagesMatch
  BY DEF IInv, Serial
<1> QED BY <1>1, Inductive, PTL

\* For any rows, Chromes and limits: the state is well typed, one launch is under
\* way at a time, and a server of one slot loses no running Chrome
\* (_ensure_browser, _cleanup_browser and close of pydoll_engine.py).
THEOREM EngineCorrect == Spec => []EngineInv
<1>1. IInv => EngineInv
  BY BrowserAssumption DEF IInv, EngineInv, Serial, Links, StarterLaunches, OneLaunch
<1> QED BY <1>1, Inductive, PTL
=============================================================================
