---------------------------- MODULE ClearanceProofs ----------------------------
(***************************************************************************)
(* The invariants of Clearance and the life of the keepalive alarm, for    *)
(* any number of terminations and cookies.                                 *)
(***************************************************************************)
EXTENDS Clearance, TLAPS

----------------------------------------------------------------------------
(* The inductive invariant *)

BeforeBrowser == {"checks", "startup", "starting", "health", "probe", "browser"}

\* A service worker runs only in a browser, its handlers only in a service
\* worker, and its variables are lost with it.
ProcessInv ==
  /\ browser = "none" => ~sw.up
  /\ ~sw.up => sw = Asleep /\ task = Idle
  /\ gate \in BeforeBrowser => browser = "none"

\* Between the two reads of its configuration a poll knows the stored stop,
\* and the poll that left in spite of it leaves the stop in the variable, where
\* every later poll finds it first: no load clears it, for it is stored.
StopInv ==
  /\ stored.fatal /\ At("poll", "loadrest") => sw.fatal
  /\ At("poll", "clearing") => stored.fatal
  /\ sw.sent > 0 => /\ sw.sent = 1 /\ stored.fatal /\ sw.fatal
                    /\ task["poll"] \notin {"load", "loadrest"}

\* A handler that is about to set the alarms has loaded the configuration in
\* this life of the service worker; what it loaded may be older than the stored
\* one, but then the alarm was not created yet.
KeepInv ==
  /\ sw.config.keep => stored.config.keep
  /\ "keepalive" \in alarms => stored.config.keep
  /\ \A h \in Handlers :
       task[h] \in {"pollalarm", "keepalarm"} /\ "keepalive" \in alarms => sw.config.keep

\* The store of the harness's own server holds only what the server accepted;
\* and the finally block stops the browser first, then the server, unless a
\* Ctrl+C cut it off before.
ReportInv ==
  /\ port = "own" /\ latest # "none" => accepted
  /\ SeenWasAccepted
  /\ gate # "done" => cut = "none"
  /\ gate \in {"shutdown", "done"} /\ cut # "stop" => browser # "running"
  /\ NothingLeft

IInv == TypeOK /\ ProcessInv /\ StopInv /\ KeepInv /\ ReportInv

----------------------------------------------------------------------------
(* The steps by the state they touch *)

\* What the service worker does, without the conditions that the harness adds.
WorkerStep ==
  \/ HandlerStep \/ StorageChanged \/ PollFails \/ PollRejected
  \/ PollAlarm \/ CookieArrives \/ Terminated

LEMMA ExtensionMoves ==
  ASSUME ExtensionStep \/ ExtensionEvent
  PROVE  /\ WorkerStep /\ browser # "none"
         /\ UNCHANGED <<child, port, known, latest, accepted, gate, cut, verdict, browser, seen>>
  BY DEF ExtensionStep, ExtensionEvent, ExtensionRuns, Poll401, WorkerStep, serverVars

\* Every other step leaves the service worker and its storage alone, except
\* the start of the browser, the injection and the stop of the browser.
HarnessOnly ==
  /\ UNCHANGED <<stored, alarms, sw, task, changed, cookies, kills, browser>>
  /\ posts' \subseteq posts
  /\ gate' \in BeforeBrowser => gate \in BeforeBrowser

\* The finally block and Ctrl+C stop the browser, with its service worker, or
\* leave both.
BrowserStops ==
  /\ UNCHANGED <<stored, alarms, changed, posts, cookies, kills>>
  /\ gate' \notin BeforeBrowser
  /\ \/ BrowserGone
     \/ UNCHANGED <<sw, task>> /\ (browser' = "none" => browser = "none")

LEMMA HarnessMoves ==
  ASSUME TypeOK, Next, ~ExtensionStep, ~ExtensionEvent
  PROVE  HarnessOnly \/ BrowserStart \/ Inject \/ BrowserStops
<1> USE DEF HarnessOnly, BeforeBrowser, Unmoved, extensionVars, serverVars, Proceeds, Ends
<1>1. CASE ServerBinds \/ ServerExits
  BY <1>1 DEF ServerBinds, ServerExits
<1>4. CASE Interrupted \/ StopBrowser
  <2>1. CASE Interrupted
    BY <2>1 DEF Interrupted, BrowserStops
  <2>2. CASE StopBrowser
    BY <2>2 DEF StopBrowser, BrowserStops
  <2> QED BY <1>4, <2>1, <2>2
<1>2. CASE \E token \in posts : PostArrives(token) \/ PostLost(token)
  BY <1>2 DEF PostArrives, PostLost
<1>3. CASE HarnessStep
  <2>1. CASE Checks \/ Startup \/ Started \/ Health \/ Probe
    BY <2>1 DEF Checks, Startup, Started, Health, Probe
  <2>2. CASE CdpReady \/ InjectFails \/ Keepalive \/ Navigate \/ Observe
    BY <2>2 DEF CdpReady, InjectFails, Keepalive, Navigate, Observe
  <2>3. CASE ObserveFails \/ Expires \/ Post \/ Shutdown
    BY <2>3 DEF ObserveFails, Expires, Post, Shutdown
  <2> QED BY <1>3, <1>4, <2>1, <2>2, <2>3 DEF HarnessStep
<1> QED BY <1>1, <1>2, <1>3, <1>4 DEF Next

\* What a start of the browser and its stop do to the service worker.
LEMMA BrowserMoves ==
  ASSUME ProcessInv, BrowserStart \/ BrowserStops
  PROVE  /\ UNCHANGED <<stored, alarms, changed, posts, cookies, kills>>
         /\ \/ UNCHANGED <<sw, task>>
            \/ sw' = Asleep /\ task' = Idle
            \/ sw' = Awake /\ task' = [Idle EXCEPT !["start"] = "load"]
<1>1. CASE BrowserStart
  <2>1. browser = "none" /\ ~sw.up
    BY <1>1 DEF BrowserStart, ProcessInv, BeforeBrowser
  <2>2. task = Idle
    BY <2>1 DEF ProcessInv
  <2> QED BY <1>1, <2>2 DEF BrowserStart, BrowserStarts, Goes
<1>2. CASE BrowserStops
  BY <1>2 DEF BrowserStops, BrowserGone
<1> QED BY <1>1, <1>2

----------------------------------------------------------------------------
(* The service worker: its types and its processes *)

Worker == [up : BOOLEAN, config : Config, fatal : BOOLEAN, reacting : BOOLEAN,
           bearer : {"none", "good", "bad"}, sent : 0 .. 2]
Pcs == {"idle", "load", "loadrest", "pollalarm", "keepalarm", "fetching", "storing", "clearing"}

WorkerTypeOK ==
  /\ stored \in [config : Config, fatal : BOOLEAN]
  /\ alarms \subseteq {"poll", "keepalive"}
  /\ sw \in Worker
  /\ task \in [Handlers -> Pcs]
  /\ changed \in BOOLEAN /\ posts \subseteq {"good", "bad"}
  /\ cookies \in 0 .. MaxCookies /\ kills \in 0 .. MaxKills

LEMMA AwakeType ==
  /\ {Awake, Asleep} \subseteq Worker
  /\ {Unset, Polling, Injected} \subseteq Config
  /\ Idle \in [Handlers -> Pcs]
<1>1. {Unset, Polling, Injected} \subseteq Config
  BY DEF Config, Unset, Polling, Injected
<1>2. Awake \in Worker
  BY <1>1 DEF Awake, Worker
<1>3. Asleep \in Worker
  BY <1>2 DEF Asleep, Worker
<1> QED BY <1>1, <1>2, <1>3 DEF Idle, Pcs

\* A handler that is somewhere runs in a service worker.
LEMMA BusyIsUp ==
  ASSUME ProcessInv, NEW h \in Handlers, task[h] # "idle"
  PROVE  sw.up
  BY DEF ProcessInv, Idle

\* The second load sends at most one poll after the stop.
LEMMA LoadRestType ==
  ASSUME WorkerTypeOK, StopInv, NEW h \in Handlers, LoadRest(h)
  PROVE  /\ WorkerTypeOK'
         /\ sw'.config = stored.config /\ sw'.up = sw.up /\ sw'.fatal = sw.fatal
         /\ \/ sw'.sent = sw.sent
            \/ h = "poll" /\ stored.fatal /\ sw.fatal /\ sw.sent = 0 /\ sw'.sent = 1
         /\ task' = [task EXCEPT ![h] = task'[h]] /\ task'[h] \in {"pollalarm", "fetching", "idle"}
         /\ task'[h] = "pollalarm" => h \in {"start", "change"}
<1> DEFINE config == stored.config
           sends  == h = "poll" /\ config.token # "none" /\ config.poll
           bearer == IF sends THEN config.token ELSE sw.bearer
           sent   == IF sends /\ stored.fatal THEN sw.sent + 1 ELSE sw.sent
           offers == h = "cookie" /\ config.token # "none" /\ config.domain
           next   == IF h \in {"start", "change"} THEN "pollalarm" ELSE IF sends THEN "fetching" ELSE "idle"
<1>1. /\ task[h] = "loadrest"
      /\ sw' = [sw EXCEPT !.config = config, !.bearer = bearer, !.sent = sent]
      /\ posts' = IF offers THEN posts \cup {config.token} ELSE posts
      /\ task' = [task EXCEPT ![h] = next]
      /\ UNCHANGED <<stored, alarms, changed, cookies, kills>>
  BY DEF LoadRest, At, Goes
<1>2. config \in Config
  BY DEF WorkerTypeOK
<1>3. next \in {"pollalarm", "fetching", "idle"} /\ (next = "pollalarm" => h \in {"start", "change"})
  OBVIOUS
<1>4. /\ sends /\ stored.fatal => sw.sent = 0 /\ h = "poll" /\ sw.fatal /\ sent = 1
      /\ ~(sends /\ stored.fatal) => sent = sw.sent
      /\ sent \in 0 .. 2
  BY <1>1 DEF StopInv, At, WorkerTypeOK, Worker
<1>5. posts' \subseteq {"good", "bad"} /\ bearer \in {"none", "good", "bad"}
  BY <1>1, <1>2 DEF WorkerTypeOK, Worker, Config
<1> HIDE DEF config, sends, bearer, sent, offers, next
<1>6. /\ sw'.config = config /\ sw'.up = sw.up /\ sw'.fatal = sw.fatal /\ sw'.reacting = sw.reacting
      /\ sw'.bearer = bearer /\ sw'.sent = sent
  BY <1>1, <1>4 DEF WorkerTypeOK, Worker
<1>7. sw' \in Worker
  BY <1>1, <1>2, <1>4, <1>5 DEF WorkerTypeOK, Worker
<1>8. /\ task'[h] = next
      /\ task' = [task EXCEPT ![h] = task'[h]]
      /\ task' \in [Handlers -> Pcs]
  BY <1>1, <1>3 DEF WorkerTypeOK, Pcs
<1>9. WorkerTypeOK'
  BY <1>1, <1>5, <1>7, <1>8 DEF WorkerTypeOK
<1> QED BY <1>3, <1>4, <1>6, <1>8, <1>9 DEF config

LEMMA WorkerKeepsType ==
  ASSUME WorkerTypeOK, ProcessInv, StopInv, WorkerStep
  PROVE  WorkerTypeOK'
<1> USE AwakeType DEF WorkerTypeOK, Worker, Pcs, Goes, Quiet, At
<1>1. Woken \in Worker
  BY DEF Woken
<1>2. CASE HandlerStep
  <2>1. ASSUME NEW h \in Handlers, LoadStop(h) PROVE WorkerTypeOK'
    BY <2>1 DEF LoadStop
  <2>2. ASSUME NEW h \in Handlers, LoadRest(h) PROVE WorkerTypeOK'
    BY <2>2, LoadRestType
  <2>3. ASSUME NEW h \in Handlers, SetPollAlarm(h) PROVE WorkerTypeOK'
    BY <2>3 DEF SetPollAlarm, Turn
  <2>4. ASSUME NEW h \in Handlers, SetKeepalive(h) PROVE WorkerTypeOK'
    <3>1. alarms' \subseteq {"poll", "keepalive"} /\ task' \in [Handlers -> Pcs]
      BY <2>4 DEF SetKeepalive, Turn
    <3>2. sw' \in Worker
      BY <2>4 DEF SetKeepalive
    <3> QED BY <2>4, <3>1, <3>2 DEF SetKeepalive
  <2>5. CASE StoreStop
    BY <2>5 DEF StoreStop
  <2>6. CASE ClearKeepalive
    BY <2>6 DEF ClearKeepalive
  <2> QED BY <1>2, <2>1, <2>2, <2>3, <2>4, <2>5, <2>6 DEF HandlerStep
<1>3. CASE StorageChanged
  <2>1. [Woken EXCEPT !.reacting = TRUE]
          \in Worker
    BY <1>1
  <2>2. CASE Woken.reacting
    BY <1>3, <2>2 DEF StorageChanged
  <2>3. CASE ~Woken.reacting
    <3>1. sw' = [Woken EXCEPT !.reacting = TRUE] /\ task' = [task EXCEPT !["change"] = "load"]
      BY <1>3, <2>3 DEF StorageChanged
    <3>2. UNCHANGED <<stored, alarms, posts, cookies, kills>> /\ changed' = FALSE
      BY <1>3 DEF StorageChanged
    <3> QED BY <2>1, <3>1, <3>2
  <2> QED BY <2>2, <2>3
<1>4. CASE PollFails \/ PollRejected
  BY <1>4 DEF PollFails, PollRejected
<1>5. CASE PollAlarm
  BY <1>1, <1>5 DEF PollAlarm
<1>6. CASE CookieArrives
  <2>1. cookies' \in 0 .. MaxCookies /\ UNCHANGED kills
    BY <1>6, ExtensionAssumption DEF CookieArrives
  <2>2. sw' = Woken /\ task' \in [Handlers -> Pcs]
    BY <1>6 DEF CookieArrives
  <2> QED BY <1>1, <1>6, <2>1, <2>2 DEF CookieArrives
<1>7. CASE Terminated
  BY <1>7, ExtensionAssumption DEF Terminated
<1> QED BY <1>2, <1>3, <1>4, <1>5, <1>6, <1>7 DEF WorkerStep

----------------------------------------------------------------------------
(* The service worker: the stop and the alarm *)

\* A service worker that is not running has no handlers, before and after.
LEMMA WorkerProcess ==
  ASSUME WorkerTypeOK, ProcessInv, WorkerStep
  PROVE  ~sw'.up => sw' = Asleep /\ task' = Idle
<1> USE DEF WorkerTypeOK, Worker, Goes, At
<1>1. CASE HandlerStep \/ PollFails \/ PollRejected
  <2>1. PICK h \in Handlers : task[h] # "idle"
    BY <1>1 DEF HandlerStep, LoadStop, LoadRest, SetPollAlarm, SetKeepalive, StoreStop, ClearKeepalive,
                PollFails, PollRejected, Handlers
  <2>2. sw.up
    BY <2>1, BusyIsUp
  <2>3. CASE HandlerStep
    <3>1. ASSUME NEW k \in Handlers, LoadRest(k) PROVE sw'.up = sw.up
      <4>1. PICK bearer, sent :
               sw' = [sw EXCEPT !.config = stored.config, !.bearer = bearer, !.sent = sent]
        BY <3>1 DEF LoadRest
      <4> QED BY <4>1
    <3>2. ASSUME NEW k \in Handlers, LoadStop(k) \/ SetPollAlarm(k) \/ SetKeepalive(k) PROVE sw'.up = sw.up
      BY <3>2 DEF LoadStop, SetPollAlarm, SetKeepalive
    <3>3. CASE StoreStop \/ ClearKeepalive
      BY <2>2, <3>3 DEF StoreStop, ClearKeepalive
    <3> QED BY <2>2, <2>3, <3>1, <3>2, <3>3 DEF HandlerStep
  <2>4. CASE PollFails \/ PollRejected
    BY <2>2, <2>4 DEF PollFails, PollRejected
  <2> QED BY <1>1, <2>3, <2>4
<1>2. Woken.up
  BY DEF Woken, Awake
<1>3. CASE StorageChanged
  <2>1. CASE Woken.reacting
    <3>1. sw.up
      BY <2>1 DEF Woken, Awake
    <3> QED BY <1>3, <2>1, <3>1 DEF StorageChanged
  <2>2. CASE ~Woken.reacting
    <3>1. sw' = [Woken EXCEPT !.reacting = TRUE]
      BY <1>3, <2>2 DEF StorageChanged
    <3> QED BY <1>2, <3>1 DEF Woken, Awake
  <2> QED BY <2>1, <2>2
<1>4. CASE PollAlarm \/ CookieArrives
  BY <1>2, <1>4 DEF PollAlarm, CookieArrives
<1>5. CASE Terminated
  BY <1>5 DEF Terminated
<1> QED BY <1>1, <1>3, <1>4, <1>5 DEF WorkerStep

\* An event finds the variables as they are, or a service worker that starts
\* afresh, without handlers.
LEMMA WakeUp ==
  ASSUME WorkerTypeOK, ProcessInv
  PROVE  Woken = sw \/ (Woken = Awake /\ task = Idle)
  BY DEF Woken, ProcessInv

LEMMA WorkerStop ==
  ASSUME WorkerTypeOK, ProcessInv, StopInv, WorkerStep
  PROVE  StopInv'
<1> USE DEF WorkerTypeOK, Worker, StopInv, Goes, At, Quiet
<1>1. CASE HandlerStep
  <2>1. ASSUME NEW h \in Handlers, LoadStop(h) PROVE StopInv'
    BY <2>1 DEF LoadStop
  <2>2. ASSUME NEW h \in Handlers, LoadRest(h) PROVE StopInv'
    <3>1. UNCHANGED stored /\ task[h] = "loadrest"
      BY <2>2 DEF LoadRest
    <3>2. /\ sw'.fatal = sw.fatal
          /\ \/ sw'.sent = sw.sent
             \/ h = "poll" /\ stored.fatal /\ sw.fatal /\ sw.sent = 0 /\ sw'.sent = 1
          /\ task' = [task EXCEPT ![h] = task'[h]] /\ task'[h] \in {"pollalarm", "fetching", "idle"}
      BY <2>2, LoadRestType
    <3>3. CASE h = "poll"
      <4>1. task'["poll"] \in {"pollalarm", "fetching", "idle"}
        BY <3>2, <3>3
      <4>2. sw'.sent > 0 => sw'.sent = 1 /\ stored.fatal /\ sw.fatal
        BY <3>1, <3>2, <3>3
      <4> QED BY <3>1, <3>2, <4>1, <4>2
    <3>4. CASE h # "poll"
      <4>1. task'["poll"] = task["poll"]
        BY <3>2, <3>4 DEF Handlers
      <4>2. UNCHANGED <<sw.sent, sw.fatal>>
        BY <3>2, <3>4
      <4> QED BY <3>1, <4>1, <4>2
    <3> QED BY <3>3, <3>4
  <2>3. ASSUME NEW h \in Handlers, SetPollAlarm(h) PROVE StopInv'
    BY <2>3 DEF SetPollAlarm
  <2>6. ASSUME NEW h \in Handlers, SetKeepalive(h) PROVE StopInv'
    <3>1. UNCHANGED <<stored, sw.fatal, sw.sent>> /\ task' = [task EXCEPT ![h] = "idle"]
      BY <2>6 DEF SetKeepalive
    <3> QED BY <3>1 DEF Handlers
  <2>4. CASE StoreStop
    BY <2>4 DEF StoreStop
  <2>5. CASE ClearKeepalive
    BY <2>5 DEF ClearKeepalive
  <2> QED BY <1>1, <2>1, <2>2, <2>3, <2>4, <2>5, <2>6 DEF HandlerStep
<1>2. CASE StorageChanged
  <2>1. CASE Woken.reacting
    BY <1>2, <2>1 DEF StorageChanged
  <2>2. CASE ~Woken.reacting
    <3>1. sw' = [Woken EXCEPT !.reacting = TRUE] /\ task' = [task EXCEPT !["change"] = "load"] /\ UNCHANGED stored
      BY <1>2, <2>2 DEF StorageChanged
    <3>2. CASE Woken = sw
      BY <3>1, <3>2 DEF Handlers
    <3>3. CASE Woken = Awake /\ task = Idle
      BY <3>1, <3>3 DEF Handlers, Awake, Idle
    <3> QED BY <3>2, <3>3, WakeUp
  <2> QED BY <2>1, <2>2
<1>3. CASE PollFails \/ PollRejected
  BY <1>3 DEF PollFails, PollRejected
<1>4. CASE PollAlarm
  <2>1. CASE Woken = sw
    BY <1>4, <2>1 DEF PollAlarm, Handlers
  <2>2. CASE Woken = Awake
    BY <1>4, <2>2 DEF PollAlarm, Handlers, Awake
  <2> QED BY <2>1, <2>2, WakeUp
<1>5. CASE CookieArrives
  <2>1. CASE Woken = sw
    BY <1>5, <2>1 DEF CookieArrives, Handlers
  <2>2. CASE Woken = Awake /\ task = Idle
    BY <1>5, <2>2 DEF CookieArrives, Handlers, Awake, Idle
  <2> QED BY <2>1, <2>2, WakeUp
<1>6. CASE Terminated
  BY <1>6, AwakeType DEF Terminated, Idle, Asleep, Awake, Handlers
<1> QED BY <1>1, <1>2, <1>3, <1>4, <1>5, <1>6 DEF WorkerStep

LEMMA WorkerKeep ==
  ASSUME WorkerTypeOK, ProcessInv, StopInv, KeepInv, WorkerStep
  PROVE  KeepInv'
<1> USE DEF WorkerTypeOK, Worker, KeepInv, Goes, At, Quiet, Turn
<1>1. CASE HandlerStep
  <2>1. ASSUME NEW h \in Handlers, LoadStop(h) PROVE KeepInv'
    <3>1. UNCHANGED <<stored, alarms, sw.config>> /\ task' = [task EXCEPT ![h] = "loadrest"]
      BY <2>1 DEF LoadStop
    <3> QED BY <3>1
  <2>2. ASSUME NEW h \in Handlers, LoadRest(h) PROVE KeepInv'
    <3>1. UNCHANGED <<stored, alarms>>
      BY <2>2 DEF LoadRest
    <3>2. sw'.config = stored.config
      BY <2>2, LoadRestType
    <3> QED BY <3>1, <3>2
  <2>3. ASSUME NEW h \in Handlers, SetPollAlarm(h) PROVE KeepInv'
    <3>1. UNCHANGED <<stored, sw>> /\ task' = [task EXCEPT ![h] = "keepalarm"] /\ task[h] = "pollalarm"
      BY <2>3 DEF SetPollAlarm
    <3>2. "keepalive" \in alarms' <=> "keepalive" \in alarms
      BY <2>3 DEF SetPollAlarm
    <3> QED BY <3>1, <3>2
  <2>4. ASSUME NEW h \in Handlers, SetKeepalive(h) PROVE KeepInv'
    <3>1. UNCHANGED <<stored, sw.config>>
      BY <2>4 DEF SetKeepalive
    <3>2. "keepalive" \in alarms' => sw.config.keep
      BY <2>4 DEF SetKeepalive
    <3> QED BY <3>1, <3>2
  <2>5. CASE StoreStop
    <3>1. UNCHANGED <<stored.config, alarms, sw>> /\ task' = [task EXCEPT !["poll"] = "clearing"]
      BY <2>5 DEF StoreStop
    <3> QED BY <3>1
  <2>6. CASE ClearKeepalive
    <3>1. UNCHANGED <<stored, sw>> /\ "keepalive" \notin alarms'
      BY <2>6 DEF ClearKeepalive
    <3> QED BY <3>1
  <2> QED BY <1>1, <2>1, <2>2, <2>3, <2>4, <2>5, <2>6 DEF HandlerStep
<1>2. CASE StorageChanged
  <2>1. CASE Woken.reacting
    BY <1>2, <2>1 DEF StorageChanged
  <2>2. CASE ~Woken.reacting
    <3>1. /\ sw' = [Woken EXCEPT !.reacting = TRUE] /\ task' = [task EXCEPT !["change"] = "load"]
          /\ UNCHANGED <<stored, alarms>>
      BY <1>2, <2>2 DEF StorageChanged
    <3>2. CASE Woken = sw
      BY <3>1, <3>2
    <3>3. CASE Woken = Awake /\ task = Idle
      BY <3>1, <3>3 DEF Awake, Idle, Unset
    <3> QED BY <3>2, <3>3, WakeUp
  <2> QED BY <2>1, <2>2
<1>3. CASE PollFails \/ PollRejected
  <2>1. /\ UNCHANGED <<stored, alarms, sw.config>>
        /\ \E pc \in {"idle", "storing"} : task' = [task EXCEPT !["poll"] = pc]
    BY <1>3 DEF PollFails, PollRejected
  <2> QED BY <2>1
<1>4. CASE PollAlarm \/ CookieArrives
  <2>1. /\ UNCHANGED <<stored, alarms>> /\ sw' = Woken
        /\ \E h \in Handlers, pc \in {"idle", "load"} : task' = [task EXCEPT ![h] = pc]
    BY <1>4 DEF PollAlarm, CookieArrives, Handlers
  <2>2. CASE Woken = sw
    BY <2>1, <2>2
  <2>3. CASE Woken = Awake /\ task = Idle
    BY <2>1, <2>3 DEF Awake, Idle, Unset
  <2> QED BY <2>2, <2>3, WakeUp
<1>5. CASE Terminated
  <2>1. sw' = Asleep /\ task' = Idle /\ UNCHANGED <<stored, alarms>>
    BY <1>5 DEF Terminated
  <2> QED BY <2>1 DEF Asleep, Awake, Unset, Idle
<1> QED BY <1>1, <1>2, <1>3, <1>4, <1>5 DEF WorkerStep

\* The alarm goes with the configuration that lacks it, or with the stop.
LEMMA WorkerClears ==
  ASSUME WorkerTypeOK, StopInv, KeepInv, WorkerStep, "keepalive" \in alarms, "keepalive" \notin alarms'
  PROVE  stored.fatal
<1>1. CASE HandlerStep
  <2>1. ASSUME NEW h \in Handlers, SetKeepalive(h) PROVE stored.fatal
    BY <2>1 DEF SetKeepalive, KeepInv, Turn, At
  <2>2. CASE ClearKeepalive
    BY <2>2 DEF ClearKeepalive, StopInv
  <2> QED BY <1>1, <2>1, <2>2
         DEF HandlerStep, LoadStop, LoadRest, SetPollAlarm, Turn, StoreStop, Quiet
<1>2. CASE ~HandlerStep
  BY <1>2 DEF WorkerStep, StorageChanged, PollFails, PollRejected, PollAlarm, CookieArrives, Terminated, Quiet
<1> QED BY <1>1, <1>2

----------------------------------------------------------------------------
(* The harness *)

HarnessTypeOK ==
  /\ gate \in Gates /\ cut \in {"none", "stop", "shutdown"} /\ verdict \in {"none", "BLOCKED", "FAIL"}
  /\ {child, browser} \subseteq Process /\ port \in {"free", "own", "foreign"}
  /\ known \in BOOLEAN /\ latest \in Lifetime /\ accepted \in BOOLEAN
  /\ seen \in [by : {"none", "own", "foreign"}, life : Lifetime]

LEMMA TypeParts ==
  /\ TypeOK <=> WorkerTypeOK /\ HarnessTypeOK
  /\ TypeOK' <=> WorkerTypeOK' /\ HarnessTypeOK'
  BY DEF TypeOK, WorkerTypeOK, HarnessTypeOK, Pcs, Worker

LEMMA HarnessKeepsType ==
  ASSUME TypeOK, ProcessInv, Next, ~ExtensionStep, ~ExtensionEvent
  PROVE  TypeOK'
<1> WorkerTypeOK /\ HarnessTypeOK
  BY TypeParts
<1> SUFFICES WorkerTypeOK' /\ HarnessTypeOK'
  BY TypeParts
<1>a. WorkerTypeOK'
  <2>1. CASE HarnessOnly
    BY <2>1 DEF HarnessOnly, WorkerTypeOK
  <2>2. CASE BrowserStart \/ BrowserStops
    <3>1. /\ sw' \in Worker
          /\ task' \in [Handlers -> Pcs]
      BY <2>2, BrowserMoves, AwakeType DEF Pcs, WorkerTypeOK
    <3> QED BY <2>2, <3>1, BrowserMoves DEF WorkerTypeOK
  <2>3. CASE Inject
    BY <2>3, AwakeType DEF Inject, WorkerTypeOK
  <2> QED BY <2>1, <2>2, <2>3, HarnessMoves
<1>b. HarnessTypeOK'
  <2> USE DEF HarnessTypeOK, Process, Lifetime, Gates, Unmoved, serverVars, Proceeds, Ends,
              BrowserGone, ServerGone
  <2>1. CASE ServerBinds \/ ServerExits
    BY <2>1 DEF ServerBinds, ServerExits
  <2>11. CASE Interrupted
    <3>1. gate' \in Gates /\ cut' \in {"none", "stop", "shutdown"}
      BY <2>11 DEF Interrupted
    <3>2. {child', browser'} \subseteq Process /\ port' \in {"free", "own", "foreign"}
      BY <2>11 DEF Interrupted
    <3> QED BY <2>11, <3>1, <3>2 DEF Interrupted
  <2>2. ASSUME NEW token \in posts, PostArrives(token) PROVE HarnessTypeOK'
    BY <2>2 DEF PostArrives, AcceptPost, Answers, Knows
  <2>3. ASSUME NEW token \in posts, PostLost(token) PROVE HarnessTypeOK'
    BY <2>3 DEF PostLost
  <2>4. CASE Checks \/ Startup \/ Started \/ Health \/ Probe
    BY <2>4 DEF Checks, Startup, Started, Health, Probe
  <2>5. CASE CdpReady \/ Inject \/ InjectFails
    BY <2>5 DEF CdpReady, Inject, InjectFails
  <2>6. CASE Keepalive \/ Navigate \/ ObserveFails \/ Expires \/ Post
    BY <2>6 DEF Keepalive, Navigate, ObserveFails, Expires, Post
  <2>7. CASE Observe
    BY <2>7 DEF Observe, Answers
  <2>8. CASE StopBrowser
    BY <2>8 DEF StopBrowser
  <2>9. CASE Shutdown
    BY <2>9 DEF Shutdown
  <2>10. CASE BrowserStart
    <3>1. browser' \in Process /\ gate' \in Gates /\ verdict' \in {"none", "BLOCKED", "FAIL"}
      BY <2>10 DEF BrowserStart
    <3> QED BY <2>10, <3>1 DEF BrowserStart
  <2> QED
    BY <2>1, <2>2, <2>3, <2>4, <2>5, <2>6, <2>7, <2>8, <2>9, <2>10, <2>11 DEF Next, HarnessStep
<1> QED BY <1>a, <1>b

\* What the harness's own server accepted, and what the finally block stops.
LEMMA HarnessReports ==
  ASSUME TypeOK, ReportInv, [Next]_vars
  PROVE  ReportInv'
<1> USE DEF ReportInv, SeenWasAccepted, NothingLeft, Unmoved, extensionVars, serverVars, Proceeds, Ends,
            BrowserGone, ServerGone, TypeOK
<1>1. CASE UNCHANGED vars
  BY <1>1 DEF vars
<1>2. CASE ExtensionStep \/ ExtensionEvent
  BY <1>2, ExtensionMoves
<1>3. CASE ServerBinds \/ ServerExits \/ Interrupted
  BY <1>3 DEF ServerBinds, ServerExits, Interrupted
<1>4. ASSUME NEW token \in posts, PostArrives(token) PROVE ReportInv'
  BY <1>4 DEF PostArrives, AcceptPost
<1>5. ASSUME NEW token \in posts, PostLost(token) PROVE ReportInv'
  BY <1>5 DEF PostLost
<1>6. CASE HarnessStep
  <2>1. CASE Checks \/ Startup \/ Started \/ Health \/ Probe \/ BrowserStart \/ CdpReady
    BY <2>1 DEF Checks, Startup, Started, Health, Probe, BrowserStart, CdpReady
  <2>2. CASE Inject \/ InjectFails \/ Keepalive \/ Navigate \/ ObserveFails \/ Expires \/ Post
    BY <2>2 DEF Inject, InjectFails, Keepalive, Navigate, ObserveFails, Expires, Post
  <2>3. CASE Observe
    BY <2>3 DEF Observe
  <2>4. CASE StopBrowser
    BY <2>4 DEF StopBrowser
  <2>5. CASE Shutdown
    BY <2>5 DEF Shutdown
  <2> QED BY <1>6, <2>1, <2>2, <2>3, <2>4, <2>5 DEF HarnessStep
<1> QED BY <1>1, <1>2, <1>3, <1>4, <1>5, <1>6 DEF Next

----------------------------------------------------------------------------
(* The theorems *)

LEMMA InitInv == Init => IInv
<1> SUFFICES ASSUME Init PROVE IInv
  OBVIOUS
<1> USE DEF Init
<1>1. WorkerTypeOK
  <2>1. PICK profile \in {Unset, Polling, Injected}, fatal \in BOOLEAN :
          /\ stored = [config |-> profile, fatal |-> fatal /\ profile # Unset]
          /\ alarms = CASE profile = Unset -> {} [] profile = Polling -> {"poll"} [] OTHER -> {"keepalive"}
    OBVIOUS
  <2>2. stored \in [config : Config, fatal : BOOLEAN]
    BY <2>1, AwakeType
  <2>3. alarms \subseteq {"poll", "keepalive"}
    BY <2>1
  <2>4. cookies \in 0 .. MaxCookies /\ kills \in 0 .. MaxKills
    BY ExtensionAssumption
  <2>5. sw = Asleep /\ task = Idle /\ changed \in BOOLEAN /\ posts \subseteq {"good", "bad"}
    OBVIOUS
  <2> HIDE DEF Init
  <2> QED BY <2>2, <2>3, <2>4, <2>5, AwakeType DEF WorkerTypeOK
<1>2. HarnessTypeOK
  BY DEF HarnessTypeOK, Gates, Process, Lifetime, Nothing
<1>3. sw = Asleep /\ task = Idle
  OBVIOUS
<1>4. ProcessInv
  BY <1>3 DEF ProcessInv, Asleep, Awake
<1>5. StopInv
  BY <1>3 DEF StopInv, Asleep, Awake, Idle, Handlers, At
<1>6. KeepInv
  <2>1. PICK profile \in {Unset, Polling, Injected} :
          /\ stored.config = profile
          /\ alarms = CASE profile = Unset -> {} [] profile = Polling -> {"poll"} [] OTHER -> {"keepalive"}
    OBVIOUS
  <2>2. "keepalive" \in alarms => stored.config.keep
    BY <2>1 DEF Unset, Polling, Injected
  <2> QED BY <1>3, <2>2 DEF KeepInv, Asleep, Awake, Unset, Idle
<1>7. ReportInv
  BY DEF ReportInv, SeenWasAccepted, NothingLeft, Nothing
<1> QED BY <1>1, <1>2, <1>4, <1>5, <1>6, <1>7, TypeParts DEF IInv

LEMMA StepInv == IInv /\ [Next]_vars => IInv'
<1> SUFFICES ASSUME IInv, [Next]_vars PROVE IInv'
  OBVIOUS
<1> USE DEF IInv
<1>0. ReportInv'
  BY HarnessReports
<1>1. CASE UNCHANGED vars
  BY <1>0, <1>1
     DEF vars, extensionVars, TypeOK, ProcessInv, StopInv, KeepInv, At
<1>2. CASE ExtensionStep \/ ExtensionEvent
  <2>1. /\ WorkerStep /\ browser # "none"
        /\ UNCHANGED <<child, port, known, latest, accepted, gate, cut, verdict, browser, seen>>
    BY <1>2, ExtensionMoves
  <2>2. WorkerTypeOK /\ HarnessTypeOK
    BY TypeParts
  <2>3. WorkerTypeOK' /\ StopInv' /\ KeepInv'
    BY <2>1, <2>2, WorkerKeepsType, WorkerStop, WorkerKeep
  <2>4. HarnessTypeOK'
    BY <2>1, <2>2 DEF HarnessTypeOK
  <2>5. ProcessInv'
    <3>1. ~sw'.up => sw' = Asleep /\ task' = Idle
      BY <2>1, <2>2, WorkerProcess
    <3> QED BY <2>1, <3>1 DEF ProcessInv
  <2> QED BY <1>0, <2>3, <2>4, <2>5, TypeParts
<1>3. CASE Next /\ ~ExtensionStep /\ ~ExtensionEvent
  <2>1. TypeOK'
    BY <1>3, HarnessKeepsType
  <2>2. CASE HarnessOnly
    BY <1>0, <2>1, <2>2 DEF HarnessOnly, ProcessInv, StopInv, KeepInv, At
  <2>3. CASE BrowserStart \/ BrowserStops
    <3>1. /\ UNCHANGED <<stored, alarms>>
          /\ \/ UNCHANGED <<sw, task>>
             \/ sw' = Asleep /\ task' = Idle
             \/ sw' = Awake /\ task' = [Idle EXCEPT !["start"] = "load"]
      BY <2>3, BrowserMoves
    <3>2. gate' \notin BeforeBrowser /\ (browser' = "none" => ~sw'.up)
      <4>1. CASE BrowserStart
        <5>1. browser = "none" /\ ~sw.up
          BY <4>1 DEF BrowserStart, ProcessInv, BeforeBrowser
        <5> QED BY <4>1, <5>1 DEF BrowserStart, BeforeBrowser, Proceeds, Ends
      <4>2. CASE BrowserStops
        <5>1. ~Asleep.up
          BY DEF Asleep, Awake
        <5> QED BY <4>2, <5>1 DEF BrowserStops, BrowserGone, ProcessInv
      <4> QED BY <2>3, <4>1, <4>2
    <3>3. CASE UNCHANGED <<sw, task>>
      BY <1>0, <2>1, <3>1, <3>2, <3>3 DEF ProcessInv, StopInv, KeepInv, At
    <3>4. CASE sw' = Asleep /\ task' = Idle
      BY <1>0, <2>1, <3>1, <3>2, <3>4
         DEF ProcessInv, StopInv, KeepInv, At, Asleep, Awake, Unset, Idle, Handlers
    <3>5. CASE sw' = Awake /\ task' = [Idle EXCEPT !["start"] = "load"]
      BY <1>0, <2>1, <3>1, <3>2, <3>5
         DEF ProcessInv, StopInv, KeepInv, At, Awake, Unset, Idle, Handlers
    <3> QED BY <3>1, <3>3, <3>4, <3>5
  <2>4. CASE Inject
    <3>1. stored'.config.keep /\ stored'.fatal = stored.fatal
      BY <2>4 DEF Inject, TypeOK, Injected
    <3>2. UNCHANGED <<alarms, sw, task, browser>> /\ gate' \notin BeforeBrowser
      BY <2>4 DEF Inject, BeforeBrowser, Proceeds, Ends
    <3>3. ProcessInv' /\ StopInv'
      BY <3>1, <3>2 DEF ProcessInv, StopInv, At
    <3>4. KeepInv'
      BY <3>1, <3>2 DEF KeepInv
    <3> QED BY <1>0, <2>1, <3>3, <3>4
  <2> QED BY <1>3, <2>2, <2>3, <2>4, HarnessMoves
<1> QED BY <1>1, <1>2, <1>3

LEMMA InvCorrect == Spec => []IInv
<1>1. Init => IInv
  BY InitInv
<1>2. IInv /\ [Next]_vars => IInv'
  BY StepInv
<1> QED BY <1>1, <1>2, PTL DEF Spec

\* Whatever gate ends the run, in whatever state the extension, the server and
\* the port are: a finally block that no Ctrl+C cuts off leaves no process behind
\* that did not survive its own stop, and one that is cut off in the stop of the
\* server has stopped the browser; and a clearance that gate 12 observed on the
\* harness's own server was accepted by it.
THEOREM HarnessCorrect == Spec => []HarnessInv
<1>1. IInv => HarnessInv
  BY DEF IInv, ReportInv, HarnessInv
<1> QED BY <1>1, InvCorrect, PTL

\* However handlers overlap and however often the service worker is terminated,
\* in one of its lives at most one poll leaves after the stop was stored.
THEOREM OnePollCorrect == Spec => []OnePollPerLife
<1>1. IInv => OnePollPerLife
  BY DEF IInv, StopInv, OnePollPerLife, TypeOK
<1> QED BY <1>1, InvCorrect, PTL

\* No restart, no overlap of handlers and no injection takes the keepalive alarm
\* away: only the stop does, or a stored configuration without the keepalive.
THEOREM KeepaliveCorrect == Spec => KeepaliveStays
<1>1. IInv /\ [Next]_vars
        => [("keepalive" \in alarms /\ "keepalive" \notin alarms')
              => (~stored.config.keep \/ stored.fatal)]_vars
  <2> SUFFICES ASSUME IInv, Next, "keepalive" \in alarms, "keepalive" \notin alarms'
               PROVE  stored.fatal
    BY DEF vars, extensionVars
  <2> USE DEF IInv
  <2>1. CASE ExtensionStep \/ ExtensionEvent
    <3>1. WorkerStep
      BY <2>1, ExtensionMoves
    <3> QED BY <3>1, WorkerClears, TypeParts
  <2>2. CASE ~ExtensionStep /\ ~ExtensionEvent
    <3>1. UNCHANGED alarms
      BY <2>2, HarnessMoves, BrowserMoves DEF HarnessOnly, Inject
    <3> QED BY <3>1
  <2> QED BY <2>1, <2>2
<1> QED BY <1>1, InvCorrect, PTL DEF Spec, KeepaliveStays
=============================================================================
