------------------------------ MODULE Clearance ------------------------------
(***************************************************************************)
(* `sportcrawl smoke-clearance --real-clearance`: the gates of             *)
(* RealClearanceHarness, the work server it starts, the browser with the   *)
(* extension, and the clearance store of the server.  The checks before    *)
(* the first service are one step.  The server listens on a fixed port,    *)
(* where an operator's work server may be running already.                 *)
(***************************************************************************)
EXTENDS Extension

VARIABLES
  gate,      \* the gate the harness is at
  cut,       \* history: the step of the finally block that Ctrl+C ended
  verdict,   \* the status of the report
  child,     \* the process of the work server
  port,      \* who listens on the port
  known,     \* the token of who listens is the harness's
  latest,    \* the clearance store of who listens: none, or how long it lasts
  browser,   \* the process of the browser
  accepted,  \* history: the harness's own server accepted a clearance
  seen       \* what the observer returned, and from which server

vars == <<extensionVars, gate, cut, verdict, child, port, known, latest, browser, accepted, seen>>
serverVars == <<child, port, known, latest, accepted>>

Gates == {"checks", "startup", "starting", "health", "probe", "browser", "cdp", "inject", "keepalive",
          "navigate", "observe", "expires", "post", "stop", "shutdown", "done"}
\* stuck: the process survived its stop.  short: at most five minutes are left.
Process == {"none", "running", "stuck"}
Lifetime == {"none", "short", "long"}
Nothing == [by |-> "none", life |-> "none"]

Init ==
  /\ \E profile \in {Unset, Polling, Injected}, fatal \in BOOLEAN :
       /\ stored = [config |-> profile, fatal |-> fatal /\ profile # Unset]
       /\ alarms = CASE profile = Unset -> {} [] profile = Polling -> {"poll"} [] OTHER -> {"keepalive"}
  /\ sw = Asleep /\ task = Idle /\ changed = FALSE
  /\ posts = {} /\ cookies = 0 /\ kills = 0
  /\ gate = "checks" /\ cut = "none" /\ verdict = "none" /\ child = "none" /\ browser = "none"
  /\ \/ port = "free" /\ known = TRUE /\ latest = "none"
     \/ port = "foreign" /\ known \in BOOLEAN /\ latest \in {"none", "short"}
  /\ accepted = FALSE /\ seen = Nothing

----------------------------------------------------------------------------
(* The work server *)

\* It binds the port, or finds it taken and exits.
ServerBinds ==
  /\ child = "running" /\ port = "free"
  /\ port' = "own" /\ known' = TRUE /\ latest' = "none"
  /\ UNCHANGED <<extensionVars, gate, cut, verdict, child, browser, accepted, seen>>

ServerExits ==
  /\ child = "running" /\ port # "own"
  /\ child' = "none"
  /\ UNCHANGED <<extensionVars, gate, cut, verdict, port, known, latest, browser, accepted, seen>>

Answers == port # "free"
Knows(token) == known /\ token = "good"

\* bearer_auth_middleware and _post_clearance: the store keeps the last POST.
AcceptPost(token) ==
  IF Knows(token)
  THEN /\ accepted' = (accepted \/ port = "own")
       /\ latest' \in Lifetime \ {"none"}
  ELSE UNCHANGED <<accepted, latest>>

\* A POST arrives, or the network loses it: it is sent once.
PostArrives(token) ==
  /\ token \in posts /\ posts' = posts \ {token}
  /\ IF Answers THEN AcceptPost(token) ELSE UNCHANGED <<accepted, latest>>
  /\ UNCHANGED <<stored, alarms, sw, task, changed, cookies, kills,
                 gate, cut, verdict, child, port, known, browser, seen>>

PostLost(token) ==
  /\ token \in posts /\ posts' = posts \ {token}
  /\ UNCHANGED <<stored, alarms, sw, task, changed, cookies, kills>>
  /\ UNCHANGED <<serverVars, gate, cut, verdict, browser, seen>>

----------------------------------------------------------------------------
(* The browser and its extension *)

ExtensionRuns(step) ==
  /\ browser # "none" /\ step
  /\ UNCHANGED <<serverVars, gate, cut, verdict, browser, seen>>

\* The server judges the token that the poll took along.
Poll401 == Answers /\ ~Knows(sw.bearer) /\ PollRejected

ExtensionStep ==
  \/ ExtensionRuns(HandlerStep) \/ ExtensionRuns(StorageChanged)
  \/ ExtensionRuns(PollFails) \/ ExtensionRuns(Poll401)

ExtensionEvent ==
  \/ ExtensionRuns(PollAlarm) \/ ExtensionRuns(CookieArrives) \/ ExtensionRuns(Terminated)

----------------------------------------------------------------------------
(* The gates *)

\* Every early return runs the finally block.
Ends(status) == gate' = "stop" /\ verdict' = status /\ UNCHANGED cut
Proceeds(g) == gate' = g /\ UNCHANGED <<cut, verdict>>

Unmoved == UNCHANGED <<extensionVars, serverVars, browser, seen>>

\* Gates 1 to 6: providers, loopback, CI, token source, redaction, target.
Checks ==
  /\ gate = "checks"
  /\ \/ Proceeds("startup") \/ Ends("BLOCKED") \/ Ends("FAIL")
  /\ Unmoved

\* Popen; then the health URL is polled.
Startup ==
  /\ gate = "startup" /\ child = "none"
  /\ \/ child' = "running" /\ Proceeds("starting")
     \/ UNCHANGED child /\ Ends("BLOCKED")
  /\ UNCHANGED <<extensionVars, port, known, latest, accepted, browser, seen>>

\* Whoever listens answers 200; or the deadline passes.
Started ==
  /\ gate = "starting"
  /\ \/ Answers /\ Proceeds("health")
     \/ Ends("BLOCKED")
  /\ Unmoved

Health ==
  /\ gate = "health"
  /\ IF Answers THEN Proceeds("probe") ELSE Ends("BLOCKED")
  /\ Unmoved

\* A POST with a wrong token must be answered 401.
Probe ==
  /\ gate = "probe"
  /\ IF Answers THEN Proceeds("browser") ELSE Ends("BLOCKED")
  /\ Unmoved

\* The engine starts, or raises with or without a process.
BrowserStart ==
  /\ gate = "browser"
  /\ \/ browser' = "running" /\ Proceeds("cdp")
     \/ browser' \in {"none", "running"} /\ Ends("BLOCKED")
  /\ IF browser' = "none" THEN UNCHANGED <<sw, task>> ELSE BrowserStarts
  /\ UNCHANGED <<stored, alarms, changed, posts, cookies, kills, serverVars, seen>>

CdpReady ==
  /\ gate = "cdp"
  /\ Proceeds("inject") \/ Ends("BLOCKED")
  /\ Unmoved

\* The write goes through the service worker; the gate may fail after it.
Inject ==
  /\ gate = "inject" /\ sw.up
  /\ stored' = [stored EXCEPT !.config = Injected]
  /\ changed' = (changed \/ stored.config # Injected)
  /\ Proceeds("keepalive") \/ Ends("BLOCKED")
  /\ UNCHANGED <<alarms, sw, task, posts, cookies, kills, serverVars, browser, seen>>

InjectFails ==
  /\ gate = "inject"
  /\ Ends("BLOCKED")
  /\ Unmoved

\* read_extension_alarm: no answer without a service worker.
AlarmSeen == sw.up /\ "keepalive" \in alarms

\* Seven reads of the alarm.
Keepalive ==
  /\ gate = "keepalive"
  /\ \/ AlarmSeen /\ Proceeds("navigate")
     \/ Ends("BLOCKED")
  /\ Unmoved

Navigate ==
  /\ gate = "navigate"
  /\ Proceeds("observe") \/ Ends("BLOCKED")
  /\ Unmoved

\* GET /api/clearance/latest answers 200.
Observe ==
  /\ gate = "observe" /\ Answers /\ known /\ latest # "none"
  /\ Proceeds("expires")
  /\ seen' = [by |-> port, life |-> latest]
  /\ UNCHANGED <<extensionVars, serverVars, browser>>

\* Mutant: the observer has no deadline.
ObserveFails_NoDeadline ==
  /\ gate = "observe" /\ (~Answers \/ ~known)
  /\ Ends("BLOCKED")
  /\ Unmoved
\* 401, no connection, or the deadline.
ObserveFails ==
  /\ gate = "observe"
  /\ Ends("BLOCKED")
  /\ Unmoved

\* At most five minutes, and not yet over when the gate looks.
Expires ==
  /\ gate = "expires"
  /\ \/ seen.life = "short" /\ Proceeds("post")
     \/ Ends("BLOCKED")
  /\ Unmoved

\* The server's answer has no clearance_class, so the client raises ValueError.
Post ==
  /\ gate = "post"
  /\ Ends("FAIL")
  /\ Unmoved

----------------------------------------------------------------------------
(* The finally block *)

BrowserGone == browser' = "none" /\ sw' = Asleep /\ task' = Idle
ServerGone == child' = "none" /\ port' = IF port = "own" THEN "free" ELSE port

\* Mutant: an error of the first stop skips the second.
StopBrowser_Raises ==
  /\ gate = "stop"
  /\ \/ BrowserGone /\ gate' = "shutdown"
     \/ browser = "running" /\ browser' = "stuck" /\ UNCHANGED <<sw, task>> /\ gate' = "done"
  /\ UNCHANGED <<stored, alarms, changed, posts, cookies, kills, serverVars, cut, verdict, seen>>
\* close() swallows its errors; the process may survive it.
StopBrowser ==
  /\ gate = "stop" /\ gate' = "shutdown"
  /\ \/ BrowserGone
     \/ browser = "running" /\ browser' = "stuck" /\ UNCHANGED <<sw, task>>
  /\ UNCHANGED <<stored, alarms, changed, posts, cookies, kills, serverVars, cut, verdict, seen>>

\* terminate, wait, kill, wait; the process may survive it.
Shutdown ==
  /\ gate = "shutdown" /\ gate' = "done"
  /\ \/ ServerGone
     \/ child = "running" /\ child' = "stuck" /\ UNCHANGED port
  /\ UNCHANGED <<extensionVars, cut, verdict, known, latest, accepted, browser, seen>>

\* Ctrl+C in a gate reaches the finally block, without a report.  There it ends
\* the block: `except Exception` does not catch it, and what is left to stop is
\* not stopped.  A terminal sends it to the server and the browser too, which
\* may exit by it; a signal to the harness alone leaves them.
Interrupted ==
  /\ gate # "done"
  /\ IF gate \in {"stop", "shutdown"} THEN gate' = "done" /\ cut' = gate
                                      ELSE gate' = "stop" /\ UNCHANGED cut
  /\ BrowserGone \/ UNCHANGED <<browser, sw, task>>
  /\ ServerGone \/ UNCHANGED <<child, port>>
  /\ UNCHANGED <<stored, alarms, changed, posts, cookies, kills, verdict, known, latest, accepted, seen>>

HarnessStep ==
  \/ Checks \/ Startup \/ Started \/ Health \/ Probe \/ BrowserStart \/ CdpReady
  \/ Inject \/ InjectFails \/ Keepalive \/ Navigate \/ Observe \/ ObserveFails
  \/ Expires \/ Post \/ StopBrowser \/ Shutdown

Next ==
  \/ HarnessStep \/ Interrupted
  \/ ServerBinds \/ ServerExits
  \/ \E token \in posts : PostArrives(token) \/ PostLost(token)
  \/ ExtensionStep \/ ExtensionEvent

Spec == Init /\ [][Next]_vars

\* Every gate comes to its end: by an answer, an error or its deadline.
FairSpec == Spec /\ WF_vars(HarnessStep)

----------------------------------------------------------------------------
(* Properties *)

TypeOK ==
  /\ stored \in [config : Config, fatal : BOOLEAN]
  /\ alarms \subseteq {"poll", "keepalive"}
  /\ sw \in [up : BOOLEAN, config : Config, fatal : BOOLEAN, reacting : BOOLEAN,
            bearer : {"none", "good", "bad"}, sent : 0 .. 2]
  /\ task \in [Handlers -> {"idle", "load", "loadrest", "pollalarm", "keepalarm", "fetching",
                            "storing", "clearing"}]
  /\ changed \in BOOLEAN /\ posts \subseteq {"good", "bad"}
  /\ cookies \in 0 .. MaxCookies /\ kills \in 0 .. MaxKills
  /\ gate \in Gates /\ cut \in {"none", "stop", "shutdown"} /\ verdict \in {"none", "BLOCKED", "FAIL"}
  /\ {child, browser} \subseteq Process /\ port \in {"free", "own", "foreign"}
  /\ known \in BOOLEAN /\ latest \in Lifetime /\ accepted \in BOOLEAN
  /\ seen \in [by : {"none", "own", "foreign"}, life : Lifetime]

\* Whatever gate ends the run, by a result, an error or Ctrl+C, the finally block
\* leaves neither the browser nor the work server behind, unless that process
\* survives its own stop, or a Ctrl+C in the block itself cuts it off: then the
\* browser is stopped if the block had come to the server.
NothingLeft ==
  gate = "done" =>
    /\ cut = "none" => "running" \notin {browser, child}
    /\ cut = "shutdown" => browser # "running"

\* A clearance that the observer takes from the harness's own server was
\* posted by an extension with the server's token (gate 12 and _post_clearance).
SeenWasAccepted == seen.by = "own" => accepted /\ seen.life # "none"

\* What the harness leaves and what it reports: the types, no process of its own,
\* no clearance that its server did not accept.
HarnessInv == TypeOK /\ NothingLeft /\ SeenWasAccepted

\* After a 401 was stored as fatalStop, a service worker polls at most once
\* before it knows: loadConfig reads the stop, pollNextTask checks it earlier.
OnePollPerLife == sw.sent <= 1

\* The keepalive alarm that gate 11d confirmed disappears only because of a
\* fatal stop or a configuration without it, never through a restart of the
\* service worker or handlers that overlap.
KeepaliveStays ==
  [][("keepalive" \in alarms /\ "keepalive" \notin alarms')
       => (~stored.config.keep \/ stored.fatal)]_vars

\* The harness ends, whatever the server and the extension do, as long as every
\* request is answered or refused: none of them has a time-out of its own.
HarnessEnds == <>(gate = "done")
=============================================================================
