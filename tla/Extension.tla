------------------------------ MODULE Extension ------------------------------
(***************************************************************************)
(* The service worker of extensions/sportcrawl-chrome (background.js):     *)
(* chrome.storage.local and chrome.alarms outlive it, its variables do     *)
(* not.  Handlers run concurrently; one step of a handler ends at an await. *)
(* A storage call is answered in the order of the calls, so a read happens *)
(* when its answer is used and a write in a step of its own.               *)
(***************************************************************************)
EXTENDS Naturals, FiniteSets

CONSTANTS
  MaxKills,    \* bound: terminations of the service worker
  MaxCookies   \* bound: cf_clearance cookies the browser receives

ASSUME ExtensionAssumption == MaxKills \in Nat /\ MaxCookies \in Nat

VARIABLES
  stored,   \* chrome.storage.local: the configuration and fatalStop
  alarms,   \* chrome.alarms
  sw,       \* the service worker: its variables, or that it is not running
  task,     \* how far each handler is
  changed,  \* a storage change that was not delivered yet
  posts,    \* clearance POSTs in flight, by the token they carry
  cookies,  \* cf_clearance cookies received so far (bounded by MaxCookies)
  kills     \* terminations so far (bounded by MaxKills)

extensionVars == <<stored, alarms, sw, task, changed, posts, cookies, kills>>

Handlers == {"start", "change", "poll", "cookie"}

\* The fields of the configuration that steer the service worker: the token
\* ("none": not configured), task polling, the keepalive, the cookie domain.
Config == [token : {"none", "good", "bad"}, poll : BOOLEAN, keep : BOOLEAN, domain : BOOLEAN]

\* What loadConfig returns for an empty storage.
Unset == [token |-> "none", poll |-> TRUE, keep |-> FALSE, domain |-> FALSE]

\* What the smoke command injects.
Injected == [token |-> "good", poll |-> FALSE, keep |-> TRUE, domain |-> TRUE]

\* An operator's profile that polls with a token the server does not know.
Polling == [token |-> "bad", poll |-> TRUE, keep |-> FALSE, domain |-> TRUE]

\* The module's `let` variables; the token of the last poll that left; and sent,
\* which counts the polls that left although fatalStop was stored.
Awake == [up |-> TRUE, config |-> Unset, fatal |-> FALSE, reacting |-> FALSE,
          bearer |-> "none", sent |-> 0]
Asleep == [Awake EXCEPT !.up = FALSE]

Idle == [h \in Handlers |-> "idle"]
Goes(h, pc) == task' = [task EXCEPT ![h] = pc]
At(h, pc) == task[h] = pc

\* An event reaches the service worker, and starts it if need be.
Woken == IF sw.up THEN sw ELSE Awake

Quiet == UNCHANGED <<stored, alarms, posts, cookies, kills>>

----------------------------------------------------------------------------
(* loadConfig *)

\* Mutant: the stored stop is not read.
LoadStop_Skipped(h) ==
  /\ At(h, "load")
  /\ UNCHANGED sw
  /\ Goes(h, "loadrest")
  /\ Quiet /\ UNCHANGED changed
\* The answer to the first get.
LoadStop(h) ==
  /\ At(h, "load")
  /\ sw' = [sw EXCEPT !.fatal = stored.fatal]
  /\ Goes(h, "loadrest")
  /\ Quiet /\ UNCHANGED changed

\* The answer to the second get, and what the handler does with it up to its
\* next await: a poll or a POST leaves, or the handler ends.
LoadRest(h) ==
  /\ At(h, "loadrest")
  /\ LET config == stored.config
         sends  == h = "poll" /\ config.token # "none" /\ config.poll
         offers == h = "cookie" /\ config.token # "none" /\ config.domain
     IN /\ sw' = [sw EXCEPT !.config = config,
                            !.bearer = IF sends THEN config.token ELSE @,
                            !.sent = IF sends /\ stored.fatal THEN @ + 1 ELSE @]
        /\ posts' = IF offers THEN posts \cup {config.token} ELSE posts
        /\ Goes(h, IF h \in {"start", "change"} THEN "pollalarm"
                   ELSE IF sends THEN "fetching" ELSE "idle")
  /\ UNCHANGED <<stored, alarms, changed, cookies, kills>>

----------------------------------------------------------------------------
(* startAlarmIfNeeded, for onInstalled, onStartup and storage.onChanged *)

Turn(alarm, on) == alarms' = IF on THEN alarms \cup {alarm} ELSE alarms \ {alarm}

SetPollAlarm(h) ==
  /\ At(h, "pollalarm")
  /\ Turn("poll", sw.config.poll)
  /\ Goes(h, "keepalarm")
  /\ UNCHANGED <<stored, sw, changed, posts, cookies, kills>>

\* The last step also ends the reaction to a change.
SetKeepalive(h) ==
  /\ At(h, "keepalarm")
  /\ Turn("keepalive", sw.config.keep)
  /\ sw' = [sw EXCEPT !.reacting = IF h = "change" THEN FALSE ELSE @]
  /\ Goes(h, "idle")
  /\ UNCHANGED <<stored, changed, posts, cookies, kills>>

\* Mutant: the alarms are set from the variables as they are.
BrowserStarts_NoLoad ==
  /\ sw' = Awake
  /\ Goes("start", "pollalarm")
\* onInstalled or onStartup.
BrowserStarts ==
  /\ sw' = Awake
  /\ Goes("start", "load")

\* A change is dropped while the reaction to an earlier one is in flight.
StorageChanged ==
  /\ changed /\ changed' = FALSE
  /\ IF Woken.reacting THEN sw' = sw /\ UNCHANGED task
                       ELSE sw' = [Woken EXCEPT !.reacting = TRUE] /\ Goes("change", "load")
  /\ Quiet

----------------------------------------------------------------------------
(* pollNextTask *)

\* The alarm; a poll that found the stop in memory ends at once.  Nothing in the
\* code keeps two polls apart.  That they do not overlap is an assumption: the
\* alarm comes every minute, and Chrome ends a service worker whose fetch is not
\* answered within 30 seconds.
PollAlarm ==
  /\ "poll" \in alarms /\ At("poll", "idle")
  /\ sw' = Woken
  /\ Goes("poll", IF Woken.fatal THEN "idle" ELSE "load")
  /\ Quiet /\ UNCHANGED changed

\* Network error, 404 (the server has no task route) or 5xx.
PollFails ==
  /\ At("poll", "fetching")
  /\ Goes("poll", "idle")
  /\ Quiet /\ UNCHANGED <<sw, changed>>

\* 401: setFatalStop, up to its first await.
PollRejected ==
  /\ At("poll", "fetching")
  /\ sw' = [sw EXCEPT !.fatal = TRUE]
  /\ Goes("poll", "storing")
  /\ Quiet /\ UNCHANGED changed

StoreStop ==
  /\ At("poll", "storing")
  /\ stored' = [stored EXCEPT !.fatal = TRUE]
  /\ changed' = (changed \/ ~stored.fatal)
  /\ Goes("poll", "clearing")
  /\ UNCHANGED <<alarms, sw, posts, cookies, kills>>

ClearKeepalive ==
  /\ At("poll", "clearing")
  /\ alarms' = alarms \ {"keepalive"}
  /\ Goes("poll", "idle")
  /\ UNCHANGED <<stored, sw, changed, posts, cookies, kills>>

----------------------------------------------------------------------------
(* cookies.onChanged, and the end of a service worker *)

\* cf_clearance for the target's domain, not expired.
CookieArrives ==
  /\ cookies < MaxCookies /\ At("cookie", "idle")
  /\ cookies' = cookies + 1
  /\ sw' = Woken
  /\ Goes("cookie", "load")
  /\ UNCHANGED <<stored, alarms, changed, posts, kills>>

\* The browser terminates the service worker; a POST that left is not awaited.
Terminated ==
  /\ sw.up /\ kills < MaxKills
  /\ kills' = kills + 1
  /\ sw' = Asleep /\ task' = Idle
  /\ UNCHANGED <<stored, alarms, changed, posts, cookies>>

HandlerStep ==
  \/ \E h \in Handlers : LoadStop(h) \/ LoadRest(h) \/ SetPollAlarm(h) \/ SetKeepalive(h)
  \/ StoreStop \/ ClearKeepalive
=============================================================================
