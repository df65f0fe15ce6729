-------------------------- MODULE BufferedDispatch --------------------------
(***************************************************************************)
(* Buffered mode of scripts/scrape_player_info.py, in one process: the     *)
(* candidate producer, the dispatch buffer, the rate-limit gate, the       *)
(* workers (PlayerInfoWorker.run_buffered, or the slots of the warm pool   *)
(* around the same claim loop) and main(), which starts and joins them.    *)
(*                                                                         *)
(* A step runs from one await to the next: asyncio switches tasks nowhere  *)
(* else.  The rows keep only what claim, release and failure decide on;    *)
(* ScrapeQueue has their full life, with other processes and crashes.      *)
(* A transaction may raise before its commit, and also after it, when only *)
(* the reply is lost: what was settled is then settled once more.          *)
(***************************************************************************)
EXTENDS RateLimitGate, DispatchBuffer

CONSTANTS
  PageAttempts,     \* attempts at one page before the worker cools down
  RecordAttempts,   \* attempts of _record_failure_with_retry
  MaxQueueRetries,  \* SCRAPING__MAX_QUEUE_RETRIES
  PoolModes,        \* the values player_info_warm_pool_enabled may have
  DatabaseFails,    \* a transaction may raise
  MayInterrupt,     \* Ctrl+C may cancel main()
  MaxDoubtful       \* bound on the jobs in doubt, by warmPool

ASSUME LimitAssumption == {PageAttempts, RecordAttempts, MaxQueueRetries} \subseteq Nat \ {0}
ASSUME DoubtAssumption == MaxDoubtful \in [BOOLEAN -> Nat]
ASSUME ModeAssumption == {DatabaseFails, MayInterrupt} \cup PoolModes \subseteq BOOLEAN

VARIABLES
  row,      \* the scrape_queue row of each job
  worker,   \* what each worker awaits, its job and its attempts at the page
  main,     \* where main() is
  lost,     \* history: jobs left IN_PROGRESS by a failed transaction or a stop
  doubtful, \* history: held jobs of which a settlement was committed and raised
  warmPool  \* player_info_warm_pool_enabled: the workers are slots of the pool

vars == <<row, worker, main, lost, doubtful, gate, buffer, producer>>

Row == [status : {"ABSENT", "PENDING", "IN_PROGRESS", "DONE", "FAILED"}, retry : 0 .. MaxQueueRetries]

\* marked: mark_done has read a row that is DONE.
\* after: where the worker goes once its failure is recorded; tries: the
\* attempts at recording it that have raised.
WorkerState == [pc : {"starting", "entering", "getting", "claiming", "claimed", "releasing", "gated",
                      "navigating", "marked", "recording", "closing", "exited"},
                job : Jobs \cup {None}, attempt : 0 .. PageAttempts,
                after : {"starting", "entering", "closing"}, tries : 0 .. RecordAttempts]

Idle(pc) == [pc |-> pc, job |-> None, attempt |-> 0, after |-> "entering", tries |-> 0]
WithJob(pc, j) == [Idle(pc) EXCEPT !.job = j]

Holds(w) == worker[w].pc \in {"claimed", "releasing", "gated", "navigating", "marked", "recording"}
JobOf(w) == worker[w].job

\* retry_count is counted up to the ceiling: beyond it, it decides nothing.
FailedRow(r) == IF r.retry + 1 < MaxQueueRetries THEN [status |-> "PENDING", retry |-> r.retry + 1]
                                                 ELSE [status |-> "FAILED", retry |-> MaxQueueRetries]

\* Startup recovery and drain are over: every row is PENDING or not yet there.
Init ==
  /\ row \in [Jobs -> [status : {"ABSENT", "PENDING"}, retry : {0}]]
  /\ worker = [w \in Workers |-> Idle("starting")]
  /\ main = "running" /\ lost = {} /\ doubtful = {}
  /\ gate = OpenGate /\ buffer = <<>> /\ producer = NewProducer
  /\ warmPool \in PoolModes

----------------------------------------------------------------------------
(* Browser sessions *)

Become(w, state) == worker' = [worker EXCEPT ![w] = state]

\* The doubt about a job ends with the last worker that holds it.
LetsGo(w, doubts) ==
  doubtful' = {j \in doubts : j # JobOf(w) \/ \E v \in Workers \ {w} : Holds(v) /\ JobOf(v) = j}

\* Nobody settles the jobs of S any more.
GiveUp(S) == lost' = lost \cup {j \in S : row'[j].status = "IN_PROGRESS"}

\* The engine is up and warm.
EngineReady(w) ==
  /\ worker[w].pc = "starting"
  /\ MarkEngineReady /\ Become(w, Idle("entering"))
  /\ UNCHANGED <<row, main, lost, doubtful, buffer, producer>>

\* Chrome does not start, or the warmup fails; the worker tries again.
EngineStartFails(w) ==
  /\ worker[w].pc = "starting"
  /\ CancelRecovery
  /\ UNCHANGED <<row, worker, main, lost, doubtful, buffer, producer>>

\* An exception leaves the claim loop: run_buffered cancels the recovery at
\* once, a slot of the pool when it closes its engine.
ExceptionEnds(w) ==
  IF warmPool THEN Become(w, Idle("closing")) /\ UNCHANGED gate
              ELSE Become(w, Idle("starting")) /\ CancelRecovery

\* Mutant: the recovery outlives the engine.
CloseEngine_KeepsRecovery(w) ==
  /\ worker[w].pc = "closing"
  /\ Become(w, Idle("starting"))
  /\ UNCHANGED <<row, main, lost, doubtful, gate, buffer, producer>>
\* The engine is closed after a cooldown (or by a slot, for whatever reason).
CloseEngine(w) ==
  /\ worker[w].pc = "closing"
  /\ CancelRecovery /\ Become(w, Idle("starting"))
  /\ UNCHANGED <<row, main, lost, doubtful, buffer, producer>>

\* The claim loop returns.  The finally block of a slot cancels the recovery.
Leave(w) ==
  /\ Become(w, Idle("exited"))
  /\ IF warmPool THEN CancelRecovery ELSE UNCHANGED gate

----------------------------------------------------------------------------
(* _run_buffered_loop: from the buffer to a claimed job *)

Take(w) ==
  /\ Get
  /\ IF Head(buffer) = None
     THEN Leave(w)
     ELSE Become(w, WithJob("claiming", Head(buffer))) /\ UNCHANGED gate

\* wait_if_closed returns; the worker looks at the buffer and may have to wait.
Enter(w) ==
  /\ worker[w].pc = "entering" /\ gate.open
  /\ \/ Exhausted /\ Leave(w) /\ UNCHANGED <<buffer, producer>>
     \/ buffer # <<>> /\ Take(w)
     \/ /\ buffer = <<>> /\ ~Exhausted
        /\ Become(w, Idle("getting"))
        /\ UNCHANGED <<gate, buffer, producer>>
  /\ UNCHANGED <<row, main, lost, doubtful>>

GetWakes(w) ==
  /\ worker[w].pc = "getting" /\ Take(w)
  /\ UNCHANGED <<row, main, lost, doubtful>>

\* Mutant: the status of the row is not checked.
Claim_AnyStatus(w) ==
  /\ worker[w].pc = "claiming"
  /\ row' = [row EXCEPT ![JobOf(w)].status = "IN_PROGRESS"]
  /\ Become(w, WithJob("claimed", JobOf(w)))
  /\ UNCHANGED <<main, lost, doubtful, gate, buffer, producer>>

\* SKIP LOCKED: another worker's transaction has the row, for a claim that will
\* raise or for a settlement that is late.
SkipLocked(w) ==
  DatabaseFails /\ \E v \in Workers \ {w} :
    JobOf(v) = JobOf(w) /\ worker[v].pc \in {"claiming", "releasing", "navigating", "marked", "recording"}

\* claim_by_id, committed.  A row that is no longer PENDING is discarded.
Claim(w) ==
  /\ worker[w].pc = "claiming"
  /\ \/ /\ row[JobOf(w)].status = "PENDING"
        /\ row' = [row EXCEPT ![JobOf(w)].status = "IN_PROGRESS"]
        /\ lost' = lost \ {JobOf(w)}
        /\ Become(w, WithJob("claimed", JobOf(w)))
     \/ /\ row[JobOf(w)].status # "PENDING" \/ SkipLocked(w)
        /\ Become(w, Idle("entering"))
        /\ UNCHANGED <<row, lost>>
  /\ UNCHANGED <<main, doubtful, gate, buffer, producer>>

\* The gate is read again once the claim is committed.
ReadGate(w) ==
  /\ worker[w].pc = "claimed"
  /\ Become(w, WithJob(IF gate.open THEN "gated" ELSE "releasing", JobOf(w)))
  /\ UNCHANGED <<row, main, lost, doubtful, gate, buffer, producer>>

\* release_to_pending: only a row that is IN_PROGRESS.
CommitRelease(j) ==
  row' = IF row[j].status = "IN_PROGRESS" THEN [row EXCEPT ![j].status = "PENDING"] ELSE row

Release(w) ==
  /\ worker[w].pc = "releasing"
  /\ CommitRelease(JobOf(w))
  /\ Become(w, Idle("entering"))
  /\ LetsGo(w, doubtful)
  /\ UNCHANGED <<main, lost, gate, buffer, producer>>

\* The claim, or the release, raises before or after its commit.
ClaimRaises(w, committed) ==
  /\ DatabaseFails /\ worker[w].pc = "claiming"
  /\ IF committed /\ row[JobOf(w)].status = "PENDING"
     THEN /\ row' = [row EXCEPT ![JobOf(w)].status = "IN_PROGRESS"]
          /\ lost' = lost \cup {JobOf(w)}
     ELSE UNCHANGED <<row, lost>>
  /\ ExceptionEnds(w)
  /\ UNCHANGED <<main, doubtful, buffer, producer>>

ReleaseRaises(w, committed) ==
  /\ DatabaseFails /\ worker[w].pc = "releasing"
  /\ IF committed THEN CommitRelease(JobOf(w)) /\ UNCHANGED lost
                  ELSE UNCHANGED row /\ GiveUp({JobOf(w)})
  /\ LetsGo(w, doubtful) /\ ExceptionEnds(w)
  /\ UNCHANGED <<main, buffer, producer>>

----------------------------------------------------------------------------
(* _run_buffered_loop: the attempts at the page *)

PassToPage(w) ==
  /\ worker[w].pc = "gated" /\ gate.open
  /\ Become(w, [worker[w] EXCEPT !.pc = "navigating"])
  /\ UNCHANGED <<row, main, lost, doubtful, gate, buffer, producer>>

\* The page is stored.  mark_done reads the queue row without a lock, and its
\* UPDATE leaves the status out if it is DONE in what was read.
ReadDone(w) ==
  /\ worker[w].pc = "navigating" /\ row[JobOf(w)].status = "DONE"
  /\ Become(w, [worker[w] EXCEPT !.pc = "marked"])
  /\ UNCHANGED <<row, main, lost, doubtful, gate, buffer, producer>>

\* mark_done's UPDATE, and the commit.  (When it has read another status, the
\* row is DONE whatever happened between the two statements.)
CommitScrape(w) ==
  \/ worker[w].pc = "navigating" /\ row' = [row EXCEPT ![JobOf(w)].status = "DONE"]
  \/ worker[w].pc = "marked" /\ UNCHANGED row

Succeed(w) ==
  /\ CommitScrape(w)
  /\ Become(w, Idle("entering"))
  /\ LetsGo(w, doubtful)
  /\ UNCHANGED <<main, lost, gate, buffer, producer>>

Recording(w, after) == [worker[w] EXCEPT !.pc = "recording", !.after = after]

\* A failed attempt: try again behind the gate, or record it and cool down.
Attempted(w) ==
  Become(w, IF worker[w].attempt + 1 < PageAttempts
            THEN [worker[w] EXCEPT !.pc = "gated", !.attempt = @ + 1]
            ELSE Recording(w, "closing"))

PageFails(w) ==
  /\ worker[w].pc = "navigating"
  /\ Attempted(w)
  /\ UNCHANGED <<row, main, lost, doubtful, gate, buffer, producer>>

RateLimited(w) ==
  /\ worker[w].pc = "navigating"
  /\ Attempted(w) /\ SignalRateLimit(w)
  /\ UNCHANGED <<row, main, lost, doubtful, buffer, producer>>

\* A BrowserException restarts the browser, another error moves on.
BrowserFails(w) ==
  /\ worker[w].pc = "navigating"
  /\ Become(w, Recording(w, IF warmPool THEN "closing" ELSE "starting"))
  /\ UNCHANGED <<row, main, lost, doubtful, gate, buffer, producer>>

\* The error may be one of the transaction's statements, or of its commit.
OtherError(w) ==
  /\ worker[w].pc \in {"navigating", "marked"}
  /\ Become(w, Recording(w, "entering"))
  /\ UNCHANGED <<row, main, lost, doubtful, gate, buffer, producer>>

MayDoubt(j) == Cardinality(doubtful \cup {j}) <= MaxDoubtful[warmPool]

\* The commit is applied but its reply is lost: the worker records a failure.
SucceedReplyLost(w) ==
  /\ DatabaseFails /\ CommitScrape(w)
  /\ MayDoubt(JobOf(w)) /\ doubtful' = doubtful \cup {JobOf(w)}
  /\ Become(w, Recording(w, "entering"))
  /\ UNCHANGED <<main, lost, gate, buffer, producer>>

CommitFailure(j) == row' = [row EXCEPT ![j] = FailedRow(@)]

RecordFailure(w) ==
  /\ worker[w].pc = "recording"
  /\ CommitFailure(JobOf(w))
  /\ Become(w, Idle(worker[w].after))
  /\ LetsGo(w, doubtful)
  /\ UNCHANGED <<main, lost, gate, buffer, producer>>

\* An attempt of record_job_failure raises, before or after its commit.
RecordRaises(w, committed) ==
  /\ DatabaseFails /\ worker[w].pc = "recording"
  /\ IF committed THEN MayDoubt(JobOf(w)) /\ CommitFailure(JobOf(w)) ELSE UNCHANGED row
  /\ UNCHANGED <<main, buffer, producer>>

Doubts(w, committed) == IF committed THEN doubtful \cup {JobOf(w)} ELSE doubtful

\* It is tried again; the last attempt ends in a RuntimeError.
RecordAgain(w, committed) ==
  /\ worker[w].tries + 1 < RecordAttempts
  /\ RecordRaises(w, committed) /\ doubtful' = Doubts(w, committed)
  /\ Become(w, [worker[w] EXCEPT !.tries = @ + 1])
  /\ UNCHANGED <<lost, gate>>

RecordEnds(w, committed) ==
  /\ worker[w].tries + 1 = RecordAttempts
  /\ RecordRaises(w, committed) /\ LetsGo(w, Doubts(w, committed))
  /\ GiveUp({JobOf(w)}) /\ ExceptionEnds(w)

----------------------------------------------------------------------------
(* The producer, the recovery task, the daemon and main() *)

Pending == {j \in Jobs : row[j].status = "PENDING"}

ProducerStep ==
  /\ \/ gate.open /\ PassGate
     \/ Peek(Pending) \/ (Pending = {} /\ PeekNothing) \/ (DatabaseFails /\ PeekRaises)
     \/ \E j \in Jobs : Put(j)
     \/ PutBlocked \/ BatchDone \/ WakeUp
  /\ UNCHANGED <<row, worker, main, lost, doubtful, gate>>

GateStep == RecoveryStep /\ UNCHANGED <<row, worker, main, lost, doubtful, buffer, producer>>

\* The daemon inserts a row at any time.
Arrive(j) ==
  /\ row[j].status = "ABSENT"
  /\ row' = [row EXCEPT ![j].status = "PENDING"]
  /\ UNCHANGED <<worker, main, lost, doubtful, gate, buffer, producer>>

\* Every worker has returned: the finally block of main() stops the producer.
WorkersDone ==
  /\ main = "running" /\ \A w \in Workers : worker[w].pc = "exited"
  /\ main' = "stopping" /\ producer' = Stopping(producer)
  /\ UNCHANGED <<row, worker, lost, doubtful, gate, buffer>>

\* Ctrl+C cancels main(), which cancels the workers wherever they are.
Interrupt ==
  /\ MayInterrupt /\ main = "running"
  /\ main' = "stopping" /\ producer' = Stopping(producer)
  /\ UNCHANGED row /\ GiveUp({JobOf(w) : w \in {v \in Workers : Holds(v)}})
  /\ worker' = [w \in Workers |-> Idle("exited")]
  /\ IF warmPool THEN CancelRecovery ELSE UNCHANGED gate
  /\ doubtful' = {} /\ UNCHANGED buffer

\* await producer_task; gate.shutdown().
Return ==
  /\ main = "stopping" /\ producer.pc = "stopped"
  /\ main' = "returned" /\ CancelRecovery
  /\ UNCHANGED <<row, worker, lost, doubtful, buffer, producer>>

Returned == main = "returned" /\ UNCHANGED vars

WorkerStep(w) ==
  \/ CloseEngine(w) \/ Enter(w) \/ GetWakes(w) \/ Claim(w) \/ ReadGate(w) \/ Release(w)
  \/ PassToPage(w) \/ ReadDone(w) \/ Succeed(w) \/ PageFails(w) \/ RateLimited(w) \/ BrowserFails(w)
  \/ OtherError(w) \/ SucceedReplyLost(w) \/ RecordFailure(w)
  \/ \E committed \in BOOLEAN : \/ ClaimRaises(w, committed) \/ ReleaseRaises(w, committed)
                                \/ RecordAgain(w, committed) \/ RecordEnds(w, committed)

Step ==
  \/ \E w \in Workers : EngineReady(w) \/ EngineStartFails(w) \/ WorkerStep(w)
  \/ ProducerStep \/ GateStep \/ WorkersDone \/ Interrupt \/ Return \/ Returned
  \/ \E j \in Jobs : Arrive(j)

Next == Step /\ UNCHANGED warmPool

Spec == Init /\ [][Next]_<<vars, warmPool>>

\* The event loop runs every task that can run; Chrome starts some day.
Fairness ==
  /\ \A w \in Workers : WF_vars(WorkerStep(w)) /\ WF_vars(EngineReady(w))
  /\ WF_vars(ProducerStep) /\ WF_vars(GateStep) /\ WF_vars(WorkersDone) /\ WF_vars(Return)

FairSpec == Spec /\ Fairness

----------------------------------------------------------------------------
(* Properties *)

TypeOK ==
  /\ row \in [Jobs -> Row]
  /\ worker \in [Workers -> WorkerState]
  /\ \A w \in Workers : Holds(w) \/ worker[w].pc = "claiming" => JobOf(w) \in Jobs
  /\ main \in {"running", "stopping", "returned"} /\ warmPool \in PoolModes
  /\ lost \subseteq Jobs /\ doubtful \subseteq Jobs
  /\ gate \in GateState /\ producer \in ProducerState
  /\ buffer \in Seq(Jobs \cup {None})

\* The dedup set is exact through every reservation, hand-over and stop: it
\* holds what is buffered or waits for room, nothing is buffered twice, and the
\* references stay within the soft limit.
DedupExact ==
  /\ producer.seen = References \cup ({producer.ref} \ {None})
  /\ Cardinality(References) + Sentinels = Len(buffer)
  /\ producer.ref \notin References
  /\ Cardinality(References) <= BufferSize

\* The state of the producer and the buffer: its types and the exact dedup set.
BufferInv == TypeOK /\ DedupExact

\* No IN_PROGRESS row sits unassigned in memory: a worker has it, unless it was
\* given up (a transaction failed, the process was stopped).  It is exactly one
\* worker, and no worker works on a row that is not IN_PROGRESS, unless a
\* settlement of the job was committed and reported as failed.
ClaimedAtHandoff ==
  \A j \in Jobs :
    LET holders == {w \in Workers : Holds(w) /\ JobOf(w) = j} IN
    /\ row[j].status = "IN_PROGRESS" => holders # {} \/ j \in lost
    /\ j \notin doubtful =>
         IF row[j].status = "IN_PROGRESS" THEN Cardinality(holders) = (IF j \in lost THEN 0 ELSE 1)
                                          ELSE holders = {}

\* Once the producer has stopped, the buffer holds a sentinel for every worker
\* that has not exited, through restarts and references left in the buffer: no
\* worker waits in get() for ever.
SentinelsSuffice ==
  producer.pc = "stopped" => Sentinels >= Cardinality({w \in Workers : worker[w].pc # "exited"})

\* Until main() stops, a recovery never spends its probes on a dead engine: the
\* engine it warms up belongs to a session that is still open.
RecoveryProbesLiveEngine ==
  main = "running" /\ gate.task \in {"cooldown", "probing", "backoff"} =>
    worker[gate.owner].pc \notin {"starting", "exited"}

\* While main() waits for the workers, a closed gate is watched, unless a
\* recovery has spent all its probes: a recovery that is not cancelled will
\* reopen it, or a worker is on its way to a new engine.  (A slot of the pool
\* that returns cancels the recovery the others wait for.)
ClosedGateIsWatched ==
  main = "running" /\ ~gate.open =>
    \/ gate.task \in {"cooldown", "probing", "backoff"}
    \/ gate.probes = MaxProbeAttempts
    \/ \E w \in Workers : worker[w].pc \in {"starting", "closing"}
    \/ warmPool /\ \E w \in Workers : worker[w].pc = "exited"

\* The process ends: no wait for the gate, the buffer, its room or a sentinel
\* is for ever.
ProcessEnds == <>(main = "returned")
=============================================================================
