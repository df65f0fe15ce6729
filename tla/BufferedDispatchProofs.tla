----------------------- MODULE BufferedDispatchProofs -----------------------
(***************************************************************************)
(* The invariants of BufferedDispatch, for any jobs, workers, buffer size  *)
(* and numbers of attempts: the hand-over of a job (ClaimedAtHandoff), the *)
(* dedup set of the buffer (BufferInv), the recovery of the gate and its   *)
(* watchers, and the sentinels.                                            *)
(***************************************************************************)
EXTENDS BufferedDispatch, FiniteSetTheorems, SequenceTheorems, TLAPS

\* A recovery has probes left.
ProbesLeft == gate.task \in {"cooldown", "probing", "backoff"} => gate.probes < MaxProbeAttempts

\* A blocked put has its reference.
BlockedHasRef == producer.pc = "blocked" => producer.ref \in Jobs

\* ClaimedAtHandoff without cardinalities: a row that is IN_PROGRESS is given up
\* or has a worker that will write its status; a job that is not in doubt has
\* one holder, and a row that is IN_PROGRESS and not given up.
HasJob(w, j) == Holds(w) /\ JobOf(w) = j
InProgressHeld == \A j \in Jobs : row[j].status = "IN_PROGRESS" =>
  j \in lost \/ \E w \in Workers : HasJob(w, j) /\ worker[w].pc # "marked"
NoDoubtOf(j) == \A w \in Workers : HasJob(w, j) =>
  row[j].status = "IN_PROGRESS" /\ j \notin lost /\ \A v \in Workers : HasJob(v, j) => v = w

Handoff == InProgressHeld /\ \A j \in Jobs \ doubtful : NoDoubtOf(j)

----------------------------------------------------------------------------
(* The gate and the buffer keep their types. *)

GateOK == gate \in GateState /\ ProbesLeft

LEMMA GateKeepsType ==
  ASSUME GateOK, NEW w \in Workers,
         \/ UNCHANGED gate \/ CancelRecovery \/ MarkEngineReady \/ SignalRateLimit(w) \/ RecoveryStep
  PROVE  GateOK'
<1> USE ProbeAssumption DEF GateOK, GateState, ProbesLeft
<1>1. CASE UNCHANGED gate
  BY <1>1
<1>2. CASE CancelRecovery \/ MarkEngineReady
  <2>1. Cancelled(gate.task) \in {"done", "cancelling"}
    BY DEF Cancelled
  <2> QED BY <1>2, <2>1 DEF CancelRecovery, MarkEngineReady
<1>3. CASE SignalRateLimit(w)
  BY <1>3 DEF SignalRateLimit
<1>4. CASE CooldownOver \/ ProbePasses \/ TaskCancelled
  BY <1>4 DEF CooldownOver, ProbePasses, TaskCancelled
<1>5. CASE ProbeFails
  <2>1. gate.probes + 1 \in 0 .. MaxProbeAttempts
    BY <1>5 DEF ProbeFails
  <2>2. CASE gate.probes + 1 < MaxProbeAttempts
    BY <1>5, <2>1, <2>2 DEF ProbeFails
  <2>3. CASE ~(gate.probes + 1 < MaxProbeAttempts)
    BY <1>5, <2>1, <2>3 DEF ProbeFails
  <2> QED BY <2>2, <2>3
<1> QED BY <1>1, <1>2, <1>3, <1>4, <1>5 DEF RecoveryStep

BufferOK == producer \in ProducerState /\ buffer \in Seq(Jobs \cup {None}) /\ BlockedHasRef

LEMMA CloseKeepsType == BufferOK /\ Close => BufferOK'
<1> SUFFICES ASSUME BufferOK, Close PROVE BufferOK'
  OBVIOUS
<1>1. Cardinality(Workers) \in Nat
  BY DispatchAssumption, FS_CardinalityType
<1>2. [i \in 1 .. Cardinality(Workers) |-> None] \in Seq(Jobs \cup {None})
  BY <1>1
<1>3. buffer' \in Seq(Jobs \cup {None})
  BY <1>2, ConcatProperties DEF BufferOK, Close
<1> QED BY <1>3 DEF BufferOK, Close, ProducerState, BlockedHasRef

LEMMA ProducerKeepsType ==
  ASSUME BufferOK, ProducerStep
  PROVE  BufferOK'
<1> USE DispatchAssumption DEF BufferOK, ProducerState, BlockedHasRef
<1>1. CASE PassGate
  BY <1>1 DEF PassGate
<1>2. CASE Peek(Pending)
  BY <1>2 DEF Peek, Pending
<1>3. CASE Close
  BY <1>3, CloseKeepsType
<1>4. CASE producer' = [producer EXCEPT !.pc = "sleeping"] /\ UNCHANGED buffer
  BY <1>4
<1>5. CASE producer' = [producer EXCEPT !.pc = "waiting"] /\ UNCHANGED buffer
  BY <1>5
<1>6. ASSUME NEW j \in Jobs, Put(j) PROVE BufferOK'
  <2>1. buffer' \in Seq(Jobs \cup {None})
    BY <1>6, AppendProperties DEF Put
  <2>2. producer' \in ProducerState
    <3>1. CASE producer' = [producer EXCEPT !.ids = @ \ {j}]
      BY <3>1
    <3>2. CASE producer' = [producer EXCEPT !.ids = @ \ {j}, !.seen = @ \cup {j}, !.accepted = TRUE]
      BY <3>2
    <3>3. CASE producer' = [producer EXCEPT !.ids = @ \ {j}, !.seen = @ \cup {j}, !.pc = "blocked", !.ref = j]
      BY <3>3
    <3> QED BY <1>6, <3>1, <3>2, <3>3 DEF Put
  <2>3. producer'.pc = "blocked" => producer'.ref \in Jobs
    BY <1>6 DEF Put
  <2> QED BY <2>1, <2>2, <2>3
<1>7. CASE PutBlocked
  <2>1. buffer' \in Seq(Jobs \cup {None})
    BY <1>7, AppendProperties DEF PutBlocked
  <2>2. producer' \in ProducerState
    <3>1. CASE producer' = [producer EXCEPT !.pc = "putting", !.ref = None, !.accepted = TRUE]
      BY <3>1
    <3>2. CASE producer' = [producer EXCEPT !.pc = "putting", !.ref = None, !.seen = @ \ {producer.ref}]
      BY <3>2
    <3> QED BY <1>7, <3>1, <3>2 DEF PutBlocked
  <2>3. producer'.pc # "blocked"
    BY <1>7 DEF PutBlocked
  <2> QED BY <2>1, <2>2, <2>3
<1> QED BY <1>1, <1>2, <1>3, <1>4, <1>5, <1>6, <1>7 DEF ProducerStep, PeekNothing, PeekRaises, BatchDone, WakeUp, NextRound

LEMMA GetKeepsType ==
  ASSUME BufferOK, Get
  PROVE  BufferOK' /\ Head(buffer) \in Jobs \cup {None}
<1>1. Head(buffer) \in Jobs \cup {None} /\ Tail(buffer) \in Seq(Jobs \cup {None})
  BY HeadTailProperties DEF BufferOK, Get
<1> QED BY <1>1 DEF BufferOK, Get, ProducerState, BlockedHasRef

LEMMA StopKeepsType == BufferOK /\ producer' = Stopping(producer) /\ UNCHANGED buffer => BufferOK'
  BY DEF BufferOK, Stopping, ProducerState, BlockedHasRef

----------------------------------------------------------------------------
(* Types *)

\* What the workers' steps make of a worker.
LEMMA WorkerKeepsType ==
  ASSUME worker \in [Workers -> WorkerState], NEW w \in Workers
  PROVE  /\ \A pc \in {"starting", "entering", "getting", "closing", "exited"} : Idle(pc) \in WorkerState
         /\ Idle(worker[w].after) \in WorkerState
         /\ \A pc \in {"claiming", "claimed", "releasing", "gated"}, j \in Jobs : WithJob(pc, j) \in WorkerState
         /\ \A after \in {"starting", "entering", "closing"} : Recording(w, after) \in WorkerState
         /\ \A pc \in {"navigating", "marked"} : [worker[w] EXCEPT !.pc = pc] \in WorkerState
         /\ worker[w].tries + 1 < RecordAttempts => [worker[w] EXCEPT !.tries = @ + 1] \in WorkerState
<1> USE LimitAssumption DEF WorkerState
<1>1. \A pc \in {"starting", "entering", "getting", "closing", "exited"} : Idle(pc) \in WorkerState
  BY DEF Idle
<1>2. Idle(worker[w].after) \in WorkerState
  BY DEF Idle
<1>3. \A pc \in {"claiming", "claimed", "releasing", "gated"}, j \in Jobs : WithJob(pc, j) \in WorkerState
  BY DEF WithJob, Idle
<1>4. \A after \in {"starting", "entering", "closing"} : Recording(w, after) \in WorkerState
  BY DEF Recording
<1>5. \A pc \in {"navigating", "marked"} : [worker[w] EXCEPT !.pc = pc] \in WorkerState
  OBVIOUS
<1>6. ASSUME worker[w].tries + 1 < RecordAttempts PROVE [worker[w] EXCEPT !.tries = @ + 1] \in WorkerState
  <2>1. worker[w].tries + 1 \in 0 .. RecordAttempts
    BY <1>6
  <2> QED BY <2>1
<1> QED BY <1>1, <1>2, <1>3, <1>4, <1>5, <1>6

\* An attempt that failed keeps the job: the worker navigates again or records.
LEMMA AttemptedKeeps ==
  ASSUME worker \in [Workers -> WorkerState], NEW w \in Workers, Attempted(w)
  PROVE  \E s \in WorkerState :
           Become(w, s) /\ s.pc \in {"gated", "recording"} /\ s.job = worker[w].job
<1> USE LimitAssumption DEF WorkerState
<1>1. CASE worker[w].attempt + 1 < PageAttempts
  <2> DEFINE s == [worker[w] EXCEPT !.pc = "gated", !.attempt = worker[w].attempt + 1]
  <2>1. Become(w, s)
    BY <1>1 DEF Attempted
  <2>2. worker[w].attempt + 1 \in 0 .. PageAttempts
    BY <1>1
  <2>3. s \in WorkerState /\ s.pc = "gated" /\ s.job = worker[w].job
    BY <2>2
  <2> QED BY <2>1, <2>3
<1>2. CASE ~(worker[w].attempt + 1 < PageAttempts)
  <2>1. Become(w, Recording(w, "closing"))
    BY <1>2 DEF Attempted
  <2>2. /\ Recording(w, "closing") \in WorkerState /\ Recording(w, "closing").pc = "recording"
        /\ Recording(w, "closing").job = worker[w].job
    BY DEF Recording
  <2> QED BY <2>1, <2>2
<1> QED BY <1>1, <1>2

HoldingPcs == {"claimed", "releasing", "gated", "navigating", "marked", "recording"}

WorkersOK ==
  /\ worker \in [Workers -> WorkerState]
  /\ \A w \in Workers : Holds(w) \/ worker[w].pc = "claiming" => JobOf(w) \in Jobs

LEMMA BecomeKeepsType ==
  ASSUME WorkersOK, NEW w \in Workers, NEW s \in WorkerState, Become(w, s),
         s.pc \in HoldingPcs \cup {"claiming"} => s.job \in Jobs
  PROVE  WorkersOK'
  BY DEF WorkersOK, Become, Holds, JobOf, HoldingPcs, WorkerState

RowsOK == row \in [Jobs -> Row] /\ lost \subseteq Jobs /\ doubtful \subseteq Jobs

\* What a step may make of the row of j: another status, or a failure counted.
RowChange(j) ==
  \/ UNCHANGED row
  \/ \E t \in {"PENDING", "IN_PROGRESS", "DONE"} : row' = [row EXCEPT ![j].status = t]
  \/ CommitFailure(j)

LEMMA RowKeepsType ==
  ASSUME RowsOK, NEW j \in Jobs, RowChange(j), lost' \subseteq Jobs, doubtful' \subseteq Jobs
  PROVE  RowsOK' /\ \A i \in Jobs \ {j} : row'[i] = row[i]
<1> USE LimitAssumption DEF RowsOK, Row
<1>1. ASSUME NEW t \in {"PENDING", "IN_PROGRESS", "DONE"}, row' = [row EXCEPT ![j].status = t]
      PROVE  RowsOK' /\ \A i \in Jobs \ {j} : row'[i] = row[i]
  BY <1>1
<1>2. CASE CommitFailure(j)
  <2>1. FailedRow(row[j]) \in Row
    <3>1. CASE row[j].retry + 1 < MaxQueueRetries
      <4>1. row[j].retry + 1 \in 0 .. MaxQueueRetries
        BY <3>1
      <4> QED BY <3>1, <4>1 DEF FailedRow
    <3>2. CASE ~(row[j].retry + 1 < MaxQueueRetries)
      BY <3>2 DEF FailedRow
    <3> QED BY <3>1, <3>2
  <2> QED BY <1>2, <2>1 DEF CommitFailure
<1> QED BY <1>1, <1>2 DEF RowChange

----------------------------------------------------------------------------
(* Handing over: what a step may do to a worker and its row *)

LEMMA HoldersAfter ==
  ASSUME WorkersOK, NEW w \in Workers, NEW s \in WorkerState, Become(w, s)
  PROVE  /\ \A v \in Workers \ {w} : worker'[v] = worker[v] /\ \A j : HasJob(v, j)' <=> HasJob(v, j)
         /\ worker'[w] = s
         /\ \A j : HasJob(w, j)' <=> s.pc \in HoldingPcs /\ s.job = j
  BY DEF WorkersOK, Become, HasJob, Holds, JobOf, HoldingPcs

\* The worker goes on with what it holds.
LEMMA Moves ==
  ASSUME WorkersOK, RowsOK, Handoff, NEW w \in Workers, NEW s \in WorkerState, Become(w, s),
         s.pc \in HoldingPcs <=> Holds(w), Holds(w) => s.job = JobOf(w),
         s.pc = "marked" => row[JobOf(w)].status # "IN_PROGRESS", UNCHANGED <<row, lost, doubtful>>
  PROVE  Handoff'
<1>1. \A v \in Workers : \A j : HasJob(v, j)' <=> HasJob(v, j)
  BY HoldersAfter DEF HasJob
<1>2. \A j \in Jobs \ doubtful' : NoDoubtOf(j)'
  BY <1>1 DEF Handoff, NoDoubtOf
<1>3. InProgressHeld'
  <2> SUFFICES ASSUME NEW j \in Jobs, row[j].status = "IN_PROGRESS", j \notin lost
               PROVE  \E v \in Workers : HasJob(v, j)' /\ worker'[v].pc # "marked"
    BY DEF InProgressHeld
  <2>1. PICK v \in Workers : HasJob(v, j) /\ worker[v].pc # "marked"
    BY DEF Handoff, InProgressHeld
  <2>2. worker'[v].pc # "marked"
    BY <2>1, HoldersAfter DEF HasJob
  <2> QED BY <1>1, <2>1, <2>2
<1> QED BY <1>2, <1>3 DEF Handoff

\* The worker takes a row that is PENDING, and holds it or loses it at once.
LEMMA Takes ==
  ASSUME WorkersOK, RowsOK, Handoff, NEW w \in Workers, NEW s \in WorkerState, Become(w, s), ~Holds(w),
         NEW j \in Jobs, row[j].status = "PENDING", row' = [row EXCEPT ![j].status = "IN_PROGRESS"],
         \/ s.pc = "claimed" /\ s.job = j /\ lost' = lost \ {j}
         \/ s.pc \notin HoldingPcs /\ lost' = lost \cup {j},
         UNCHANGED doubtful
  PROVE  Handoff'
<1>1. /\ \A v \in Workers \ {w} : worker'[v] = worker[v] /\ \A i : HasJob(v, i)' <=> HasJob(v, i)
      /\ worker'[w] = s /\ \A i : HasJob(w, i)' <=> s.pc \in HoldingPcs /\ s.job = i
      /\ \A i : ~HasJob(w, i)
  BY HoldersAfter DEF HasJob
<1>2. \A i \in Jobs : row'[i].status = IF i = j THEN "IN_PROGRESS" ELSE row[i].status
  BY DEF RowsOK, Row
<1>3. InProgressHeld'
  BY <1>1, <1>2 DEF Handoff, InProgressHeld, HoldingPcs
<1>4. ASSUME NEW i \in Jobs \ doubtful PROVE NoDoubtOf(i)'
  <2>1. NoDoubtOf(i) /\ (i = j => \A v \in Workers : ~HasJob(v, i))
    BY <1>4 DEF Handoff, NoDoubtOf
  <2>2. CASE i = j
    BY <1>1, <1>2, <2>1, <2>2 DEF NoDoubtOf, HoldingPcs
  <2>3. CASE i # j
    BY <1>1, <1>2, <2>1, <2>3 DEF NoDoubtOf, HoldingPcs
  <2> QED BY <2>2, <2>3
<1> QED BY <1>3, <1>4 DEF Handoff

\* The worker lets its row go: settled, back in the queue, or given up.
LEMMA Drops ==
  ASSUME WorkersOK, RowsOK, Handoff, NEW w \in Workers, NEW s \in WorkerState, Become(w, s), Holds(w),
         s.pc \notin HoldingPcs,
         \A i \in Jobs \ {JobOf(w)} : row'[i] = row[i] /\ (i \in lost' <=> i \in lost),
         lost \subseteq lost',
         row'[JobOf(w)].status = "IN_PROGRESS" => JobOf(w) \in lost' \/ (UNCHANGED row /\ worker[w].pc = "marked"),
         NEW doubts, doubtful \subseteq doubts, LetsGo(w, doubts)
  PROVE  Handoff'
<1> DEFINE j == JobOf(w)
<1>1. /\ \A v \in Workers \ {w} : worker'[v] = worker[v] /\ \A i : HasJob(v, i)' <=> HasJob(v, i)
      /\ \A i : ~HasJob(w, i)' /\ (HasJob(w, i) <=> i = j)
      /\ j \in Jobs
  BY HoldersAfter DEF HasJob, WorkersOK
<1>2. \A i \in Jobs \ doubtful' : (i # j => i \notin doubtful) /\ (i = j /\ i \in doubtful => \A v \in Workers : ~HasJob(v, i)')
  BY <1>1 DEF LetsGo, HasJob
<1>3. ASSUME NEW i \in Jobs \ doubtful' PROVE NoDoubtOf(i)'
  <2>1. CASE i = j
    <3>1. \A v \in Workers : ~HasJob(v, i)'
      BY <1>1, <1>2, <1>3, <2>1 DEF Handoff, NoDoubtOf
    <3> QED BY <3>1 DEF NoDoubtOf
  <2>2. CASE i # j
    <3>1. NoDoubtOf(i)
      BY <1>2, <1>3, <2>2 DEF Handoff
    <3> QED BY <1>1, <1>3, <2>2, <3>1 DEF NoDoubtOf
  <2> QED BY <2>1, <2>2
<1>4. InProgressHeld'
  <2> SUFFICES ASSUME NEW i \in Jobs, row'[i].status = "IN_PROGRESS", i \notin lost'
               PROVE  \E v \in Workers : HasJob(v, i)' /\ worker'[v].pc # "marked"
    BY DEF InProgressHeld
  <2>1. row[i].status = "IN_PROGRESS" /\ i \notin lost
    BY <1>1
  <2>2. PICK v \in Workers : HasJob(v, i) /\ worker[v].pc # "marked"
    BY <2>1 DEF Handoff, InProgressHeld
  <2>3. v # w
    BY <1>1, <2>2
  <2> QED BY <1>1, <2>2, <2>3
<1> QED BY <1>3, <1>4 DEF Handoff

\* A committed settlement raises: the worker goes on to record a failure.
LEMMA FallsInDoubt ==
  ASSUME WorkersOK, Handoff, NEW w \in Workers, NEW s \in WorkerState, Become(w, s), Holds(w),
         s.pc = "recording", s.job = JobOf(w), UNCHANGED lost, doubtful' = doubtful \cup {JobOf(w)},
         \A i \in Jobs \ {JobOf(w)} : row'[i] = row[i]
  PROVE  Handoff'
<1>1. /\ \A v \in Workers \ {w} : worker'[v] = worker[v] /\ \A i : HasJob(v, i)' <=> HasJob(v, i)
      /\ worker'[w] = s /\ \A i : (HasJob(w, i)' <=> i = JobOf(w)) /\ (HasJob(w, i) <=> i = JobOf(w))
  BY HoldersAfter DEF HasJob, HoldingPcs
<1>2. InProgressHeld'
  BY <1>1 DEF Handoff, InProgressHeld
<1>3. \A i \in Jobs \ doubtful' : NoDoubtOf(i)'
  BY <1>1 DEF Handoff, NoDoubtOf
<1> QED BY <1>2, <1>3 DEF Handoff

----------------------------------------------------------------------------
(* The inductive invariant *)

MainOK == main \in {"running", "stopping", "returned"} /\ warmPool \in PoolModes

IInv == GateOK /\ BufferOK /\ WorkersOK /\ RowsOK /\ MainOK /\ Handoff

LEMMA States ==
  /\ \A pc : Idle(pc).pc = pc /\ Idle(pc).job = None
  /\ \A pc, j : WithJob(pc, j).pc = pc /\ WithJob(pc, j).job = j
  BY DEF Idle, WithJob

\* A worker that leaves the loop, by an exception or at its end, holds nothing.
LEMMA ExceptionKeeps ==
  ASSUME GateOK, WorkersOK, NEW w \in Workers, ExceptionEnds(w) \/ Leave(w)
  PROVE  GateOK' /\ \E s \in WorkerState : Become(w, s) /\ s.pc \in {"starting", "closing", "exited"}
<1>1. GateOK'
  BY GateKeepsType DEF ExceptionEnds, Leave
<1>2. \E pc \in {"starting", "closing", "exited"} : Become(w, Idle(pc))
  BY DEF ExceptionEnds, Leave
<1>3. \A pc \in {"starting", "closing", "exited"} : Idle(pc) \in WorkerState
  BY WorkerKeepsType DEF WorkersOK
<1> QED BY <1>1, <1>2, <1>3, States

\* get() hands over a reference, or the sentinel that ends the worker.
LEMMA TakeKeeps ==
  ASSUME GateOK, BufferOK, WorkersOK, NEW w \in Workers, Take(w)
  PROVE  /\ GateOK' /\ BufferOK'
         /\ \E s \in WorkerState : /\ Become(w, s) /\ s.pc \notin HoldingPcs
                                   /\ s.pc = "claiming" => s.job \in Jobs
<1>1. BufferOK' /\ Head(buffer) \in Jobs \cup {None}
  BY GetKeepsType DEF Take
<1>2. CASE Head(buffer) = None
  BY <1>1, <1>2, ExceptionKeeps DEF Take, HoldingPcs
<1>3. CASE Head(buffer) # None
  <2>1. Head(buffer) \in Jobs /\ Become(w, WithJob("claiming", Head(buffer))) /\ UNCHANGED gate
    BY <1>1, <1>3 DEF Take
  <2>2. WithJob("claiming", Head(buffer)) \in WorkerState
    BY <2>1, WorkerKeepsType DEF WorkersOK
  <2> QED BY <1>1, <2>1, <2>2, States, GateKeepsType DEF HoldingPcs
<1> QED BY <1>2, <1>3

LEMMA InitInv == Init => IInv
<1> SUFFICES ASSUME Init PROVE IInv
  OBVIOUS
<1>1. GateOK
  BY ProbeAssumption DEF Init, OpenGate, GateOK, GateState, ProbesLeft
<1>2. BufferOK
  BY DEF Init, NewProducer, BufferOK, ProducerState, BlockedHasRef
<1>3. \A w \in Workers : worker[w] = Idle("starting")
  BY DEF Init
<1>4. Idle("starting") \in WorkerState
  BY LimitAssumption DEF Idle, WorkerState
<1>5. WorkersOK
  BY <1>3, <1>4, States DEF Init, WorkersOK, Holds
<1>6. RowsOK /\ MainOK
  <2>1. \A j \in Jobs : row[j].status \in {"ABSENT", "PENDING"} /\ row[j].retry = 0 /\ row[j] \in Row
    BY LimitAssumption DEF Init, Row
  <2>2. row \in [Jobs -> Row]
    BY <2>1 DEF Init
  <2> QED BY <2>1, <2>2, LimitAssumption DEF Init, RowsOK, MainOK
<1>7. Handoff
  <2>1. \A j \in Jobs : row[j].status # "IN_PROGRESS"
    BY DEF Init
  <2> QED BY <1>3, <2>1, States
          DEF Init, HasJob, Holds, Handoff, InProgressHeld, NoDoubtOf
<1> QED BY <1>1, <1>2, <1>5, <1>6, <1>7 DEF IInv

\* A worker that takes no row, lets none go and does not touch the buffer.
LEMMA QuietStep ==
  ASSUME IInv, NEW w \in Workers, NEW s \in WorkerState, Become(w, s),
         s.pc \in HoldingPcs <=> Holds(w), Holds(w) => s.job = JobOf(w),
         s.pc = "claiming" => s.job \in Jobs,
         s.pc = "marked" => row[JobOf(w)].status # "IN_PROGRESS",
         GateOK', BufferOK', UNCHANGED <<row, lost, doubtful, main, warmPool>>
  PROVE  IInv'
<1>1. WorkersOK'
  <2>1. s.pc \in HoldingPcs => s.job \in Jobs
    BY DEF IInv, WorkersOK
  <2> QED BY <2>1, BecomeKeepsType DEF IInv
<1>2. Handoff'
  BY Moves DEF IInv
<1>3. RowsOK' /\ MainOK'
  BY DEF IInv, RowsOK, MainOK
<1> QED BY <1>1, <1>2, <1>3 DEF IInv

\* A worker that lets its row go.
LEMMA EndStep ==
  ASSUME IInv, NEW w \in Workers, NEW s \in WorkerState, Become(w, s), Holds(w),
         s.pc \in {"starting", "entering", "closing", "exited"},
         RowChange(JobOf(w)), UNCHANGED lost \/ GiveUp({JobOf(w)}),
         \/ row'[JobOf(w)].status # "IN_PROGRESS" \/ GiveUp({JobOf(w)})
         \/ UNCHANGED row /\ worker[w].pc = "marked",
         NEW doubts \in SUBSET Jobs, doubtful \subseteq doubts, LetsGo(w, doubts),
         GateOK', UNCHANGED <<main, warmPool, buffer, producer>>
  PROVE  IInv'
<1>1. WorkersOK'
  BY BecomeKeepsType DEF IInv, HoldingPcs
<1>2. /\ JobOf(w) \in Jobs /\ lost' \subseteq Jobs /\ doubtful' \subseteq Jobs
      /\ lost \subseteq lost' /\ \A i \in Jobs \ {JobOf(w)} : i \in lost' <=> i \in lost
      /\ GiveUp({JobOf(w)}) /\ row'[JobOf(w)].status = "IN_PROGRESS" => JobOf(w) \in lost'
  BY DEF IInv, WorkersOK, RowsOK, GiveUp, LetsGo
<1>3. RowsOK' /\ \A i \in Jobs \ {JobOf(w)} : row'[i] = row[i]
  BY <1>2, RowKeepsType DEF IInv
<1>4. Handoff'
  BY <1>2, <1>3, Drops DEF IInv, HoldingPcs
<1>5. BufferOK' /\ MainOK'
  BY DEF IInv, BufferOK, BlockedHasRef, MainOK
<1> QED BY <1>1, <1>3, <1>4, <1>5 DEF IInv

\* A worker whose committed settlement raises.
LEMMA DoubtStep ==
  ASSUME IInv, NEW w \in Workers, NEW s \in WorkerState, Become(w, s), Holds(w),
         s.pc = "recording", s.job = JobOf(w), RowChange(JobOf(w)),
         UNCHANGED <<lost, gate, main, warmPool, buffer, producer>>, doubtful' = doubtful \cup {JobOf(w)}
  PROVE  IInv'
<1>1. JobOf(w) \in Jobs /\ lost' \subseteq Jobs /\ doubtful' \subseteq Jobs
  BY DEF IInv, WorkersOK, RowsOK
<1>2. WorkersOK'
  BY <1>1, BecomeKeepsType DEF IInv
<1>3. RowsOK' /\ \A i \in Jobs \ {JobOf(w)} : row'[i] = row[i]
  BY <1>1, RowKeepsType DEF IInv
<1>4. Handoff'
  BY <1>3, FallsInDoubt DEF IInv
<1>5. GateOK' /\ BufferOK' /\ MainOK'
  BY DEF IInv, GateOK, ProbesLeft, BufferOK, BlockedHasRef, MainOK
<1> QED BY <1>2, <1>3, <1>4, <1>5 DEF IInv

\* A worker that takes a row, and holds it or loses it at once.
LEMMA ClaimStep ==
  ASSUME IInv, NEW w \in Workers, NEW s \in WorkerState, Become(w, s), worker[w].pc = "claiming",
         row[JobOf(w)].status = "PENDING", row' = [row EXCEPT ![JobOf(w)].status = "IN_PROGRESS"],
         \/ s.pc = "claimed" /\ s.job = JobOf(w) /\ lost' = lost \ {JobOf(w)}
         \/ s.pc \in {"starting", "closing", "exited"} /\ lost' = lost \cup {JobOf(w)},
         GateOK', UNCHANGED <<doubtful, main, warmPool, buffer, producer>>
  PROVE  IInv'
<1>1. JobOf(w) \in Jobs /\ ~Holds(w) /\ lost \subseteq Jobs /\ doubtful \subseteq Jobs
  BY DEF IInv, WorkersOK, RowsOK, Holds
<1>2. WorkersOK'
  BY <1>1, BecomeKeepsType DEF IInv, HoldingPcs
<1>3. RowsOK'
  BY <1>1, RowKeepsType DEF IInv, RowChange
<1>4. Handoff'
  BY <1>1, Takes DEF IInv, HoldingPcs
<1>5. BufferOK' /\ MainOK'
  BY DEF IInv, BufferOK, BlockedHasRef, MainOK
<1> QED BY <1>2, <1>3, <1>4, <1>5 DEF IInv

\* A step that leaves workers and rows alone.
LEMMA OtherStep ==
  ASSUME IInv, GateOK', BufferOK', MainOK', UNCHANGED <<row, worker, lost, doubtful>>
  PROVE  IInv'
  BY DEF IInv, WorkersOK, HasJob, Holds, JobOf, RowsOK, Handoff, InProgressHeld, NoDoubtOf

LEMMA WorkerStepInv ==
  ASSUME IInv, NEW w \in Workers, UNCHANGED warmPool,
         EngineReady(w) \/ EngineStartFails(w) \/ WorkerStep(w)
  PROVE  IInv'
<1>1. GateOK /\ BufferOK /\ WorkersOK /\ RowsOK /\ MainOK
  BY DEF IInv
<1>2. /\ UNCHANGED gate \/ CancelRecovery \/ MarkEngineReady \/ SignalRateLimit(w) => GateOK'
      /\ UNCHANGED <<buffer, producer>> => BufferOK'
  BY <1>1, GateKeepsType DEF BufferOK, BlockedHasRef
<1>3. /\ \A pc \in {"starting", "entering", "getting", "closing", "exited"} : Idle(pc) \in WorkerState
      /\ Idle(worker[w].after) \in WorkerState
      /\ \A pc \in {"claiming", "claimed", "releasing", "gated"}, j \in Jobs : WithJob(pc, j) \in WorkerState
      /\ \A after \in {"starting", "entering", "closing"} : Recording(w, after) \in WorkerState
      /\ \A pc \in {"navigating", "marked"} : [worker[w] EXCEPT !.pc = pc] \in WorkerState
      /\ worker[w].tries + 1 < RecordAttempts => [worker[w] EXCEPT !.tries = @ + 1] \in WorkerState
  BY <1>1, WorkerKeepsType DEF WorkersOK
<1>4. /\ \A after \in {"starting", "entering", "closing"} :
           Recording(w, after).pc = "recording" /\ Recording(w, after).job = worker[w].job
      /\ \A pc : [worker[w] EXCEPT !.pc = pc].pc = pc /\ [worker[w] EXCEPT !.pc = pc].job = worker[w].job
      /\ [worker[w] EXCEPT !.tries = @ + 1].pc = worker[w].pc /\ [worker[w] EXCEPT !.tries = @ + 1].job = worker[w].job
      /\ worker[w].after \in {"starting", "entering", "closing"}
  BY <1>1 DEF Recording, WorkersOK, WorkerState
<1>5. /\ Holds(w) \/ worker[w].pc = "claiming" => JobOf(w) \in Jobs
      /\ doubtful \in SUBSET Jobs
      /\ Holds(w) => \A committed \in BOOLEAN : Doubts(w, committed) \in SUBSET Jobs /\ doubtful \subseteq Doubts(w, committed)
  BY <1>1 DEF WorkersOK, RowsOK, Doubts
<1> USE States
<1>6. CASE EngineReady(w)
  BY <1>2, <1>3, <1>6, QuietStep DEF EngineReady, Holds, HoldingPcs
<1>7. CASE EngineStartFails(w)
  BY <1>1, <1>2, <1>7, OtherStep DEF EngineStartFails, MainOK
<1>8. CASE CloseEngine(w)
  BY <1>2, <1>3, <1>8, QuietStep DEF CloseEngine, Holds, HoldingPcs
<1>9. CASE Enter(w) \/ GetWakes(w)
  <2>1. ~Holds(w) /\ UNCHANGED <<row, lost, doubtful, main>>
    BY <1>9 DEF Enter, GetWakes, Holds
  <2>2. CASE Take(w)
    BY <1>1, <2>1, <2>2, TakeKeeps, QuietStep DEF HoldingPcs
  <2>3. CASE Leave(w) /\ UNCHANGED <<buffer, producer>>
    BY <1>1, <1>2, <2>1, <2>3, ExceptionKeeps, QuietStep DEF HoldingPcs
  <2>4. CASE Become(w, Idle("getting")) /\ UNCHANGED <<gate, buffer, producer>>
    BY <1>2, <1>3, <2>1, <2>4, QuietStep DEF HoldingPcs
  <2> QED BY <1>9, <2>2, <2>3, <2>4 DEF Enter, GetWakes
<1>10. CASE Claim(w)
  <2>1. CASE /\ row[JobOf(w)].status = "PENDING" /\ Become(w, WithJob("claimed", JobOf(w)))
             /\ row' = [row EXCEPT ![JobOf(w)].status = "IN_PROGRESS"] /\ lost' = lost \ {JobOf(w)}
    <3> DEFINE s == WithJob("claimed", JobOf(w))
    <3>1. worker[w].pc = "claiming" /\ UNCHANGED <<main, doubtful, gate, buffer, producer>>
      BY <1>10 DEF Claim
    <3>2. s \in WorkerState /\ Become(w, s) /\ s.pc = "claimed" /\ s.job = JobOf(w)
      BY <1>3, <1>5, <2>1, <3>1
    <3> HIDE DEF s
    <3> QED BY <1>2, <2>1, <3>1, <3>2, ClaimStep
  <2>2. CASE Become(w, Idle("entering")) /\ UNCHANGED <<row, lost>>
    <3>1. ~Holds(w) /\ UNCHANGED <<doubtful, main, gate, buffer, producer>>
      BY <1>10 DEF Claim, Holds
    <3> QED BY <1>2, <1>3, <2>2, <3>1, QuietStep DEF HoldingPcs
  <2> QED BY <1>10, <2>1, <2>2 DEF Claim
<1>11. CASE ReadGate(w)
  <2>1. PICK pc \in {"gated", "releasing"} : Become(w, WithJob(pc, JobOf(w)))
    BY <1>11 DEF ReadGate
  <2>2. Holds(w) /\ UNCHANGED <<row, main, lost, doubtful, gate, buffer, producer>>
    BY <1>11 DEF ReadGate, Holds
  <2> QED BY <1>2, <1>3, <1>5, <2>1, <2>2, QuietStep DEF HoldingPcs
<1>12. CASE Release(w)
  <2>1. RowChange(JobOf(w)) /\ row'[JobOf(w)].status # "IN_PROGRESS"
    BY <1>1, <1>5, <1>12 DEF Release, Holds, CommitRelease, RowChange, RowsOK, Row
  <2> QED BY <1>2, <1>3, <1>5, <1>12, <2>1, EndStep DEF Release, Holds
<1>13. ASSUME NEW committed \in BOOLEAN, ClaimRaises(w, committed) PROVE IInv'
  <2>1. GateOK' /\ \E s \in WorkerState : Become(w, s) /\ s.pc \in {"starting", "closing", "exited"}
    BY <1>1, <1>13, ExceptionKeeps DEF ClaimRaises
  <2>2. worker[w].pc = "claiming" /\ ~Holds(w) /\ UNCHANGED <<main, doubtful, buffer, producer>>
    BY <1>13 DEF ClaimRaises, Holds
  <2>3. CASE committed /\ row[JobOf(w)].status = "PENDING"
    BY <1>13, <2>1, <2>2, <2>3, ClaimStep DEF ClaimRaises
  <2>4. CASE UNCHANGED <<row, lost>>
    BY <1>2, <2>1, <2>2, <2>4, QuietStep DEF HoldingPcs
  <2> QED BY <1>13, <2>3, <2>4 DEF ClaimRaises
<1>14. ASSUME NEW committed \in BOOLEAN, ReleaseRaises(w, committed) PROVE IInv'
  <2>1. GateOK' /\ \E s \in WorkerState : Become(w, s) /\ s.pc \in {"starting", "closing", "exited"}
    BY <1>1, <1>14, ExceptionKeeps DEF ReleaseRaises
  <2>2. /\ Holds(w) /\ LetsGo(w, doubtful) /\ UNCHANGED <<main, buffer, producer>>
        /\ \/ CommitRelease(JobOf(w)) /\ UNCHANGED lost
           \/ UNCHANGED row /\ GiveUp({JobOf(w)})
    BY <1>14 DEF ReleaseRaises, Holds
  <2>3. /\ RowChange(JobOf(w)) /\ (UNCHANGED lost \/ GiveUp({JobOf(w)}))
        /\ row'[JobOf(w)].status # "IN_PROGRESS" \/ GiveUp({JobOf(w)})
    BY <1>1, <1>5, <2>2 DEF CommitRelease, RowChange, RowsOK, Row
  <2> QED BY <1>5, <2>1, <2>2, <2>3, EndStep
<1>15. CASE PassToPage(w)
  BY <1>2, <1>3, <1>4, <1>15, QuietStep DEF PassToPage, Holds, HoldingPcs, JobOf
<1>16. CASE Succeed(w)
  <2>1. /\ RowChange(JobOf(w))
        /\ row'[JobOf(w)].status # "IN_PROGRESS" \/ (UNCHANGED row /\ worker[w].pc = "marked")
    BY <1>1, <1>5, <1>16 DEF Succeed, CommitScrape, Holds, RowChange, RowsOK, Row
  <2> QED BY <1>2, <1>3, <1>5, <1>16, <2>1, EndStep DEF Succeed, CommitScrape, Holds
<1>17. CASE PageFails(w) \/ RateLimited(w)
  BY <1>1, <1>2, <1>17, AttemptedKeeps, QuietStep DEF WorkersOK, PageFails, RateLimited, Holds, HoldingPcs, JobOf
<1>18. CASE BrowserFails(w)
  BY <1>2, <1>3, <1>4, <1>18, QuietStep DEF BrowserFails, Holds, HoldingPcs, JobOf
<1>19. CASE OtherError(w)
  BY <1>2, <1>3, <1>4, <1>19, QuietStep DEF OtherError, Holds, HoldingPcs, JobOf
<1>20. CASE RecordFailure(w)
  <2>1. RowChange(JobOf(w)) /\ row'[JobOf(w)].status # "IN_PROGRESS"
    BY <1>1, <1>5, <1>20 DEF RecordFailure, Holds, CommitFailure, FailedRow, RowChange, RowsOK, Row
  <2> QED BY <1>2, <1>3, <1>4, <1>5, <1>20, <2>1, EndStep DEF RecordFailure, Holds
<1>21. ASSUME NEW committed \in BOOLEAN, RecordEnds(w, committed) PROVE IInv'
  <2>1. GateOK' /\ \E s \in WorkerState : Become(w, s) /\ s.pc \in {"starting", "closing", "exited"}
    BY <1>1, <1>21, ExceptionKeeps DEF RecordEnds
  <2>2. /\ Holds(w) /\ LetsGo(w, Doubts(w, committed)) /\ GiveUp({JobOf(w)})
        /\ RowChange(JobOf(w)) /\ UNCHANGED <<main, buffer, producer>>
    BY <1>21 DEF RecordEnds, RecordRaises, Holds, RowChange
  <2> QED BY <1>5, <2>1, <2>2, EndStep
<1>22. ASSUME NEW committed \in BOOLEAN, RecordAgain(w, committed) PROVE IInv'
  <2> DEFINE s == [worker[w] EXCEPT !.tries = @ + 1]
  <2>1. /\ worker[w].pc = "recording" /\ Holds(w) /\ Become(w, s) /\ s \in WorkerState
        /\ s.pc = "recording" /\ s.job = JobOf(w) /\ UNCHANGED <<lost, gate, main, buffer, producer>>
    BY <1>3, <1>4, <1>22 DEF RecordAgain, RecordRaises, Holds, JobOf
  <2>2. CASE committed
    BY <1>22, <2>1, <2>2, DoubtStep DEF RecordAgain, RecordRaises, Doubts, RowChange
  <2>3. CASE ~committed
    BY <1>2, <1>22, <2>1, <2>3, QuietStep DEF RecordAgain, RecordRaises, Doubts, HoldingPcs
  <2> QED BY <2>2, <2>3
<1>23. CASE ReadDone(w)
  <2> DEFINE s == [worker[w] EXCEPT !.pc = "marked"]
  <2>1. /\ Holds(w) /\ Become(w, s) /\ row[JobOf(w)].status # "IN_PROGRESS"
        /\ UNCHANGED <<row, main, lost, doubtful, gate, buffer, producer>>
    BY <1>23 DEF ReadDone, Holds
  <2>2. s \in WorkerState /\ s.pc = "marked" /\ s.job = JobOf(w)
    BY <1>3, <1>4 DEF JobOf
  <2> HIDE DEF s
  <2> QED BY <1>2, <2>1, <2>2, QuietStep DEF HoldingPcs
<1>24. CASE SucceedReplyLost(w)
  <2>1. RowChange(JobOf(w)) /\ Holds(w)
    BY <1>24 DEF SucceedReplyLost, CommitScrape, Holds, RowChange
  <2> QED BY <1>3, <1>4, <1>24, <2>1, DoubtStep DEF SucceedReplyLost, JobOf
<1> QED BY <1>6, <1>7, <1>8, <1>9, <1>10, <1>11, <1>12, <1>13, <1>14, <1>15, <1>16, <1>17, <1>18, <1>19, <1>20,
           <1>21, <1>22, <1>23, <1>24
        DEF WorkerStep

\* The stop cancels every worker: what they held is lost, all at once.
LEMMA InterruptInv == IInv /\ Interrupt /\ UNCHANGED warmPool => IInv'
<1> SUFFICES ASSUME IInv, Interrupt, UNCHANGED warmPool PROVE IInv'
  OBVIOUS
<1>1. GateOK'
  BY GateKeepsType, DispatchAssumption DEF IInv, Interrupt
<1>2. BufferOK' /\ MainOK'
  BY StopKeepsType DEF IInv, Interrupt, MainOK
<1>3. \A w \in Workers : worker'[w] = Idle("exited") /\ ~Holds(w)'
  BY States DEF Interrupt, Holds
<1>4. WorkersOK'
  <2>1. Idle("exited") \in WorkerState
    BY LimitAssumption DEF Idle, WorkerState
  <2> QED BY <1>3, <2>1, States DEF Interrupt, WorkersOK
<1>5. \A j \in Jobs, w \in Workers : HasJob(w, j) /\ row[j].status = "IN_PROGRESS" => j \in lost'
  BY DEF IInv, HasJob, Interrupt, GiveUp
<1>6. RowsOK' /\ doubtful' = {} /\ lost \subseteq lost' /\ UNCHANGED row
  BY DEF IInv, RowsOK, WorkersOK, Interrupt, GiveUp
<1>7. Handoff'
  BY <1>3, <1>5, <1>6 DEF IInv, HasJob, Handoff, InProgressHeld, NoDoubtOf
<1> QED BY <1>1, <1>2, <1>4, <1>6, <1>7 DEF IInv

LEMMA StepInv == IInv /\ [Next]_<<vars, warmPool>> => IInv'
<1> SUFFICES ASSUME IInv, [Next]_<<vars, warmPool>> PROVE IInv'
  OBVIOUS
<1>1. GateOK /\ BufferOK /\ MainOK /\ UNCHANGED warmPool
  BY DEF IInv, Next
<1>2. PICK w \in Workers : TRUE
  BY DispatchAssumption
<1>3. /\ UNCHANGED gate \/ CancelRecovery \/ RecoveryStep => GateOK'
      /\ UNCHANGED <<buffer, producer>> => BufferOK'
      /\ UNCHANGED main => MainOK'
  BY <1>1, GateKeepsType DEF BufferOK, BlockedHasRef, MainOK
<1>4. CASE \E v \in Workers : EngineReady(v) \/ EngineStartFails(v) \/ WorkerStep(v)
  BY <1>1, <1>4, WorkerStepInv
<1>5. CASE ProducerStep
  <2>1. BufferOK'
    BY <1>1, <1>5, ProducerKeepsType
  <2> QED BY <1>3, <1>5, <2>1, OtherStep DEF ProducerStep
<1>6. CASE GateStep
  BY <1>3, <1>6, OtherStep DEF GateStep
<1>7. CASE WorkersDone
  BY <1>1, <1>3, <1>7, StopKeepsType, OtherStep DEF WorkersDone, MainOK
<1>8. CASE Interrupt
  BY <1>1, <1>8, InterruptInv
<1>9. CASE Return
  BY <1>1, <1>3, <1>9, OtherStep DEF Return, MainOK
<1>10. CASE UNCHANGED vars
  BY <1>3, <1>10, OtherStep DEF vars
<1>11. ASSUME NEW j \in Jobs, Arrive(j) PROVE IInv'
  <2>1. /\ row \in [Jobs -> Row] /\ row' = [row EXCEPT ![j].status = "PENDING"] /\ row[j].status = "ABSENT"
        /\ UNCHANGED <<worker, lost, doubtful>>
    BY <1>11 DEF IInv, RowsOK, Arrive
  <2>2. RowsOK'
    BY <2>1, RowKeepsType DEF IInv, RowsOK, RowChange
  <2>3. WorkersOK' /\ \A v \in Workers : \A i : HasJob(v, i)' <=> HasJob(v, i)
    BY <2>1 DEF IInv, WorkersOK, HasJob, Holds, JobOf
  <2>4. \A i \in Jobs : row'[i].status = IF i = j THEN "PENDING" ELSE row[i].status
    BY <2>1 DEF Row
  <2>5. Handoff'
    BY <2>1, <2>3, <2>4 DEF IInv, Handoff, InProgressHeld, NoDoubtOf
  <2> QED BY <1>3, <1>11, <2>2, <2>3, <2>5 DEF IInv, Arrive
<1> QED BY <1>4, <1>5, <1>6, <1>7, <1>8, <1>9, <1>10, <1>11 DEF Next, Step, Returned, vars

----------------------------------------------------------------------------
(* Theorems *)

\* A job that is not in doubt has one holder if its row is IN_PROGRESS and not
\* given up, and none otherwise.
LEMMA HandoffCardinality == IInv => ClaimedAtHandoff
<1> SUFFICES ASSUME IInv, NEW j \in Jobs
             PROVE LET holders == {w \in Workers : Holds(w) /\ JobOf(w) = j} IN
                   /\ row[j].status = "IN_PROGRESS" => holders # {} \/ j \in lost
                   /\ j \notin doubtful =>
                        IF row[j].status = "IN_PROGRESS" THEN Cardinality(holders) = (IF j \in lost THEN 0 ELSE 1)
                                                         ELSE holders = {}
  BY DEF ClaimedAtHandoff
<1> DEFINE holders == {w \in Workers : Holds(w) /\ JobOf(w) = j}
<1>1. InProgressHeld /\ (j \notin doubtful => NoDoubtOf(j)) /\ \A w : w \in holders <=> w \in Workers /\ HasJob(w, j)
  BY DEF IInv, Handoff, HasJob
<1> HIDE DEF holders
<1>2. row[j].status = "IN_PROGRESS" => holders # {} \/ j \in lost
  BY <1>1 DEF InProgressHeld
<1>3. CASE j \in doubtful
  BY <1>2, <1>3 DEF holders
<1>4. CASE j \notin doubtful /\ row[j].status # "IN_PROGRESS"
  <2>1. holders = {}
    BY <1>1, <1>4 DEF NoDoubtOf
  <2> QED BY <1>4, <2>1 DEF holders
<1>5. CASE j \notin doubtful /\ row[j].status = "IN_PROGRESS" /\ j \in lost
  <2>1. holders = {}
    BY <1>1, <1>5 DEF NoDoubtOf
  <2> QED BY <1>5, <2>1, FS_EmptySet DEF holders
<1>6. CASE j \notin doubtful /\ row[j].status = "IN_PROGRESS" /\ j \notin lost
  <2>1. PICK w \in Workers : w \in holders
    BY <1>1, <1>2, <1>6
  <2>2. holders = {w}
    BY <1>1, <1>6, <2>1 DEF NoDoubtOf
  <2>3. Cardinality(holders) = 1
    BY <2>2, FS_Singleton
  <2> QED BY <1>6, <1>2, <2>3 DEF holders
<1> QED BY <1>3, <1>4, <1>5, <1>6

\* In buffered mode no claimed row is forgotten, no two workers work on the same
\* job and none on a row that is not IN_PROGRESS: a reference is only a hint, the
\* claim decides (dispatch.py, claim_by_id of scrape_queue.py).  A job of which a
\* committed settlement was reported as failed is excepted while it is held.
THEOREM HandoffCorrect == Spec => []ClaimedAtHandoff
<1> QED BY InitInv, StepInv, HandoffCardinality, PTL DEF Spec

\* Every reachable state is well typed; the probes of a recovery and the attempts
\* of a worker stay within their limits.
THEOREM DispatchTypes == Spec => []TypeOK
<1>1. IInv => TypeOK
  BY DEF IInv, GateOK, BufferOK, WorkersOK, RowsOK, MainOK, TypeOK
<1> QED BY InitInv, StepInv, <1>1, PTL DEF Spec

----------------------------------------------------------------------------
(* The buffer as a sequence: its references, its sentinels *)

Refs(s) == {s[i] : i \in DOMAIN s} \ {None}
NonesAt(s) == {i \in DOMAIN s : s[i] = None}

\* No reference is in the sequence twice.
Distinct(s) == \A i, k \in DOMAIN s : s[i] = s[k] /\ s[i] # None => i = k

Buffers == Seq(Jobs \cup {None})

LEMMA NonesFinite ==
  ASSUME NEW s \in Buffers
  PROVE  /\ IsFiniteSet(NonesAt(s)) /\ Cardinality(NonesAt(s)) \in Nat
         /\ IsFiniteSet(DOMAIN s) /\ Cardinality(DOMAIN s) = Len(s)
         /\ NonesAt(s) \subseteq DOMAIN s
<1>1. Len(s) \in Nat /\ DOMAIN s = 1 .. Len(s)
  BY LenProperties DEF Buffers
<1>2. IsFiniteSet(1 .. Len(s)) /\ Cardinality(1 .. Len(s)) = Len(s)
  <2>1. 1 \in Int /\ Len(s) \in Int
    BY <1>1
  <2>2. IsFiniteSet(1 .. Len(s)) /\ Cardinality(1 .. Len(s)) = IF 1 > Len(s) THEN 0 ELSE Len(s) - 1 + 1
    BY <2>1, FS_Interval, Zenon
  <2> QED BY <1>1, <2>2
<1>3. NonesAt(s) \subseteq DOMAIN s
  BY DEF NonesAt
<1> QED BY <1>1, <1>2, <1>3, FS_Subset, FS_CardinalityType

\* Each entry is a sentinel or a reference of its own.
LEMMA DistinctCounts ==
  ASSUME NEW s \in Buffers, Distinct(s)
  PROVE  IsFiniteSet(Refs(s)) /\ Cardinality(Refs(s)) + Cardinality(NonesAt(s)) = Len(s)
<1> DEFINE I == DOMAIN s \ NonesAt(s)
           f == [i \in I |-> s[i]]
<1>1. IsFiniteSet(I) /\ Cardinality(I) = Cardinality(DOMAIN s) - Cardinality(NonesAt(s))
  <2>1. DOMAIN s \cap NonesAt(s) = NonesAt(s) /\ IsFiniteSet(DOMAIN s)
    BY NonesFinite
  <2>2. IsFiniteSet(I) /\ Cardinality(I) = Cardinality(DOMAIN s) - Cardinality(DOMAIN s \cap NonesAt(s))
    BY <2>1, FS_Difference, Zenon
  <2> QED BY <2>1, <2>2
<1>2. f \in Bijection(I, Refs(s))
  BY DEF Bijection, Injection, Surjection, IsInjective, NonesAt, Refs, Distinct
<1>3. IsFiniteSet(Refs(s)) /\ Cardinality(Refs(s)) = Cardinality(I)
  BY <1>1, <1>2, FS_Bijection DEF ExistsBijection
<1> QED BY <1>1, <1>3, NonesFinite

LEMMA AppendReference ==
  ASSUME NEW s \in Buffers, NEW j \in Jobs
  PROVE  /\ Append(s, j) \in Buffers /\ Len(Append(s, j)) = Len(s) + 1
         /\ Refs(Append(s, j)) = Refs(s) \cup {j} /\ NonesAt(Append(s, j)) = NonesAt(s)
         /\ Distinct(s) /\ j \notin Refs(s) => Distinct(Append(s, j))
<1> DEFINE t == Append(s, j)
<1>1. /\ Len(s) \in Nat /\ DOMAIN s = 1 .. Len(s)
      /\ t \in Buffers /\ Len(t) = Len(s) + 1 /\ DOMAIN t = 1 .. Len(s) + 1
      /\ \A i \in 1 .. Len(s) : t[i] = s[i]
      /\ t[Len(s) + 1] = j
  BY LenProperties, AppendProperties DEF Buffers
<1>2. DOMAIN t = DOMAIN s \cup {Len(s) + 1} /\ Len(s) + 1 \notin DOMAIN s /\ j # None
  BY <1>1, DispatchAssumption
<1> HIDE DEF t
<1>3. Refs(t) = Refs(s) \cup {j}
  BY <1>1, <1>2 DEF Refs
<1>4. NonesAt(t) = NonesAt(s)
  BY <1>1, <1>2 DEF NonesAt
<1>5. Distinct(s) /\ j \notin Refs(s) => Distinct(t)
  BY <1>1, <1>2 DEF Distinct, Refs
<1> QED BY <1>1, <1>3, <1>4, <1>5 DEF t

LEMMA TakeHead ==
  ASSUME NEW s \in Buffers, s # <<>>
  PROVE  /\ Tail(s) \in Buffers /\ Len(Tail(s)) < Len(s)
         /\ Distinct(s) => Distinct(Tail(s)) /\ Refs(Tail(s)) = Refs(s) \ {Head(s)}
         /\ Head(s) # None => Head(s) \in Refs(s)
         /\ Cardinality(NonesAt(Tail(s))) =
              Cardinality(NonesAt(s)) - (IF Head(s) = None THEN 1 ELSE 0)
<1> DEFINE t == Tail(s)
           h == Head(s)
<1>1. /\ Len(s) \in Nat \ {0} /\ DOMAIN s = 1 .. Len(s) /\ t \in Buffers
      /\ DOMAIN t = 1 .. Len(s) - 1 /\ Len(t) = Len(s) - 1
      /\ \A i \in 1 .. Len(s) - 1 : t[i] = s[i + 1]
      /\ h = s[1]
  BY LenProperties, EmptySeq, HeadTailProperties DEF Buffers
<1> HIDE DEF t, h
<1>2. /\ \A i \in DOMAIN t : i + 1 \in DOMAIN s \ {1} /\ t[i] = s[i + 1]
      /\ \A k \in DOMAIN s \ {1} : k - 1 \in DOMAIN t /\ t[k - 1] = s[k]
  BY <1>1
<1>3. ASSUME Distinct(s) PROVE Distinct(t) /\ Refs(t) = Refs(s) \ {h}
  <2>1. Distinct(t)
    <3> SUFFICES ASSUME NEW i \in DOMAIN t, NEW k \in DOMAIN t, t[i] = t[k], t[i] # None PROVE i = k
      BY DEF Distinct
    <3>1. i + 1 = k + 1
      BY <1>2, <1>3 DEF Distinct
    <3> QED BY <1>1, <3>1
  <2>2. Refs(t) \subseteq Refs(s) \ {h}
    <3> SUFFICES ASSUME NEW i \in DOMAIN t, t[i] # None PROVE t[i] \in Refs(s) /\ t[i] # s[1]
      BY <1>1 DEF Refs
    <3>1. i + 1 \in DOMAIN s /\ i + 1 # 1 /\ t[i] = s[i + 1] /\ 1 \in DOMAIN s
      BY <1>1, <1>2
    <3> QED BY <1>3, <3>1 DEF Distinct, Refs
  <2>3. Refs(s) \ {h} \subseteq Refs(t)
    BY <1>1, <1>2 DEF Refs
  <2> QED BY <2>1, <2>2, <2>3
<1>4. h # None => h \in Refs(s)
  BY <1>1 DEF Refs
<1>5. Cardinality(NonesAt(t)) = Cardinality(NonesAt(s)) - (IF h = None THEN 1 ELSE 0)
  <2> DEFINE f == [i \in NonesAt(t) |-> i + 1]
  <2>1. f \in Bijection(NonesAt(t), NonesAt(s) \ {1})
    <3>1. \A i \in NonesAt(t) : i \in Int /\ i + 1 \in NonesAt(s) \ {1}
      BY <1>1, <1>2 DEF NonesAt
    <3>2. \A k \in NonesAt(s) \ {1} : k - 1 \in NonesAt(t) /\ (k - 1) + 1 = k
      BY <1>1, <1>2 DEF NonesAt
    <3>3. f \in Injection(NonesAt(t), NonesAt(s) \ {1})
      BY <3>1 DEF Injection, IsInjective
    <3>4. f \in Surjection(NonesAt(t), NonesAt(s) \ {1})
      BY <3>1, <3>2 DEF Surjection
    <3> QED BY <3>3, <3>4 DEF Bijection
  <2>2. IsFiniteSet(NonesAt(t)) /\ IsFiniteSet(NonesAt(s))
    BY <1>1, NonesFinite
  <2>3. Cardinality(NonesAt(s) \ {1}) = Cardinality(NonesAt(t))
    BY <2>1, <2>2, FS_Bijection DEF ExistsBijection
  <2>4. 1 \in NonesAt(s) <=> h = None
    BY <1>1 DEF NonesAt
  <2>5. Cardinality(NonesAt(s)) \in Nat
    BY NonesFinite
  <2>6. Cardinality(NonesAt(s) \ {1}) =
          IF 1 \in NonesAt(s) THEN Cardinality(NonesAt(s)) - 1 ELSE Cardinality(NonesAt(s))
    BY <2>2, FS_RemoveElement, Zenon
  <2> QED BY <2>3, <2>4, <2>5, <2>6
<1> QED BY <1>1, <1>3, <1>4, <1>5 DEF t, h

LEMMA AppendSentinels ==
  ASSUME NEW s \in Buffers, NEW n \in Nat
  PROVE  LET t == s \o [i \in 1 .. n |-> None] IN
         /\ Refs(t) = Refs(s)
         /\ Distinct(s) => Distinct(t)
         /\ Cardinality(NonesAt(t)) >= n
<1> DEFINE nones == [i \in 1 .. n |-> None]
           t == s \o nones
<1>1. nones \in Buffers /\ Len(nones) = n
  BY DEF Buffers
<1>2. /\ Len(s) \in Nat /\ DOMAIN s = 1 .. Len(s)
      /\ t \in Buffers /\ Len(t) = Len(s) + n /\ DOMAIN t = 1 .. Len(s) + n
      /\ \A i \in 1 .. Len(s) : t[i] = s[i]
      /\ \A i \in Len(s) + 1 .. Len(s) + n : t[i] = None
  <2>1. /\ Len(s) \in Nat /\ DOMAIN s = 1 .. Len(s)
        /\ t \in Buffers /\ Len(t) = Len(s) + n /\ DOMAIN t = 1 .. Len(t)
        /\ \A i \in 1 .. Len(s) + n : t[i] = IF i <= Len(s) THEN s[i] ELSE nones[i - Len(s)]
    BY <1>1, LenProperties, ConcatProperties DEF Buffers
  <2>2. \A i \in Len(s) + 1 .. Len(s) + n : i - Len(s) \in 1 .. n
    BY <2>1
  <2> QED BY <2>1, <2>2
<1> HIDE DEF t, nones
<1>3. DOMAIN t = DOMAIN s \cup (Len(s) + 1 .. Len(s) + n)
  BY <1>2
<1>4. Refs(t) = Refs(s)
  BY <1>2, <1>3 DEF Refs
<1>5. Distinct(s) => Distinct(t)
  BY <1>2, <1>3 DEF Distinct
<1>6. Cardinality(NonesAt(t)) >= n
  <2>1. Len(s) + 1 .. Len(s) + n \subseteq NonesAt(t)
    BY <1>2, <1>3 DEF NonesAt
  <2>2. Cardinality(Len(s) + 1 .. Len(s) + n) = n
    BY <1>2, FS_Interval
  <2>3. Cardinality(Len(s) + 1 .. Len(s) + n) <= Cardinality(NonesAt(t))
    BY <1>2, <2>1, NonesFinite, FS_Subset
  <2> QED BY <1>2, <2>2, <2>3, NonesFinite
<1> QED BY <1>4, <1>5, <1>6 DEF t, nones

----------------------------------------------------------------------------
(* The dedup set, inductively *)

\* Only a blocked put has a reservation; a reference is buffered once; until
\* the producer stops nothing but references is buffered, within the limit.
DedupInv ==
  /\ producer.pc # "blocked" => producer.ref = None
  /\ producer.seen = Refs(buffer) \cup ({producer.ref} \ {None})
  /\ producer.ref \notin Refs(buffer)
  /\ Distinct(buffer)
  /\ Cardinality(Refs(buffer)) <= BufferSize
  /\ producer.pc # "stopped" => Len(buffer) <= BufferSize

Fields(pc, seen, ref) == producer'.pc = pc /\ producer'.seen = seen /\ producer'.ref = ref

\* What a step does to the fields of the producer that the dedup set is about.
PutStep ==
  \/ \E pc : /\ Fields(pc, producer.seen, producer.ref) /\ UNCHANGED buffer
             /\ pc = producer.pc \/ (producer.pc \notin {"blocked", "stopped"} /\ pc \notin {"blocked", "stopped"})
  \/ \E j \in Jobs \ producer.seen :
       /\ producer.pc = "putting"
       /\ \/ /\ Fields("putting", producer.seen \cup {j}, producer.ref)
             /\ Room /\ buffer' = Append(buffer, j)
          \/ Fields("blocked", producer.seen \cup {j}, j) /\ UNCHANGED buffer
  \/ /\ producer.pc = "blocked"
     /\ \/ Fields("putting", producer.seen, None) /\ Room /\ buffer' = Append(buffer, producer.ref)
        \/ Fields("putting", producer.seen \ {producer.ref}, None) /\ UNCHANGED buffer

LEMMA ProducerPuts ==
  ASSUME BufferOK, ProducerStep
  PROVE  PutStep \/ (Close /\ producer.pc \notin {"blocked", "stopped"})
<1> USE DEF BufferOK, ProducerState, Fields, PutStep
<1>1. CASE PassGate \/ Peek(Pending)
  BY <1>1 DEF PassGate, Peek
<1>2. ASSUME NEW j \in Jobs, Put(j) PROVE PutStep
  BY <1>2 DEF Put
<1>3. CASE PutBlocked
  BY <1>3 DEF PutBlocked
<1>4. CASE PeekNothing \/ PeekRaises
  BY <1>4 DEF PeekNothing, PeekRaises
<1>5. CASE BatchDone \/ WakeUp
  BY <1>5 DEF BatchDone, WakeUp, NextRound
<1> QED BY <1>1, <1>2, <1>3, <1>4, <1>5 DEF ProducerStep

LEMMA PutDedup ==
  ASSUME BufferOK, DedupInv, PutStep
  PROVE  DedupInv'
<1>1. /\ buffer \in Buffers /\ Len(buffer) \in Nat /\ BufferSize \in Nat
      /\ producer.seen \in SUBSET Jobs /\ None \notin Jobs
      /\ producer.pc = "blocked" => producer.ref \in Jobs
  BY DispatchAssumption, BufferAssumption, LenProperties
     DEF BufferOK, Buffers, BlockedHasRef, ProducerState
<1>2. ASSUME NEW pc, Fields(pc, producer.seen, producer.ref), UNCHANGED buffer,
             pc = producer.pc \/ (producer.pc \notin {"blocked", "stopped"} /\ pc \notin {"blocked", "stopped"})
      PROVE  DedupInv'
  BY <1>2 DEF DedupInv, Fields
<1>3. ASSUME NEW j \in Jobs, j \notin Refs(buffer), Room, buffer' = Append(buffer, j)
      PROVE  /\ Refs(buffer') = Refs(buffer) \cup {j} /\ Distinct(buffer')
             /\ Cardinality(Refs(buffer')) <= BufferSize /\ Len(buffer') <= BufferSize
  <2>1. /\ buffer' \in Buffers /\ Len(buffer') = Len(buffer) + 1
        /\ Refs(buffer') = Refs(buffer) \cup {j} /\ Distinct(buffer')
    BY <1>1, <1>3, AppendReference DEF DedupInv
  <2>2. Len(buffer') <= BufferSize
    BY <1>1, <1>3, <2>1 DEF Room
  <2>3. /\ Cardinality(Refs(buffer')) + Cardinality(NonesAt(buffer')) = Len(buffer')
        /\ Cardinality(Refs(buffer')) \in Nat /\ Cardinality(NonesAt(buffer')) \in Nat
    BY <2>1, DistinctCounts, NonesFinite, FS_CardinalityType
  <2> QED BY <1>1, <2>1, <2>2, <2>3
<1>4. ASSUME NEW j \in Jobs \ producer.seen, producer.pc = "putting",
             Fields("putting", producer.seen \cup {j}, producer.ref), Room, buffer' = Append(buffer, j)
      PROVE  DedupInv'
  <2>1. j \notin Refs(buffer) /\ j # None /\ producer.ref = None
    BY <1>1, <1>4 DEF DedupInv
  <2> QED BY <1>3, <1>4, <2>1 DEF DedupInv, Fields
<1>5. ASSUME NEW j \in Jobs \ producer.seen, producer.pc = "putting",
             Fields("blocked", producer.seen \cup {j}, j), UNCHANGED buffer
      PROVE  DedupInv'
  <2>1. j \notin Refs(buffer) /\ j # None /\ producer.ref = None
    BY <1>1, <1>5 DEF DedupInv
  <2> QED BY <1>5, <2>1 DEF DedupInv, Fields
<1>6. ASSUME producer.pc = "blocked", Fields("putting", producer.seen, None), Room,
             buffer' = Append(buffer, producer.ref)
      PROVE  DedupInv'
  <2>1. producer.ref \in Jobs /\ producer.ref \notin Refs(buffer) /\ producer.ref # None
    BY <1>1, <1>6 DEF DedupInv
  <2>2. None \notin Refs(buffer')
    BY DEF Refs
  <2> QED BY <1>3, <1>6, <2>1, <2>2 DEF DedupInv, Fields
<1>7. ASSUME producer.pc = "blocked", Fields("putting", producer.seen \ {producer.ref}, None), UNCHANGED buffer
      PROVE  DedupInv'
  <2>1. producer.ref \in Jobs /\ producer.ref \notin Refs(buffer) /\ None \notin Refs(buffer)
    BY <1>1, <1>7 DEF DedupInv, Refs
  <2> QED BY <1>7, <2>1 DEF DedupInv, Fields
<1> QED BY <1>2, <1>4, <1>5, <1>6, <1>7 DEF PutStep

LEMMA CloseDedup ==
  ASSUME BufferOK, DedupInv, Close, producer.pc \notin {"blocked", "stopped"}
  PROVE  DedupInv' /\ Cardinality(NonesAt(buffer')) >= Cardinality(Workers)
<1>1. Cardinality(Workers) \in Nat /\ buffer \in Buffers
  BY DispatchAssumption, FS_CardinalityType DEF BufferOK, Buffers
<1>2. /\ Refs(buffer') = Refs(buffer) /\ Distinct(buffer')
      /\ Cardinality(NonesAt(buffer')) >= Cardinality(Workers)
  <2> DEFINE t == buffer \o [i \in 1 .. Cardinality(Workers) |-> None]
  <2>1. buffer' = t /\ Distinct(buffer)
    BY DEF Close, DedupInv
  <2>2. /\ Refs(t) = Refs(buffer)
        /\ Distinct(buffer) => Distinct(t)
        /\ Cardinality(NonesAt(t)) >= Cardinality(Workers)
    BY <1>1, AppendSentinels
  <2> HIDE DEF t
  <2> QED BY <2>1, <2>2
<1>3. Fields("stopped", producer.seen, producer.ref)
  BY DEF Close, Fields, BufferOK, ProducerState
<1> QED BY <1>2, <1>3 DEF DedupInv, Fields

LEMMA GetDedup ==
  ASSUME BufferOK, DedupInv, Get
  PROVE  DedupInv'
<1>1. buffer \in Buffers /\ buffer # <<>> /\ producer.seen \in SUBSET Jobs /\ None \notin Jobs
  BY DispatchAssumption DEF BufferOK, Buffers, Get, ProducerState
<1>2. /\ buffer' \in Buffers /\ Len(buffer') < Len(buffer)
      /\ Distinct(buffer') /\ Refs(buffer') = Refs(buffer) \ {Head(buffer)}
      /\ Head(buffer) # None => Head(buffer) \in Refs(buffer)
  BY <1>1, TakeHead DEF Get, DedupInv
<1>3. Fields(producer.pc, producer.seen \ {Head(buffer)}, producer.ref)
  BY DEF Get, Fields, BufferOK, ProducerState
<1>4. producer'.seen = Refs(buffer') \cup ({producer.ref} \ {None})
  BY <1>1, <1>2, <1>3 DEF DedupInv, Fields
<1>5. Cardinality(Refs(buffer')) <= BufferSize
  <2>1. IsFiniteSet(Refs(buffer)) /\ Refs(buffer') \in SUBSET Refs(buffer)
    BY <1>1, <1>2, DistinctCounts DEF DedupInv
  <2>2. /\ Cardinality(Refs(buffer')) <= Cardinality(Refs(buffer))
        /\ Cardinality(Refs(buffer')) \in Nat /\ Cardinality(Refs(buffer)) \in Nat
    BY <2>1, FS_Subset, FS_CardinalityType
  <2> QED BY <2>2, BufferAssumption DEF DedupInv
<1>6. Len(buffer) \in Nat /\ Len(buffer') \in Nat /\ BufferSize \in Nat
  BY <1>1, <1>2, BufferAssumption, LenProperties DEF Buffers
<1> QED BY <1>2, <1>3, <1>4, <1>5, <1>6 DEF DedupInv, Fields

LEMMA TakesFromBuffer ==
  ASSUME NEW w \in Workers, EngineReady(w) \/ EngineStartFails(w) \/ WorkerStep(w)
  PROVE  UNCHANGED <<buffer, producer>> \/ (Take(w) /\ worker[w].pc \in {"entering", "getting"})
  BY DEF EngineReady, EngineStartFails, WorkerStep, CloseEngine, Enter, GetWakes, Claim, ReadGate, Release,
         ReleaseRaises, PassToPage, ReadDone, Succeed, PageFails, RateLimited, BrowserFails, OtherError,
         SucceedReplyLost, RecordFailure, RecordRaises, RecordAgain, RecordEnds, ClaimRaises

LEMMA DedupStep == IInv /\ DedupInv /\ [Next]_<<vars, warmPool>> => DedupInv'
<1> SUFFICES ASSUME IInv, DedupInv, [Next]_<<vars, warmPool>> PROVE DedupInv'
  OBVIOUS
<1>1. BufferOK
  BY DEF IInv
<1>2. CASE UNCHANGED <<buffer, producer>>
  BY <1>2 DEF DedupInv
<1>3. CASE \E w \in Workers : EngineReady(w) \/ EngineStartFails(w) \/ WorkerStep(w)
  BY <1>1, <1>2, <1>3, TakesFromBuffer, GetDedup DEF Take
<1>4. CASE ProducerStep
  BY <1>1, <1>4, ProducerPuts, PutDedup, CloseDedup
<1>5. CASE producer' = Stopping(producer) /\ UNCHANGED buffer
  <2>1. Fields(producer.pc, producer.seen, producer.ref)
    BY <1>1, <1>5 DEF Stopping, Fields, BufferOK, ProducerState
  <2> QED BY <1>5, <2>1 DEF DedupInv, Fields
<1> QED BY <1>2, <1>3, <1>4, <1>5
        DEF Next, Step, Returned, vars, GateStep, WorkersDone, Interrupt, Return, Arrive

LEMMA InvCorrect == Spec => []IInv
<1> QED BY InitInv, StepInv, PTL DEF Spec

LEMMA DedupInit == Init => DedupInv
<1> SUFFICES ASSUME Init PROVE DedupInv
  OBVIOUS
<1>1. buffer = <<>> /\ DOMAIN buffer = {} /\ Len(buffer) = 0
  BY DEF Init
<1>2. Refs(buffer) = {} /\ Distinct(buffer)
  BY <1>1 DEF Refs, Distinct
<1>3. Cardinality(Refs(buffer)) = 0
  BY <1>2, FS_EmptySet
<1>4. producer.pc = "waiting" /\ producer.ref = None /\ producer.seen = {}
  BY DEF Init, NewProducer
<1> QED BY <1>1, <1>2, <1>3, <1>4, BufferAssumption DEF DedupInv

\* The dedup set of the buffer is exact in every reachable state, whatever
\* the order of puts, waits for room, hand-overs, stops and restarts
\* (dispatch.py: put, _put_blocking, get, close, abort).
THEOREM BufferCorrect == Spec => []BufferInv
<1>1. IInv /\ DedupInv => BufferInv
  <2> SUFFICES ASSUME IInv, DedupInv PROVE TypeOK /\ DedupExact
    BY DEF BufferInv
  <2>1. TypeOK
    BY DEF IInv, GateOK, BufferOK, WorkersOK, RowsOK, MainOK, TypeOK
  <2>2. Refs(buffer) = References /\ Cardinality(NonesAt(buffer)) = Sentinels
    BY DEF Refs, NonesAt, References, Sentinels
  <2>3. Cardinality(References) + Sentinels = Len(buffer)
    BY <2>2, DistinctCounts DEF IInv, BufferOK, Buffers, DedupInv
  <2> QED BY <2>1, <2>2, <2>3 DEF DedupInv, DedupExact
<1> QED BY <1>1, DedupInit, DedupStep, InvCorrect, PTL DEF Spec

----------------------------------------------------------------------------
(* The recovery and its watchers *)

Live == gate.task \in {"cooldown", "probing", "backoff"}

\* What the worker that signalled does while the gate is closed: it waits for
\* the gate, or is on its way to close its engine.
AwaitsRecovery(state) ==
  state.pc \in {"gated", "closing"} \/ (state.pc = "recording" /\ state.after = "closing")

\* A live recovery has the gate closed; until main() stops its owner waits.
OwnerWaits ==
  Live => /\ ~gate.open
          /\ main = "running" => gate.owner \in Workers /\ AwaitsRecovery(worker[gate.owner])

\* What a step of worker w does to the gate.
GateChange(w, state) ==
  \/ /\ UNCHANGED gate /\ worker[w].pc \notin {"starting", "closing", "exited"}
     /\ AwaitsRecovery(worker[w]) => AwaitsRecovery(state) \/ gate.open
  \/ CancelRecovery /\ (state.pc = "starting" \/ (warmPool /\ state.pc = "exited"))
  \/ MarkEngineReady
  \/ SignalRateLimit(w) /\ worker[w].pc = "navigating" /\ AwaitsRecovery(state)

LEMMA AttemptedWaits ==
  ASSUME WorkersOK, NEW w \in Workers, Attempted(w)
  PROVE  \E state : Become(w, state) /\ AwaitsRecovery(state)
<1> USE DEF WorkersOK, WorkerState, AwaitsRecovery
<1>1. CASE worker[w].attempt + 1 < PageAttempts
  <2> DEFINE state == [worker[w] EXCEPT !.pc = "gated", !.attempt = @ + 1]
  <2>1. Become(w, state)
    BY <1>1 DEF Attempted
  <2>2. state.pc = "gated"
    OBVIOUS
  <2> QED BY <2>1, <2>2
<1>2. CASE ~(worker[w].attempt + 1 < PageAttempts)
  <2>1. Become(w, Recording(w, "closing"))
    BY <1>2 DEF Attempted
  <2>2. Recording(w, "closing").pc = "recording" /\ Recording(w, "closing").after = "closing"
    BY DEF Recording
  <2> QED BY <2>1, <2>2
<1> QED BY <1>1, <1>2

LEMMA ExceptionChange ==
  ASSUME WorkersOK, NEW w \in Workers, ExceptionEnds(w),
         worker[w].pc \in {"claiming", "releasing", "recording"}
  PROVE  \E state : Become(w, state) /\ GateChange(w, state)
<1>1. CASE warmPool
  <2>1. Become(w, Idle("closing")) /\ UNCHANGED gate
    BY <1>1 DEF ExceptionEnds
  <2>2. AwaitsRecovery(Idle("closing"))
    BY States DEF AwaitsRecovery
  <2> QED BY <2>1, <2>2 DEF GateChange
<1>2. CASE ~warmPool
  <2>1. Become(w, Idle("starting")) /\ CancelRecovery
    BY <1>2 DEF ExceptionEnds
  <2> QED BY <2>1, States DEF GateChange
<1> QED BY <1>1, <1>2

LEMMA LeaveChange ==
  ASSUME NEW w \in Workers, Leave(w), worker[w].pc \in {"entering", "getting"}
  PROVE  \E state : Become(w, state) /\ GateChange(w, state)
  BY States DEF Leave, GateChange, AwaitsRecovery

LEMMA TakeChange ==
  ASSUME NEW w \in Workers, Take(w), worker[w].pc \in {"entering", "getting"}
  PROVE  \E state : Become(w, state) /\ GateChange(w, state)
<1>1. CASE Head(buffer) = None
  BY <1>1, LeaveChange DEF Take
<1>2. CASE Head(buffer) # None
  BY <1>2 DEF Take, GateChange, AwaitsRecovery
<1> QED BY <1>1, <1>2

LEMMA WorkerChange ==
  ASSUME WorkersOK, NEW w \in Workers, EngineReady(w) \/ EngineStartFails(w) \/ WorkerStep(w)
  PROVE  UNCHANGED main /\ \E state : Become(w, state) /\ GateChange(w, state)
<1> DEFINE Goal == UNCHANGED main /\ \E state : Become(w, state) /\ GateChange(w, state)
<1> USE DEF GateChange, AwaitsRecovery
<1>1. CASE EngineReady(w)
  BY <1>1 DEF EngineReady
<1>2. CASE EngineStartFails(w)
  <2>1. Become(w, worker[w]) /\ CancelRecovery /\ worker[w].pc = "starting" /\ UNCHANGED main
    BY <1>2 DEF EngineStartFails, Become, WorkersOK
  <2> QED BY <2>1
<1>3. CASE CloseEngine(w)
  BY <1>3, States DEF CloseEngine
<1>4. CASE Enter(w) \/ GetWakes(w)
  <2>1. worker[w].pc \in {"entering", "getting"} /\ UNCHANGED main
    BY <1>4 DEF Enter, GetWakes
  <2>2. CASE Take(w)
    BY <2>1, <2>2, TakeChange
  <2>3. CASE Leave(w)
    BY <2>1, <2>3, LeaveChange
  <2>4. CASE Become(w, Idle("getting")) /\ UNCHANGED gate
    BY <2>1, <2>4
  <2> QED BY <1>4, <2>2, <2>3, <2>4 DEF Enter, GetWakes
<1>5. CASE Claim(w) \/ ReadGate(w) \/ Release(w) \/ Succeed(w) \/ OtherError(w) \/ BrowserFails(w)
           \/ ReadDone(w) \/ SucceedReplyLost(w)
  BY <1>5 DEF Claim, ReadGate, Release, Succeed, OtherError, BrowserFails, ReadDone, SucceedReplyLost, CommitScrape
<1>6. CASE PassToPage(w)
  BY <1>6 DEF PassToPage
<1>7. ASSUME NEW committed \in BOOLEAN, ReleaseRaises(w, committed) PROVE Goal
  BY <1>7, ExceptionChange DEF ReleaseRaises
<1>8. CASE PageFails(w) \/ RateLimited(w)
  <2>1. worker[w].pc = "navigating" /\ Attempted(w) /\ UNCHANGED main
        /\ (UNCHANGED gate \/ SignalRateLimit(w))
    BY <1>8 DEF PageFails, RateLimited
  <2>2. PICK state : Become(w, state) /\ AwaitsRecovery(state)
    BY <2>1, AttemptedWaits
  <2> QED BY <2>1, <2>2
<1>9. CASE RecordFailure(w)
  <2>1. /\ worker[w].pc = "recording" /\ Become(w, Idle(worker[w].after)) /\ UNCHANGED <<gate, main>>
    BY <1>9 DEF RecordFailure
  <2> QED BY <2>1, States
<1>10. ASSUME NEW committed \in BOOLEAN, RecordEnds(w, committed) PROVE Goal
  BY <1>10, ExceptionChange DEF RecordEnds, RecordRaises
<1>12. ASSUME NEW committed \in BOOLEAN, RecordAgain(w, committed) PROVE Goal
  <2> DEFINE state == [worker[w] EXCEPT !.tries = @ + 1]
  <2>1. /\ worker[w].pc = "recording" /\ Become(w, state) /\ UNCHANGED <<gate, main>>
    BY <1>12 DEF RecordAgain, RecordRaises
  <2>2. state.pc = worker[w].pc /\ state.after = worker[w].after
    BY DEF WorkersOK, WorkerState
  <2> QED BY <2>1, <2>2
<1>11. ASSUME NEW committed \in BOOLEAN, ClaimRaises(w, committed) PROVE Goal
  BY <1>11, ExceptionChange DEF ClaimRaises
<1> QED BY <1>1, <1>2, <1>3, <1>4, <1>5, <1>6, <1>7, <1>8, <1>9, <1>10, <1>11, <1>12 DEF WorkerStep

LEMMA OwnerStep == IInv /\ OwnerWaits /\ [Next]_<<vars, warmPool>> => OwnerWaits'
<1> SUFFICES ASSUME IInv, OwnerWaits, [Next]_<<vars, warmPool>> PROVE OwnerWaits'
  OBVIOUS
<1>1. WorkersOK /\ gate \in GateState
  BY DEF IInv, GateOK
<1>2. CASE CancelRecovery \/ MarkEngineReady
  <2>1. gate'.task \in {"done", "cancelling"}
    BY <1>1, <1>2 DEF CancelRecovery, MarkEngineReady, Cancelled, GateState
  <2> QED BY <2>1 DEF OwnerWaits, Live
<1>3. ASSUME NEW w \in Workers, EngineReady(w) \/ EngineStartFails(w) \/ WorkerStep(w) PROVE OwnerWaits'
  <2>1. PICK state : Become(w, state) /\ GateChange(w, state) /\ UNCHANGED main
    BY <1>1, <1>3, WorkerChange
  <2>2. worker'[w] = state /\ \A v \in Workers \ {w} : worker'[v] = worker[v]
    BY <1>1, <2>1 DEF Become, WorkersOK
  <2>3. CASE UNCHANGED gate /\ (AwaitsRecovery(worker[w]) => AwaitsRecovery(state) \/ gate.open)
    BY <2>1, <2>2, <2>3 DEF OwnerWaits, Live
  <2>4. CASE SignalRateLimit(w) /\ AwaitsRecovery(state) /\ ~UNCHANGED gate
    BY <2>1, <2>2, <2>4 DEF SignalRateLimit, OwnerWaits, Live
  <2>5. CASE SignalRateLimit(w) /\ worker[w].pc = "navigating" /\ UNCHANGED gate
    BY <2>1, <2>2, <2>5 DEF OwnerWaits, Live, AwaitsRecovery
  <2> QED BY <1>2, <2>1, <2>3, <2>4, <2>5 DEF GateChange
<1>4. CASE GateStep
  BY <1>1, <1>4 DEF GateStep, RecoveryStep, CooldownOver, ProbePasses, ProbeFails, TaskCancelled,
                    OwnerWaits, Live, GateState
<1>5. CASE UNCHANGED <<gate, worker, main>>
  BY <1>5 DEF OwnerWaits, Live
<1>6. CASE UNCHANGED gate /\ main' = "stopping"
  BY <1>6 DEF OwnerWaits, Live
<1> QED BY <1>2, <1>3, <1>4, <1>5, <1>6
        DEF Next, Step, Returned, vars, ProducerStep, WorkersDone, Interrupt, Return, Arrive

\* Until main() stops, a recovery never probes with the engine of a session
\* that was closed: the worker that signalled stays behind the closed gate or
\* cancels the recovery when it leaves (gate.py: signal_rate_limit,
\* cancel_recovery, mark_engine_ready; run_buffered and the pool call them).
THEOREM RecoveryCorrect == Spec => []RecoveryProbesLiveEngine
<1>1. Init => OwnerWaits
  BY DEF Init, OpenGate, OwnerWaits, Live
<1>2. OwnerWaits => RecoveryProbesLiveEngine
  BY DEF OwnerWaits, Live, AwaitsRecovery, RecoveryProbesLiveEngine
<1> QED BY <1>1, <1>2, OwnerStep, InvCorrect, PTL DEF Spec

LEMMA WatchedStep == IInv /\ ClosedGateIsWatched /\ [Next]_<<vars, warmPool>> => ClosedGateIsWatched'
<1> SUFFICES ASSUME IInv, ClosedGateIsWatched, [Next]_<<vars, warmPool>>, main' = "running", ~gate'.open
             PROVE  \/ Live' \/ gate'.probes = MaxProbeAttempts
                    \/ \E w \in Workers : worker'[w].pc \in {"starting", "closing"}
                    \/ warmPool' /\ \E w \in Workers : worker'[w].pc = "exited"
  BY DEF ClosedGateIsWatched, Live
<1>1. WorkersOK /\ gate \in GateState /\ (Live => gate.probes < MaxProbeAttempts) /\ UNCHANGED warmPool
  BY DEF IInv, GateOK, ProbesLeft, Live, Next
<1>2. ASSUME NEW w \in Workers, EngineReady(w) \/ EngineStartFails(w) \/ WorkerStep(w)
      PROVE  \/ Live' \/ gate'.probes = MaxProbeAttempts
             \/ \E v \in Workers : worker'[v].pc \in {"starting", "closing"}
             \/ warmPool' /\ \E v \in Workers : worker'[v].pc = "exited"
  <2>1. PICK state : Become(w, state) /\ GateChange(w, state) /\ UNCHANGED main
    BY <1>1, <1>2, WorkerChange
  <2>2. worker'[w] = state /\ \A v \in Workers \ {w} : worker'[v] = worker[v]
    BY <1>1, <2>1 DEF Become, WorkersOK
  <2>3. CASE UNCHANGED gate /\ worker[w].pc \notin {"starting", "closing", "exited"}
    BY <1>1, <2>1, <2>2, <2>3 DEF ClosedGateIsWatched, Live
  <2>4. CASE state.pc = "starting" \/ (warmPool /\ state.pc = "exited")
    BY <1>1, <2>2, <2>4
  <2>5. ~MarkEngineReady
    BY <1>1 DEF MarkEngineReady, GateState
  <2>6. CASE SignalRateLimit(w) /\ ~UNCHANGED gate
    BY <2>6 DEF SignalRateLimit, Live
  <2> QED BY <2>1, <2>3, <2>4, <2>5, <2>6 DEF GateChange
<1>3. CASE GateStep
  <2>1. CASE CooldownOver
    BY <1>1, <2>1 DEF CooldownOver, Live, GateState
  <2>2. ~ProbePasses
    BY <1>1 DEF ProbePasses, GateState
  <2>3. CASE ProbeFails
    BY <1>1, <2>3, ProbeAssumption DEF ProbeFails, Live, GateState
  <2>4. CASE TaskCancelled
    <3>1. gate.task = "cancelling" /\ gate'.open = gate.open /\ gate'.probes = gate.probes
      BY <1>1, <2>4 DEF TaskCancelled, GateState
    <3> QED BY <1>1, <1>3, <3>1 DEF GateStep, ClosedGateIsWatched, Live
  <2> QED BY <1>3, <2>1, <2>2, <2>3, <2>4 DEF GateStep, RecoveryStep
<1>4. CASE UNCHANGED <<gate, worker, main>>
  BY <1>1, <1>4 DEF ClosedGateIsWatched, Live
<1> QED BY <1>2, <1>3, <1>4
        DEF Next, Step, Returned, vars, ProducerStep, WorkersDone, Interrupt, Return, Arrive

\* A closed gate is never forgotten while main() waits: a recovery that is not
\* cancelled, a worker that gets a new engine, a recovery without probes or a
\* returned slot of the pool (the same code).
THEOREM WatchedCorrect == Spec => []ClosedGateIsWatched
<1>1. Init => ClosedGateIsWatched
  BY DEF Init, OpenGate, ClosedGateIsWatched
<1> QED BY <1>1, WatchedStep, InvCorrect, PTL DEF Spec

----------------------------------------------------------------------------
(* The sentinels *)

Active == {w \in Workers : worker[w].pc # "exited"}

\* A worker's step ends no other worker, and a sentinel ends the one that takes it.
LEMMA WorkerEnds ==
  ASSUME WorkersOK, NEW w \in Workers, EngineReady(w) \/ EngineStartFails(w) \/ WorkerStep(w)
  PROVE  /\ w \in Active /\ Active' \subseteq Active
         /\ Take(w) /\ Head(buffer) = None => Active' = Active \ {w}
<1>1. PICK state : Become(w, state)
  BY WorkerChange
<1>2. worker'[w] = state /\ \A v \in Workers \ {w} : worker'[v] = worker[v]
  BY <1>1 DEF Become, WorkersOK
<1>3. w \in Active
  BY DEF Active, EngineReady, EngineStartFails, WorkerStep, CloseEngine, Enter, GetWakes, Claim, ReadGate,
         Release, ReleaseRaises, PassToPage, ReadDone, Succeed, CommitScrape, PageFails, RateLimited, BrowserFails,
         OtherError, SucceedReplyLost, RecordFailure, RecordRaises, RecordAgain, RecordEnds, ClaimRaises
<1>4. Take(w) /\ Head(buffer) = None => worker'[w].pc = "exited"
  BY States DEF Take, Leave, Become, WorkersOK
<1> QED BY <1>2, <1>3, <1>4 DEF Active

LEMMA SentinelStep == IInv /\ DedupInv /\ SentinelsSuffice /\ [Next]_<<vars, warmPool>> => SentinelsSuffice'
<1> SUFFICES ASSUME IInv, DedupInv, SentinelsSuffice, [Next]_<<vars, warmPool>>, producer'.pc = "stopped"
             PROVE  Cardinality(NonesAt(buffer')) >= Cardinality(Active')
  BY DEF SentinelsSuffice, Sentinels, NonesAt, Active
<1>1. BufferOK /\ WorkersOK /\ buffer \in Buffers
  BY DEF IInv, BufferOK, Buffers
<1>2. producer.pc = "stopped" => Cardinality(NonesAt(buffer)) >= Cardinality(Active)
  BY DEF SentinelsSuffice, Sentinels, NonesAt, Active
<1>3. \A S \in SUBSET Workers : IsFiniteSet(S) /\ Cardinality(S) \in Nat /\ Cardinality(S) <= Cardinality(Workers)
  BY DispatchAssumption, FS_Subset, FS_CardinalityType
<1>4. Active \in SUBSET Workers /\ Active' \in SUBSET Workers
  BY DEF Active
<1>5. /\ Cardinality(NonesAt(buffer)) \in Nat /\ Cardinality(Workers) \in Nat
      /\ Cardinality(Active) \in Nat /\ Cardinality(Active') \in Nat
  BY <1>1, <1>3, <1>4, NonesFinite
<1>6. Active' \subseteq Active => Cardinality(Active') <= Cardinality(Active)
  BY <1>3, <1>4, FS_Subset
<1>7. CASE UNCHANGED <<worker, buffer>> /\ producer.pc = "stopped"
  BY <1>2, <1>7 DEF Active
<1>8. ASSUME NEW w \in Workers, EngineReady(w) \/ EngineStartFails(w) \/ WorkerStep(w)
      PROVE  Cardinality(NonesAt(buffer')) >= Cardinality(Active')
  <2>1. /\ w \in Active /\ Active' \subseteq Active
        /\ Take(w) /\ Head(buffer) = None => Active' = Active \ {w}
    BY <1>1, <1>8, WorkerEnds
  <2>2. CASE UNCHANGED <<buffer, producer>>
    BY <1>2, <1>5, <1>6, <2>1, <2>2
  <2>3. CASE Take(w)
    <3>1. buffer # <<>> /\ buffer' = Tail(buffer) /\ producer.pc = "stopped"
      BY <1>1, <2>3 DEF Take, Get, BufferOK, ProducerState
    <3>2. Cardinality(NonesAt(buffer')) =
            Cardinality(NonesAt(buffer)) - (IF Head(buffer) = None THEN 1 ELSE 0)
      BY <1>1, <3>1, TakeHead
    <3>3. Head(buffer) = None => Cardinality(Active') = Cardinality(Active) - 1
      BY <1>3, <1>4, <2>1, <2>3, FS_RemoveElement
    <3> QED BY <1>2, <1>5, <1>6, <2>1, <3>1, <3>2, <3>3
  <2> QED BY <1>8, <2>2, <2>3, TakesFromBuffer
<1>9. CASE ProducerStep
  <2>1. CASE PutStep
    <3>1. producer.pc = "stopped" /\ UNCHANGED buffer
      BY <2>1 DEF PutStep, Fields
    <3> QED BY <1>7, <1>9, <3>1 DEF ProducerStep
  <2>2. CASE Close /\ producer.pc \notin {"blocked", "stopped"}
    <3>1. Cardinality(NonesAt(buffer')) >= Cardinality(Workers)
      BY <1>1, <2>2, CloseDedup
    <3>2. Cardinality(Active') <= Cardinality(Workers)
      BY <1>3, <1>4
    <3>3. Cardinality(NonesAt(buffer')) \in Nat
      <4>1. buffer' \in Buffers
        BY <1>1, <2>2, CloseKeepsType DEF BufferOK, Buffers
      <4> QED BY <4>1, NonesFinite
    <3> QED BY <1>5, <3>1, <3>2, <3>3
  <2> QED BY <1>1, <1>9, <2>1, <2>2, ProducerPuts
<1>10. CASE producer' = Stopping(producer) /\ UNCHANGED <<worker, buffer>>
  BY <1>1, <1>7, <1>10 DEF Stopping, BufferOK, ProducerState
<1>11. CASE Interrupt
  <2>1. Active' = {} /\ UNCHANGED buffer
    BY <1>11, States DEF Interrupt, Active
  <2> QED BY <1>5, <2>1, FS_EmptySet
<1> QED BY <1>7, <1>8, <1>9, <1>10, <1>11
        DEF Next, Step, Returned, vars, GateStep, WorkersDone, Return, Arrive

\* Once the producer has stopped there is a sentinel for each worker that has
\* not returned, whatever was left in the buffer and whoever restarts: no
\* worker waits in get() for ever (dispatch.py: close, get).
THEOREM SentinelsCorrect == Spec => []SentinelsSuffice
<1>1. Init => SentinelsSuffice
  BY DEF Init, NewProducer, SentinelsSuffice
<1> QED BY <1>1, DedupInit, DedupStep, SentinelStep, InvCorrect, PTL DEF Spec
=============================================================================
