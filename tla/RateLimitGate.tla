--------------------------- MODULE RateLimitGate ---------------------------
(***************************************************************************)
(* infrastructure/browser/gate.py: the shared gate that stops navigation   *)
(* after a rate limit, and the recovery task that reopens it.  The actions *)
(* are composed with the workers and the producer in BufferedDispatch.     *)
(***************************************************************************)
EXTENDS DispatchConstants

CONSTANTS
  MaxProbeAttempts,  \* player_info_gate_max_probe_attempts
  ProbesMayFail      \* an engine may fail every probe of a recovery

ASSUME ProbeAssumption == MaxProbeAttempts \in Nat \ {0} /\ ProbesMayFail \in BOOLEAN

VARIABLE gate

\* task is _recovery_task: what it awaits, "cancelling" between cancel() and
\* the loop's next turn, "done" also for a task that never was.  owner is the
\* worker whose engine probe_fn warms up.
GateState == [open : BOOLEAN,
              task : {"done", "cooldown", "probing", "backoff", "cancelling"},
              probes : 0 .. MaxProbeAttempts, owner : Workers \cup {None}]

OpenGate == [open |-> TRUE, task |-> "done", probes |-> 0, owner |-> None]

TaskRunning == gate.task # "done"
Cancelled(task) == IF task = "done" THEN task ELSE "cancelling"

\* A signal while the gate is closed and a recovery runs is dropped.
SignalRateLimit(w) ==
  gate' = IF ~gate.open /\ TaskRunning THEN gate
          ELSE [open |-> FALSE, task |-> "cooldown", probes |-> 0, owner |-> w]

CancelRecovery == gate' = [gate EXCEPT !.task = Cancelled(@)]

\* Mutant: only the recovery reopens the gate.
MarkEngineReady_StaysClosed == gate' = [gate EXCEPT !.task = Cancelled(@)]
MarkEngineReady == gate' = [gate EXCEPT !.task = Cancelled(@), !.open = TRUE]

\* The recovery task, from one await to the next.
CooldownOver ==
  /\ gate.task \in {"cooldown", "backoff"}
  /\ gate' = [gate EXCEPT !.task = "probing"]

ProbePasses ==
  /\ gate.task = "probing"
  /\ gate' = [gate EXCEPT !.open = TRUE, !.task = "done"]

\* Mutant: one probe too few.
ProbeFails_OneShort ==
  /\ gate.task = "probing"
  /\ gate.probes + 1 < MaxProbeAttempts \/ ProbesMayFail
  /\ gate' = [gate EXCEPT !.probes = @ + 1,
                          !.task = IF gate.probes + 2 < MaxProbeAttempts THEN "backoff" ELSE "done"]

\* A probe fails, raises or times out; after the last one the gate stays closed.
ProbeFails ==
  /\ gate.task = "probing"
  /\ gate.probes + 1 < MaxProbeAttempts \/ ProbesMayFail
  /\ gate' = [gate EXCEPT !.probes = @ + 1,
                          !.task = IF gate.probes + 1 < MaxProbeAttempts THEN "backoff" ELSE "done"]

TaskCancelled ==
  /\ gate.task = "cancelling"
  /\ gate' = [gate EXCEPT !.task = "done"]

RecoveryStep == CooldownOver \/ ProbePasses \/ ProbeFails \/ TaskCancelled
=============================================================================
