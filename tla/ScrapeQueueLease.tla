-------------------------- MODULE ScrapeQueueLease --------------------------
(***************************************************************************)
(* The player_info queue implements JobLease: the phase of a job is read   *)
(* off its queue row, and a worker's lease is the job it works on or whose *)
(* failure it is recording.                                                *)
(***************************************************************************)
EXTENDS ScrapeQueue

\* The deployment for which the queue keeps the promise: one process runs
\* workers, and every commit is answered.
OneReliableProcess == (\A p, q \in Procs : p = q) /\ ~RepliesLost

PhaseOf(status) ==
  CASE status = "PENDING" -> "ready"
    [] status = "IN_PROGRESS" -> "taken"
    [] status = "FAILED" -> "dead"
    [] OTHER -> "idle"

phaseBar == [j \in Jobs |-> PhaseOf(queue[j].status)]
leaseBar == [w \in Workers |-> IF Holds(w) THEN worker[w].job ELSE NoJob]

Lease == INSTANCE JobLease WITH phase <- phaseBar, lease <- leaseBar

\* With one process and no lost replies, every step of the code is a step of
\* the lease protocol or leaves it alone: claims, failures, releases, drains,
\* recoveries and crashes together never lease a job twice.
RefinesJobLease == Lease!Spec
============================================================================
