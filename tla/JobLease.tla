------------------------------ MODULE JobLease ------------------------------
(***************************************************************************)
(* What the job queue promises its workers, whatever the tables look like: *)
(* a job that is ready is leased to one worker; only that worker settles   *)
(* it; a lease can be lost with its worker, and a job whose lease was lost *)
(* becomes ready again when nobody holds a lease (process start).          *)
(***************************************************************************)
CONSTANTS Jobs, Workers, NoJob

VARIABLES
  phase,  \* where each job is
  lease   \* the job a worker holds, or NoJob

vars == <<phase, lease>>

\* idle: nothing to do; dead: failed for good.
Phase == {"idle", "ready", "taken", "dead"}

Init == phase \in [Jobs -> Phase] /\ lease = [w \in Workers |-> NoJob]

\* Due jobs are put on offer.
Offer(S) ==
  /\ \A j \in S : phase[j] = "idle"
  /\ phase' = [j \in Jobs |-> IF j \in S THEN "ready" ELSE phase[j]]
  /\ UNCHANGED lease

Take(w, j) ==
  /\ phase[j] = "ready" /\ lease[w] = NoJob
  /\ phase' = [phase EXCEPT ![j] = "taken"]
  /\ lease' = [lease EXCEPT ![w] = j]

\* Done, to be retried or given back, or dead.
Settle(w, to) ==
  /\ lease[w] # NoJob
  /\ phase' = [phase EXCEPT ![lease[w]] = to]
  /\ lease' = [lease EXCEPT ![w] = NoJob]

\* The workers of W lose their leases; nobody knows but the table.
Lose(W) ==
  /\ lease' = [w \in Workers |-> IF w \in W THEN NoJob ELSE lease[w]]
  /\ UNCHANGED phase

\* A starting process makes ready every job in a phase of R.
Reclaim(R) ==
  /\ \A w \in Workers : lease[w] = NoJob
  /\ phase' = [j \in Jobs |-> IF phase[j] \in R THEN "ready" ELSE phase[j]]
  /\ UNCHANGED lease

\* An operator revives a dead job.
Revive(j) ==
  /\ phase[j] = "dead"
  /\ phase' = [phase EXCEPT ![j] = "ready"]
  /\ UNCHANGED lease

Next ==
  \/ \E S \in SUBSET Jobs : Offer(S)
  \/ \E w \in Workers, j \in Jobs : Take(w, j)
  \/ \E w \in Workers, to \in {"idle", "ready", "dead"} : Settle(w, to)
  \/ \E W \in SUBSET Workers : Lose(W)
  \/ \E R \in {{"taken"}, {"taken", "dead"}} : Reclaim(R)
  \/ \E j \in Jobs : Revive(j)

Spec == Init /\ [][Next]_vars

----------------------------------------------------------------------------
\* A job is leased to at most one worker, and is taken as long as it is.
Exclusive ==
  /\ \A w \in Workers : lease[w] # NoJob => phase[lease[w]] = "taken"
  /\ \A v, w \in Workers : lease[v] = lease[w] /\ lease[v] # NoJob => v = w
============================================================================
