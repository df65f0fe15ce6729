--------------------------- MODULE MCScrapeQueue ---------------------------
(* Instances of ScrapeQueue for TLC. *)
EXTENDS ScrapeQueue, ScrapeQueueLease, TLC

CONSTANTS j1, j2, j3, w1, w2, p1, p2

\* Both workers in one process; or one process each.
OneProc == [w \in Workers |-> p1]
TwoProcs == (w1 :> p1) @@ (w2 :> p2)

Symmetry == Permutations(Jobs) \cup Permutations(Workers)
\* With one worker in each process, the two pairs may change places.
PairSymmetry ==
  Permutations(Jobs) \cup {(w1 :> w2) @@ (w2 :> w1) @@ (p1 :> p2) @@ (p2 :> p1)}
============================================================================
