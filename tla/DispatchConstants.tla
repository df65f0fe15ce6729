------------------------- MODULE DispatchConstants -------------------------
(***************************************************************************)
(* The jobs and workers that the gate, the buffer and the workers of       *)
(* buffered mode share.                                                    *)
(***************************************************************************)
EXTENDS Naturals, FiniteSets

CONSTANTS
  Jobs,     \* player_info jobs of the queue
  Workers,  \* worker coroutines, or slots of the warm pool
  None      \* Python's None: no job, no worker, the sentinel of the buffer

ASSUME DispatchAssumption ==
  /\ IsFiniteSet(Jobs) /\ None \notin Jobs
  /\ IsFiniteSet(Workers) /\ Workers # {} /\ None \notin Workers
=============================================================================
