------------------------- MODULE MCBufferedDispatch -------------------------
(***************************************************************************)
(* Instances of BufferedDispatch for TLC.                                  *)
(***************************************************************************)
EXTENDS BufferedDispatch

\* One job in doubt at a time, in the default mode; none in doubt.
OneInDefault == [pool \in BOOLEAN |-> IF pool THEN 0 ELSE 1]
NoDoubt == [pool \in BOOLEAN |-> 0]

\* What nobody reads again is no part of a state: the engine of a recovery that
\* is over, and the count of its probes once the gate is open.
RecoveryLives == gate.task \in {"cooldown", "probing", "backoff"}
WithoutStaleGate ==
  <<row, worker, main, lost, doubtful, buffer, producer, warmPool, gate.open, gate.task,
    IF RecoveryLives THEN gate.owner ELSE None,
    IF gate.open /\ ~RecoveryLives THEN 0 ELSE gate.probes>>

Symmetry == Permutations(Jobs) \cup Permutations(Workers)
=============================================================================
