SPECIFICATION Spec
CONSTANTS
  Jobs = {j1, j2}
  Workers = {w1, w2}
  None = None
  BufferSize = 1
  MaxProbeAttempts = 2
  PageAttempts = 1
  RecordAttempts = 2
  MaxQueueRetries = 2
  PoolModes = {TRUE, FALSE}
  DatabaseFails = TRUE
  MayInterrupt = TRUE
  MaxDoubtful <- OneInDefault
  ProbesMayFail = TRUE
SYMMETRY Symmetry
VIEW WithoutStaleGate
INVARIANTS BufferInv ClaimedAtHandoff SentinelsSuffice RecoveryProbesLiveEngine ClosedGateIsWatched
CHECK_DEADLOCK FALSE
