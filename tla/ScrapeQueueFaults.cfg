SPECIFICATION Spec
CONSTANTS
  j1 = j1
  j2 = j2
  j3 = j3
  w1 = w1
  w2 = w2
  p1 = p1
  p2 = p2
  NoJob = NoJob
  Jobs = {j1, j2}
  LegacyJobs = {}
  Workers = {w1, w2}
  Procs = {p1, p2}
  ProcOf <- TwoProcs
  PipelineProcs = {}
  MaxQueueRetries = 2
  BatchSize = 1
  Buffered = TRUE
  DaemonRuns = TRUE
  RepliesLost = TRUE
  MaxRuns = 3
SYMMETRY PairSymmetry
INVARIANTS CirculatingBelowCeiling NoOrphan TerminalPair RetryInStep IInv
CHECK_DEADLOCK FALSE
