SPECIFICATION FairSpec
CONSTANTS
  j1 = j1
  j2 = j2
  j3 = j3
  w1 = w1
  w2 = w2
  p1 = p1
  p2 = p2
  NoJob = NoJob
  Jobs = {j1, j2}
  LegacyJobs = {}
  Workers = {w1, w2}
  Procs = {p1}
  ProcOf <- OneProc
  PipelineProcs = {}
  MaxQueueRetries = 2
  BatchSize = 1
  Buffered = FALSE
  DaemonRuns = FALSE
  RepliesLost = FALSE
  MaxRuns = 2

PROPERTIES JobsSettle
CHECK_DEADLOCK FALSE
