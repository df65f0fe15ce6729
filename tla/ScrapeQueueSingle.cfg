SPECIFICATION Spec
CONSTANTS
  j1 = j1
  j2 = j2
  j3 = j3
  w1 = w1
  w2 = w2
  p1 = p1
  p2 = p2
  NoJob = NoJob
  Jobs = {j1, j2, j3}
  LegacyJobs = {j2}
  Workers = {w1, w2}
  Procs = {p1}
  ProcOf <- OneProc
  PipelineProcs = {p1}
  MaxQueueRetries = 2
  BatchSize = 2
  Buffered = TRUE
  DaemonRuns = TRUE
  RepliesLost = FALSE
  MaxRuns = 2
INVARIANTS ClaimExclusive NoRedundantScrape SuccessStands
PROPERTIES RetryIsExplicit RefinesJobLease
CHECK_DEADLOCK FALSE
