SPECIFICATION FairSpec
CONSTANTS
  Jobs = {j1, j2}
  Workers = {w1, w2}
  None = None
  BufferSize = 1
  MaxProbeAttempts = 2
  PageAttempts = 2
  RecordAttempts = 2
  MaxQueueRetries = 1
  PoolModes = {FALSE}
  DatabaseFails = FALSE
  MayInterrupt = FALSE
  MaxDoubtful <- NoDoubt
  ProbesMayFail = FALSE
PROPERTIES ProcessEnds
