SPECIFICATION FairSpec
CONSTANTS
  Urls = {1, 2}
  Chromes = {k1, k2}
  None = None
  MaxRetries = 2
  MaxQueueRetries = 2
  MaxSlots = 2
  MaxStops = 1
CHECK_DEADLOCK FALSE
INVARIANTS EngineInv ErrorsDoNotStrand SerialPagesMatch
PROPERTIES JobsLeaveQueue
