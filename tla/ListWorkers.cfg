SPECIFICATION FairSpec
CONSTANTS
  Jobs = {1, 2}
  Workers = {w1, w2}
  None = None
  MaxAttempts = 2
  MaxRuns = 2
CHECK_DEADLOCK FALSE
INVARIANTS RowInv MarkedIsStored OneHolder
PROPERTIES RunEnds
