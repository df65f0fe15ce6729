SPECIFICATION FairSpec
CONSTANTS
  FW = FW
  MF = MF
  t1 = t1
  t2 = t2
  city = city
  None = None
  Junk = Junk
  Cities = {city}
  Jobs = {j1, j2}
  Workers = {w1, w2}
  Codes = {FW, MF}
  Teams = {t1, t2}
  Pages <- SmallPages
  MaxQueueRetries = 2
  MaxRestarts = 1
INVARIANTS LookupInv PositionsRight 
PROPERTIES TransactionsEnd
CHECK_DEADLOCK FALSE
