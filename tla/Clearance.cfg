SPECIFICATION FairSpec
CONSTANTS
  MaxKills = 1
  MaxCookies = 1
INVARIANTS HarnessInv OnePollPerLife
PROPERTIES KeepaliveStays HarnessEnds
CHECK_DEADLOCK FALSE
