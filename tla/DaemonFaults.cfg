SPECIFICATION FairSpec
CONSTANTS
  Urls = {u1, u2}
  PollLimit = 1
  DropsLink = TRUE
  MaxRestarts = 2
CHECK_DEADLOCK FALSE
INVARIANTS DaemonInv
PROPERTIES NewIsEnqueued
