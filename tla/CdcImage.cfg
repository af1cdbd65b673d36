SPECIFICATION FairSpec
CONSTANTS
  k1 = k1
  k2 = k2
  p1 = p1
  p2 = p2
  Keys = {k1, k2}
  Partitions = {p1, p2}
  Lanes <- LanePerKey
  BatchLimit = 2
  MaxEvents = 3
  MaxCrashes = 2
INVARIANTS LatestEventWins
PROPERTIES ImplementsReplica NeverGoesBack EventuallyCurrent
