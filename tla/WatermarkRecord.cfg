CONSTANTS
  r1 = r1
  r2 = r2
  p1 = p1
  p2 = p2
  j1 = j1
  j2 = j2
  Rows = {r1, r2}
  Partitions = {p1, p2}
  PartitionOf <- TwoPartitions
  Jobs = {j1}
  Strategy <- Incremental
  ExecutorLoss = FALSE
  Endings = {"refused"}
  Tick = 1
  MaxLag = 1
  MaxTime = 3
  MaxRuns = 2
  MaxFailures = 0
SPECIFICATION Spec
INVARIANTS FinishedRunsAreClosed
