CONSTANTS
  r1 = r1
  r2 = r2
  p1 = p1
  p2 = p2
  j1 = j1
  j2 = j2
  Rows = {r1, r2}
  Partitions = {p1, p2}
  PartitionOf <- TwoPartitions
  Jobs = {j1, j2}
  Strategy <- WithReload
  ExecutorLoss = TRUE
  Endings = {"merged", "refused"}
  Tick = 2
  MaxLag = 1
  MaxTime = 3
  MaxRuns = 3
  MaxFailures = 1
SPECIFICATION Spec
INVARIANTS NoSkippedVersion SuccessIsComplete
