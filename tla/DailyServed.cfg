CONSTANTS
  r1 = r1
  r2 = r2
  p1 = p1
  p2 = p2
  j1 = j1
  Rows = {r1, r2}
  Partitions = {p1, p2}
  PartitionOf <- TwoPartitions
  Jobs = {j1}
  Strategy <- Incremental
  ExecutorLoss = FALSE
  Endings = {"merged", "refused"}
  Tick = 1
  MaxLag = 1
  MaxTime = 3
  MaxRuns = 3
  MaxFailures = 1
  NoVersion = NoVersion
  Keys = {r1, r2}
  Versions <- OrderVersions
  KeyOf <- RowOfVersion
  UpdatedAt <- Microseconds
  Valid <- Checks
  MaxAppends = 3
  Extracts <- AnyRows
  MaxCrashes = 1
SPECIFICATION PipelineSpec
INVARIANTS EverySuccessIsServed OneSuccessfulCopy NothingOvertaken
