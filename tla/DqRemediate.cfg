SPECIFICATION Spec
CONSTANTS
  o1 = o1
  o2 = o2
  nulls = nulls
  range = range
  volume = volume
  NoCluster = NoCluster
  NoDecision = NoDecision
  Rows = {o1, o2}
  KeyOf <- OrderOf
  Stamp <- Updates
  Clusters = {nulls, range, volume}
  HasColumn <- Columns
  Windows <- Lookbacks
  Decisions <- Answers
  Contents <- Leftovers
  Levels = {1, 2, 3}
  NULL = NULL
  Absent = Absent
  Gone = Gone
  MaxRuns = 2
  MaxWrites = 1
  MaxFails = 1
INVARIANTS NoRowVanishes LogTellsTheTruth
PROPERTIES RepeatsChangeNothing
CHECK_DEADLOCK FALSE
