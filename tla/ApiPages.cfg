SPECIFICATION ApiSpec
CONSTANTS
  Records = {1, 2, 3}
  InitialTime <- AtFirst
  PageSize = 2
  Sources <- Configured
  Endings = {"merged", "refused"}
  MaxTime = 5
  MaxFails = 1
INVARIANTS FetchIsComplete NoRecordSkipped
PROPERTIES EveryRunEnds
