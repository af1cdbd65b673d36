SPECIFICATION CleanSpec
CONSTANTS
  a = a
  b = b
  a1 = a1
  a2 = a2
  a3 = a3
  b1 = b1
  NoVersion = NoVersion
  Keys = {a, b}
  Versions = {a1, a2, a3, b1}
  KeyOf <- OrderOf
  UpdatedAt <- Updates
  Valid <- Checks
  MaxAppends = 3
  Extracts <- Deliveries
  MaxCrashes = 1
INVARIANTS LatestVersionServed RejectsAreReported NothingHiddenSilently
