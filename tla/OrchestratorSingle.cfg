SPECIFICATION Spec
CONSTANTS
  drift = drift
  lineage = lineage
  odd = odd
  poison = poison
  r1 = r1
  r2 = r2
  None = None
  Runners = {r1}
  Events = {drift, lineage, odd, poison}
  Profile <- MCProfile
  BatchSize = 2
  MaxCrashes = 2
INVARIANTS
  OneRowPerEvent
  LogMatchesStatus
PROPERTIES
  VerdictIsFinal
  ImplementsEventQueue
