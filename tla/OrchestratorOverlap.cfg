SPECIFICATION FairSpec
CONSTANTS
  drift = drift
  lineage = lineage
  odd = odd
  poison = poison
  r1 = r1
  r2 = r2
  None = None
  Runners = {r1, r2}
  Events = {drift, odd}
  Profile <- MCProfile
  BatchSize = 1
  MaxCrashes = 1
INVARIANTS
  AtMostOneEffectPerRunner
  AuditCoversVerdicts
PROPERTIES
  EveryEventSettles
