SPECIFICATION FairSpec
CONSTANTS
  bronze = bronze
  quarantine = quarantine
  silver = silver
  gold = gold
  audit = audit
  ann = ann
  bob = bob
  NoSubject = NoSubject
  NoRequest = NoRequest
  Tables = {bronze, quarantine, silver, gold, audit}
  Registry <- Layers
  Existing = {bronze, quarantine, silver, gold, audit}
  Mode <- Modes
  KeyHashed = {silver}
  Unkeyed = {quarantine}
  Subjects = {ann, bob}
  Holders <- AtStart
  Feeds <- Edges
  Maintained <- Swept
  Bases <- AnnBases
  Requests <- Asked
  MaxRequests = 2
  MaxFails = 1
  MaxMoves = 1
INVARIANTS ErasedStaysErased PurgedStaysPurged LogTellsTheTruth
PROPERTIES BasisRespected LeftoversGo
