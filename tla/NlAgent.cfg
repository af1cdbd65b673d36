SPECIFICATION Spec
CONSTANTS
  t1 = t1
  t2 = t2
  None = None
  Threads = {t1, t2}
  AllowedSchemas = {"gold"}
  Statements <- Answers
  MaxVersion = 1
  MaxRequests = 3
  MaxFlushes = 2
  MaxFails = 1
SYMMETRY Alike
INVARIANTS ContextIsFresh ExecutedIsAudited AuditedOnce
CHECK_DEADLOCK FALSE
