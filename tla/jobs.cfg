CONSTANTS
  l1 = l1
  l2 = l2
  Leads = {l1, l2}
  Jobs = {1, 2}
  Workers = {1, 2}
  Known = {l1, l2}
  NoWebsite = {l2}
  Requests <- Overlapping
  Discoverable <- Answers
  ChunkSize = 1
  MaxRetries = 2
  MaxFailedBatches = 2
  Purges = {"clear", "erase"}
  FaultKinds = {"upsert", "db", "crash"}
  NULL = NULL
SPECIFICATION Spec
CHECK_DEADLOCK FALSE
INVARIANT AuditorsAreLive
INVARIANT NoOrphanedJob
INVARIANT ListedLeadsTriedOnce
PROPERTY StopIsUndoneBy
