CONSTANTS
  l1 = l1
  l2 = l2
  Leads = {l1, l2}
  Jobs = {1, 2}
  Workers = {1, 2}
  Known = {l1, l2}
  NoWebsite = {l2}
  Requests <- Sweeps
  Discoverable <- Answers
  ChunkSize = 1
  MaxRetries = 2
  MaxFailedBatches = 2
  Purges = {}
  FaultKinds = {"crash", "db"}
  NULL = NULL
SPECIFICATION FairSpec
CHECK_DEADLOCK FALSE
PROPERTY JobsEnd
PROPERTY StopEndsWorkers
