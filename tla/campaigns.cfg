\* Four files, one campaign, generation, worker, unsubscription and purge; one statement fails.
SPECIFICATION Spec
CONSTANTS
  w1 = w1
  NULL = NULL
  Files <- Uploads
  Joined <- TextJoined
  Indexed <- TextIndexed
  CampaignIds = {1}
  Settings = {"active"}
  Seeds = {"_demo_001"}
  Emails = {"e1", "e2"}
  Workers = {w1}
  Chunks <- Asked
  Published = {"e2"}
  MaxBatches = 1
  MaxPurges = 1
  FaultKinds = {"generate", "erase", "unsub"}
INVARIANT TypeOK
INVARIANT LettersKeepAddressee
INVARIANT ErasureAnswersTrue
INVARIANT UnsubscribeReaches
