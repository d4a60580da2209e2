\* Three leads on pages of one, an upload and the other writers, two requests for /stats.
SPECIFICATION FairSpec
CONSTANTS
  r1 = r1
  r2 = r2
  w1 = w1
  Workers = {w1}
  Chunks <- Asked
  NULL = NULL
  Keys = {1, 2, 3}
  Batches <- Files
  MaxTime = 2
  CursorKeys = {2, 3}
  FilterKeys = {2, 3}
  PageSize = 1
  Requests = {r1, r2}
INVARIANT ExportedOnce
INVARIANT ShownInFull
INVARIANT StaleHasCause
PROPERTY BuiltOnce
PROPERTY StatsAnswered
