\* Two requests of every kind at once, over one midnight, and the death of the process.
SPECIFICATION FairSpec
CONSTANTS
  c1 = c1
  c2 = c2
  c3 = c3
  server = server
  script = script
  NULL = NULL
  Calls = {c1, c2}
  Locks = {server}
  LockOf <- OneServer
  LastDay = 2
  Ceiling = 4
  Amounts = {0, 1, 2}
  Kinds <- EveryKind
  MaxDrafts = 2
CHECK_DEADLOCK FALSE
INVARIANT BudgetHeld
INVARIANT SpendIsCounted
INVARIANT RefusalIsReported
PROPERTY DailySpec
PROPERTY RequestsEnd
