\* A row whose step has a send window, through two weeks of ticks.
SPECIFICATION Spec
CONSTANT
  SlotsPerDay = 4
  Period = 2
  Windows <- MCWindows
  Offsets <- MCOffsets
  Horizon = 58
INVARIANT GivenFirstOpening
INVARIANT SentInFirstOpening
\* The clock stops at Horizon.
CHECK_DEADLOCK FALSE
