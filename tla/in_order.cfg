\* Three steps, the last one reply-only and threaded; events in order, tasks that die.
SPECIFICATION Spec
CONSTANTS
  l1 = l1
  l2 = l2
  s1 = s1
  s2 = s2
  m1 = m1
  m2 = m2
  NULL = NULL
  Sweeper = sweeper
  Leads = {l1}
  Sequences = {s1}
  MsgIds = {m1, m2, m3, m4, m5}
  Pids = {p1, p2, p3, p4, p5}
  NumSteps = 3
  Threaded = {2}
  ReplyOnly = {2}
  Enrolment <- OneRow
  FaultKinds = {"crash"}
  MaxFaults = 2
  Ticks = {t1, t2}
  BatchSize = 2
  Verdicts = {}
  Handlers = {h1, h2}
  EventTypes = {"sent", "replied"}
  SoftThreshold = 2
INVARIANT ReplyStopsSequence
INVARIANT ReplyWalksBranch
INVARIANT ProcessedMeansApplied
SYMMETRY Interchangeable
