\* A threaded step waits for a prior message that is sent already.
SPECIFICATION FairSpec
CONSTANTS
  l1 = l1
  l2 = l2
  s1 = s1
  s2 = s2
  m1 = m1
  m2 = m2
  NULL = NULL
  Sweeper = sweeper
  Leads = {l1}
  Sequences = {s1}
  MsgIds = {m1, m2}
  Pids = {p1, p2}
  NumSteps = 2
  Threaded = {1}
  ReplyOnly = {}
  Enrolment <- OneRow
  FaultKinds = {}
  MaxFaults = 0
  Ticks = {t1}
  BatchSize = 2
  Verdicts = {}
  Handlers = {h1}
  EventTypes = {"sent"}
  SoftThreshold = 2
PROPERTY QueueDrains
