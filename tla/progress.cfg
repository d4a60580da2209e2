\* Crashes of ticks and handlers under the scheduling the deployment gives.
SPECIFICATION FairSpec
CONSTANTS
  l1 = l1
  l2 = l2
  s1 = s1
  s2 = s2
  m1 = m1
  m2 = m2
  NULL = NULL
  Sweeper = sweeper
  Leads = {l1}
  Sequences = {s1}
  MsgIds = {m1, m2, m3, m4}
  Pids = {p1, p2}
  NumSteps = 2
  Threaded = {}
  ReplyOnly = {}
  Enrolment <- OneRow
  FaultKinds = {"kill", "crash"}
  MaxFaults = 2
  Ticks = {t1}
  BatchSize = 2
  Verdicts = {"failed"}
  Handlers = {h1, h2}
  EventTypes = {"sent", "replied"}
  SoftThreshold = 2
PROPERTY QueueDrains
PROPERTY EventsProcessed
