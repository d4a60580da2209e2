\* Bounces and opt-outs against the recheck of a later batch.
SPECIFICATION Spec
CONSTANTS
  l1 = l1
  l2 = l2
  s1 = s1
  s2 = s2
  m1 = m1
  m2 = m2
  NULL = NULL
  Sweeper = sweeper
  Leads = {l1}
  Sequences = {s1, s2}
  MsgIds = {m1, m2, m3, m4}
  Pids = {p1, p2, p3}
  NumSteps = 1
  Threaded = {}
  ReplyOnly = {}
  Enrolment <- TwoSequences
  FaultKinds = {"crash"}
  MaxFaults = 1
  Ticks = {t1}
  BatchSize = 1
  Verdicts = {}
  Handlers = {h1, h2}
  EventTypes = {"sent", "bounced_hard", "bounced_soft", "unsubscribed"}
  SoftThreshold = 2
INVARIANT SuppressedNotPosted
INVARIANT SuppressionFollows
SYMMETRY Interchangeable
