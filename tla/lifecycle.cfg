\* One lead over two steps; one late, lost, repeated or reordered event or call.
SPECIFICATION Spec
CONSTANTS
  l1 = l1
  l2 = l2
  s1 = s1
  s2 = s2
  m1 = m1
  m2 = m2
  NULL = NULL
  Sweeper = sweeper
  Leads = {l1}
  Sequences = {s1}
  MsgIds = {m1, m2, m3}
  Pids = {p1, p2}
  NumSteps = 2
  Threaded = {}
  ReplyOnly = {}
  Enrolment <- OneRow
  FaultKinds = {"kill", "crash", "db", "late", "slow", "duplicate", "reorder", "transport"}
  MaxFaults = 2
  Ticks = {t1}
  BatchSize = 2
  Verdicts = {"failed", "window"}
  Handlers = {h1}
  EventTypes = {"sent", "replied"}
  SoftThreshold = 2
INVARIANT TypeOK
INVARIANT ConfirmedNeverQueued
INVARIANT ProviderIdTraced
INVARIANT FollowUpHasCause
SYMMETRY Interchangeable
PROPERTY WebhooksAreFinal
PROPERTY LifecycleSpec
