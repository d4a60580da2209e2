\* Two overlapping ticks, two leads, a crash, lost database calls and replays.
SPECIFICATION Spec
CONSTANTS
  l1 = l1
  l2 = l2
  s1 = s1
  s2 = s2
  m1 = m1
  m2 = m2
  NULL = NULL
  Sweeper = sweeper
  Leads = {l1, l2}
  Sequences = {s1}
  MsgIds = {m1, m2}
  Pids = {p1, p2, p3}
  NumSteps = 1
  Threaded = {}
  ReplyOnly = {}
  Enrolment <- TwoLeads
  FaultKinds = {"kill", "crash", "duplicate", "slow", "reject", "http"}
  MaxFaults = 2
  Ticks = {t1, t2}
  BatchSize = 2
  Verdicts = {}
  Handlers = {h1}
  EventTypes = {"sent"}
  SoftThreshold = 2
INVARIANT ClaimExclusive
INVARIANT MailedOnce
INVARIANT RoundTripExact
INVARIANT SendFailedWasNotAccepted
SYMMETRY Interchangeable
