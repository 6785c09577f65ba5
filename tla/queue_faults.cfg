SPECIFICATION Spec
CONSTANTS
  None = None
  ch1 = ch1
  c1 = c1
  c2 = c2
  j1 = j1
  j2 = j2
  m1 = m1
  s1 = s1
  v1 = v1
  v2 = v2
  Channels = {ch1}
  Videos = {v1}
  Jobs = {j1, j2}
  Calls = {c1, c2}
  ManualRuns = {m1}
  RequestRuns = {}
  ScheduledRuns = {}
  ChannelOf <- OneChannel
  VideoOf <- SameVideo
  Requests = {"candidates", "archive", "auto", "retry", "cancel", "stop"}
  StageLimit = 1
  PlanLimit = 2
  Faults = {"db", "cut", "crash", "media"}
INVARIANT AuditNeverOverstates
PROPERTY SecondJobExplained
PROPERTY AutoQueueNeverRetries
CHECK_DEADLOCK FALSE
