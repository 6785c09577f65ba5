SPECIFICATION Spec
CONSTANTS
  None = None
  ch1 = ch1
  c1 = c1
  j1 = j1
  m1 = m1
  s1 = s1
  v1 = v1
  v2 = v2
  Channels = {ch1}
  Videos = {v1}
  Jobs = {j1}
  Calls = {c1}
  ManualRuns = {m1}
  RequestRuns = {}
  ScheduledRuns = {s1}
  ChannelOf <- OneChannel
  VideoOf <- MCVideoOf
  Requests = {"enqueue"}
  StageLimit = 1
  PlanLimit = 2
  Faults = {}
INVARIANT SingleOwner
CHECK_DEADLOCK FALSE
