SPECIFICATION GuardedSpec
CONSTANTS
  None = None
  ch1 = ch1
  c1 = c1
  c2 = c2
  j1 = j1
  m1 = m1
  s1 = s1
  v1 = v1
  v2 = v2
  Channels = {ch1}
  Videos = {v1}
  Jobs = {j1}
  Calls = {c1, c2}
  ManualRuns = {m1}
  RequestRuns = {}
  ScheduledRuns = {s1}
  ChannelOf <- OneChannel
  VideoOf <- MCVideoOf
  Requests = {"retry", "stop", "enqueue", "cancel"}
  StageLimit = 1
  PlanLimit = 2
  Faults = {"crash"}
INVARIANT TypeOK
INVARIANT SingleOwner
INVARIANT ProcessReachable
INVARIANT RunningHasOwner
PROPERTY ImplementsLease
CHECK_DEADLOCK FALSE
