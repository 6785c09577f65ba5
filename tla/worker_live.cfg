SPECIFICATION FairSpec
CONSTANTS
  None = None
  ch1 = ch1
  c1 = c1
  j1 = j1
  j2 = j2
  m1 = m1
  q1 = q1
  v1 = v1
  v2 = v2
  Channels = {ch1}
  Videos = {v1, v2}
  Jobs = {j1, j2}
  Calls = {c1}
  ManualRuns = {m1}
  RequestRuns = {q1}
  ScheduledRuns = {}
  ChannelOf <- OneChannel
  VideoOf <- MCVideoOf
  Requests = {"retry", "pause"}
  StageLimit = 1
  PlanLimit = 2
  Faults = {"crash"}
INVARIANT AuditAccounts
INVARIANT FailureHasCulprit
PROPERTY AcceptedPassEnds
PROPERTY RunningJobEnds
CHECK_DEADLOCK FALSE
