SPECIFICATION PlannedSpec
CONSTANTS
  None = None
  v1 = v1
  v2 = v2
  v3 = v3
  s1 = s1
  Videos = {v1, v2, v3}
  Syncs = {s1, s2}
  Cap = 1
  Confirm = 1
  Hours = 2
  Counted = {TRUE, FALSE}
  Ties = TRUE
INVARIANT TypeOK
INVARIANT RemovalFounded
PROPERTY ListedNeverRemoved
PROPERTY IndexCatchesUp
