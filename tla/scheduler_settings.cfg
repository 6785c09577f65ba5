SPECIFICATION FairSpec
CONSTANTS
  None = None
  Lifespan = Lifespan
  Tasks = {t1, t2, t3, t4}
  Patches = {p1, p2}
  Kind = "metadata"
INVARIANT TypeOK
INVARIANT SingleLoop
INVARIANT SettingApplies
PROPERTY StopReturns
PROPERTY OffFallsSilent
PROPERTY KeepsTicking
CHECK_DEADLOCK FALSE
