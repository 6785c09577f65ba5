SPECIFICATION Spec
CONSTANTS
  None = None
  Channels = {c1, c2, c3}
  Broken = {c1}
  Clashing = {c2}
  Ticks = {t1, t2}
  Requests = {r1}
  Limit = 2
INVARIANT TypeOK
INVARIANT SyncsSerialised
PROPERTY CompletedMeansFresh
