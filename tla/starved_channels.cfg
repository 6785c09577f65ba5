SPECIFICATION FairSpec
CONSTANTS
  None = None
  Channels = {c1, c2}
  Broken = {c1}
  Clashing = {}
  Ticks = {t1}
  Requests = {}
  Limit = 1
PROPERTY EveryChannelSynced
