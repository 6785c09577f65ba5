SPECIFICATION FairSpec
CONSTANTS
  None = None
  Conns = {s1, s2}
  ReplayLimit = 1
  Plans <- MCPlans
INVARIANT TypeOK
INVARIANT EachOnce
INVARIANT LiveInOrder
PROPERTY BackOnline
 
CHECK_DEADLOCK FALSE
