CONSTANTS
  t1 = t1
  t2 = t2
  shared = shared
  Tabs = {t1, t2}
  Buckets = {t1, t2, shared}
  BucketsOf <- MCBucketsOf
  Burst <- MCBurst
  Period <- MCPeriod
  CounterMax = 1
  MaxEdits = 2
  MaxConns = 2
  MaxForward = 2

SPECIFICATION Spec
INVARIANTS FramesIntegrate BucketsFollowReference IdsAscend
SYMMETRY Interchangeable
CHECK_DEADLOCK FALSE
