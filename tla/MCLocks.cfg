CONSTANTS
  None = None
  k1 = k1
  k2 = k2
  Caller = {t1, t2, t3}
  Point = {k1, k2}
  Origin = k1
  Calls <- PointCalls
  MaxCalls = 4
SPECIFICATION MCSpec
CHECK_DEADLOCK FALSE
INVARIANT HooksAreSerialized
INVARIANT NobodySeesHalf
PROPERTY EveryCallReturns
