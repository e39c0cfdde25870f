SPECIFICATION CombiningFairSpec
CONSTANTS
  t1 = t1
  t2 = t2
  t3 = t3
  NoReq = NoReq
  Threads = {t1, t2, t3}
  Blocking = {t1, t2}
  IsBlockingBuffer = TRUE
  MaxCombining = 3
  MaxOps <- TwoTwoOne
  MaxElements = 5
  MaxInUse = 1
INVARIANTS OneCombiner ArrivalOrder
PROPERTIES CallsReturn
\* threads stop making requests after MaxOps
CHECK_DEADLOCK FALSE
