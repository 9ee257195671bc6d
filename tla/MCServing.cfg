CONSTANTS
  RequestIds = {1, 2, 3}
  MaxBatch = 2
  Workers = {w1, w2}
  Jobs <- SmallJobs
  Tokens = {1}
  t1 = t1
  t2 = t2
  Threads = {t1, t2}
  Names <- SomeShared
  MaxScopes = 3
  MaxDepth = 3
  MaxEvents = 3
  MaxTime = 2
  Objects = {m1, m2}
  Values = {1, 3}
  Infinity = 9
  MaxCalls = 6
  Free = Free
SPECIFICATION ServingSpec
INVARIANTS FifoOrder DecodeAfterPrefill NoEventLeftOpen SummaryExact
PROPERTIES EveryRequestLeaves EndsOwnEvent MergeReturns
CHECK_DEADLOCK FALSE
