CONSTANTS
  RequestIds = {1, 2}
  MaxBatch = 4
  Workers = {w1}
  Jobs <- TestJobs
  Tokens = {1}
SPECIFICATION SchedulerSpec
INVARIANT StartedNotPrefilled
