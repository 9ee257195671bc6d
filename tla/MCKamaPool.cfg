CONSTANTS
  Threads = {t1, t2}
  NoThread = NoThread
  NumClasses = 2
  Spans = {s1, s2}
  BlockCount = 2
  BatchNum = 2
  MaxCached = 2
SPECIFICATION FairSpec
INVARIANTS BlocksConserved ListsExact NoLeakAfterExit ShardExclusive
PROPERTY LockReleased
