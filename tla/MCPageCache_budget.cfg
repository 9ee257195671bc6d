CONSTANTS
  Parts = {"v3"}
  NumPages = 5
  MaxRequest = 4
  Granularity = 1
  MaxCachedPages = 2
SPECIFICATION PartSpec
INVARIANT CacheWithinBudget
