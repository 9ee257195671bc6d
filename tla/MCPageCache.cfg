CONSTANTS
  Parts = {"v2", "v3"}
  NumPages = 5
  MaxRequest = 3
  Granularity = 1
  MaxCachedPages = 2
SPECIFICATION PartSpec
INVARIANTS PageMapExact FreeListsExact WholeOriginsWithinBudget SpansExact
PROPERTIES ImplementsSpanPool V2ImplementsSpanPool
