CONSTANTS
  Addresses = {1, 2, 3}
  Sizes = {0, 1, 3, 6, 7}
  Capacity = 6
  Width = 3
  Threads = {t1, t2}
  Nobody = Nobody
  MaxAllocs = 3
  ALIGNMENT = 8
  MAX_BYTES = 262144
  MaxSizeClasses = 64
  SmallLimit = 256
  PageSize = 4096
SPECIFICATION PartSpec
INVARIANTS UsedExact BlocksHeldOnce StatsSound IndexMinimal PoliciesFit
