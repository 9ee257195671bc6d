CONSTANTS
  Threads = {t1, t2}
  Requests = {17}
  BlockSize = 72
  Bases = {240, 320}
  MaxTag = 5
  Null = Null
  Keys <- SmallKeys
  KeyOrder <- SmallOrder
  Tiles = {8, 16, 32}
  WarpCounts = {4}
  Latencies = {2, 3, 4}
  Grain = 2
  MaxEntries = 2
  kGemmTile = 2
  Fragment = 2
  kAttentionBlock = 2
  MaxKeys = 4
  AttentionDims <- SmallAttention
  Masked = Masked
  Dims <- SmallDims
  Pad = Pad
SPECIFICATION PartSpec
INVARIANTS ServedIsBest SlotsConserved SlotsFit
PROPERTY KernelsExact
