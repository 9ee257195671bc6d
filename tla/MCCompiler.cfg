CONSTANTS
  Parts = {"module", "graph"}
  MaxGraph = 4
  Beyond = 0
  MaxInputs = 2
  Width = 8
  MaxNodes = 3
  MaxOutputs = 1
  Forward = 1
  Templates <- SmallTemplates
  Payloads <- SmallPayloads
  Gelu <- SomeGelu
SPECIFICATION PartSpec
INVARIANTS FusePartition PassesKeepValid FoldSound DceExact
PROPERTIES DceKeepsOutputs FuseKeepsValid
CHECK_DEADLOCK FALSE
