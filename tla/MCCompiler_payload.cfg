CONSTANTS
  Parts = {"module"}
  MaxGraph = 0
  Beyond = 0
  MaxInputs = 2
  Width = 8
  MaxNodes = 3
  MaxOutputs = 0
  Forward = 0
  Templates <- SmallTemplates
  Payloads <- FittingPayloads
  Gelu <- SomeGelu
SPECIFICATION PartSpec
INVARIANT PayloadMatchesShape
CHECK_DEADLOCK FALSE
