CONSTANTS
  NumPages = 3
  PageBytes = 2
  SeqIds = {s1, s2}
  NoSeq = NoSeq
  Byte = {0, 1}
  MaxAppend = 3
  Layers = 2
  Capacity = 3
  Tensors = {x, y}
  Values = {1, 2}
  MaxOps = 4
  Own = Own
SPECIFICATION PartSpec
INVARIANTS PagesExclusive SequenceLayout LocateExact PreflightExact GetExact
PROPERTIES FailedAppendBounded ImplementsStore
