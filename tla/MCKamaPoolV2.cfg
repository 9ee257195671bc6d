CONSTANTS
  Threads = {t1, t2}
  Spans = {s1, s2}
  small = small
  large = large
  Classes = {small, large}
  BlockNum <- FourAndTwo
  Threshold = 8
  MAX_DELAY_COUNT = 48
  MaxTrackers = 3
SPECIFICATION Spec
INVARIANTS SpanReturnedFree
CHECK_DEADLOCK FALSE
