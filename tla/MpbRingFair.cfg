SPECIFICATION CarefulSpec

CONSTANTS
  c1 = c1
  c2 = c2
  junk = junk
  Junk = junk
  Cores = {c1, c2}
  BSize = 3
  Sizes = {0, 2, 3}
  ReadSizes = {1}
  MaxMsgs = 2
  MaxRead = 8

INVARIANTS
  WritingComesDown
PROPERTIES
  ExitBlocksTheRing
  TrafficFlows
  BytesArrive

CHECK_DEADLOCK FALSE
