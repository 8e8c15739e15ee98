SPECIFICATION Spec

CONSTANTS
  c1 = c1
  c2 = c2
  r = r
  junk = junk
  Junk = junk
  Cores = {c1, c2}
  Reader = r
  BSize = 4
  LineSize = 2
  Sizes = {3, 4}
  ReadSizes = {1, 2}
  MaxMsgs = 2
  MaxRead = 7

INVARIANTS
  NothingHeldBack

PROPERTIES
  RingSpec
  NoWriteStaysInL1

CHECK_DEADLOCK FALSE
