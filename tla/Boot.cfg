SPECIFICATION BootSpec

CONSTANTS
  c1 = c1
  c2 = c2
  junk = junk
  Junk = junk
  Cores = {c1, c2}
  BSize = 3
  Sizes = {1, 2, 3}
  ReadSizes = {1}
  MaxMsgs = 1
  MaxRead = 3
  MaxRestarts = 1

INVARIANTS
  FreshUnlessRaced
  TakenLockProtects
  StaysInRing

PROPERTIES
  SendersGetThrough

CHECK_DEADLOCK FALSE
