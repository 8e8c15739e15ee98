SPECIFICATION Spec

CONSTANTS
  c1 = c1
  c2 = c2
  junk = junk
  Junk = junk
  Cores = {c1, c2}
  BSize = 4
  Sizes = {1, 3}
  ReadSizes = {1, 2}
  MaxMsgs = 2
  MaxRead = 5

INVARIANTS
  TypeOK
  MutualExclusion
  WindowsDisjoint
  SoleWriterUntilSplit
  WholeUnlessSplit
  PerCoreOrder

PROPERTIES
  FifoSpec

CHECK_DEADLOCK TRUE
