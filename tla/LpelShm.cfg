SPECIFICATION Spec

CONSTANTS
  Size = 7
  Sizes = {0, 1, 2, 3, 8}
  Stray = {0, 2, 3, 6, 7}

INVARIANTS
  BlocksTile

PROPERTIES
  ShmSpec
  StrayFreeIsHarmless

CHECK_DEADLOCK TRUE
