SPECIFICATION Spec

CONSTANTS
  First = 2
  Units = 6
  UnitBytes = 2
  SizeMod = 16
  Sizes = {0, 1, 3, 15}
  Null = Null
  Junk = Junk

INVARIANTS
  FreeListSound
  HarmOnlyAtTheEnd
  RoomForRequest

PROPERTIES
  BlocksSpec
  CallsReturn

CHECK_DEADLOCK FALSE
