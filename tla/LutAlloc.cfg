SPECIFICATION Spec

CONSTANTS
  RemotePages = 7
  Sizes = {1, 2, 4, 7}
  Garbage <- TwoGarbage
  PageSize = 3
  HalfLut = 5
  LOCAL_LUT = 1
  LocalPages = 1
  Local = 1
  Bases <- TwoBases
  Null = Null

INVARIANTS
  TagsMatchHeld
  FreesComeBack
  PointersRoundTrip

PROPERTIES
  PagesSpec
  MallocReturns

CHECK_DEADLOCK TRUE
