SPECIFICATION Spec

CONSTANTS
  XposLow = 3
  YposLow = 7

INVARIANTS
  LocatesItself
  TablesReachCores
  AirsApart
  SharedPagesAreShared
  CleanupUnmaps

CHECK_DEADLOCK TRUE
