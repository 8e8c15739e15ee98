SPECIFICATION Spec

CONSTANTS
  XposLow = 7
  YposLow = 3

INVARIANTS
  LocatesItself

CHECK_DEADLOCK TRUE
