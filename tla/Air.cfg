SPECIFICATION Test1Spec

CONSTANTS
  Nodes = {0, 1, 2, 3}
  Work = 10
  Left <- Leavings

INVARIANTS
  GateShowsWork

PROPERTIES
  AllThrough

CHECK_DEADLOCK TRUE
