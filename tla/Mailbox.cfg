SPECIFICATION Spec

CONSTANTS
  N = 3
  Size = 8
  Units = 8
  Leftover <- Leavings
  Null = Null
  Junk = Junk

INVARIANTS
  InTurnAllShareOneMailbox

CHECK_DEADLOCK FALSE
