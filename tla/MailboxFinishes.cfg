SPECIFICATION Spec

CONSTANTS
  N = 3
  Size = 8
  Units = 8
  Leftover <- Unread
  Null = Null
  Junk = Junk

PROPERTIES
  Finishes

CHECK_DEADLOCK FALSE
