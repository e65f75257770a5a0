CONSTANTS
  Sources <- MCVectors
  Programs <- MCPrograms
  StackSize = 24
  MaxFrames = 6
  Builds = {"rightFirst", "slotLast"}
SPECIFICATION Spec
INVARIANT Agrees
CHECK_DEADLOCK FALSE
