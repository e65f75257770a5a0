CONSTANTS
  Programs <- MCPrograms
  Length = 3
  StackSize = 6
  MaxFrames = 3
  Builds = {"leftFirst", "rightFirst", "slotLast"}
SPECIFICATION Spec
INVARIANTS
  TypeOK
  UpvaluesOK
PROPERTIES
  ClosedForGood
CHECK_DEADLOCK FALSE
