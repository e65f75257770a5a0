CONSTANTS
  Sources <- MCDeclaresTwice
  Programs <- MCPrograms
  StackSize = 24
  MaxFrames = 6
  Builds = {"leftFirst"}
SPECIFICATION Spec
INVARIANT RedeclarationReported
CHECK_DEADLOCK FALSE
