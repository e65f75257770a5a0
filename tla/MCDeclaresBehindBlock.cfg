CONSTANTS
  Sources <- MCDeclaresBehindBlock
  Programs <- MCPrograms
  StackSize = 24
  MaxFrames = 6
  Builds = {"leftFirst"}
SPECIFICATION Spec
INVARIANT OnlyUndefinedIsUndefined
CHECK_DEADLOCK FALSE
