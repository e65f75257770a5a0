CONSTANTS
  Sources <- MCPrintsFunction
  Programs <- MCPrograms
  StackSize = 24
  MaxFrames = 6
  Builds = {"leftFirst"}
SPECIFICATION Spec
INVARIANT KnownTypesPrinted
CHECK_DEADLOCK FALSE
