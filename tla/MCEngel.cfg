CONSTANTS
  Sources <- MCSources
  Programs <- MCPrograms
  Layouts <- MCLayouts
  Starts <- MCStarts
  Statements <- MCStatements
  StackSize = 24
  MaxFrames = 6
  Builds = {"leftFirst"}
SPECIFICATION Spec
INVARIANTS
  Agrees
  StatementsBalance
  NoDanglingUpvalue
  FramesNest
  WellLaid
  FollowsLayout
  CallsMatch
  DefinedWithin
PROPERTIES
  CapturedKept
  CallerKept
  Ends
CHECK_DEADLOCK FALSE
