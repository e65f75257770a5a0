CONSTANTS
  Sources <- MCFarJump
  Programs <- MCPrograms
  StackSize = 24
  MaxFrames = 6
  Builds = {"leftFirst"}
SPECIFICATION Spec
PROPERTY LandsAsListed
CHECK_DEADLOCK FALSE
