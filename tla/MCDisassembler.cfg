CONSTANTS
  Sources <- MCSources
  Programs <- MCPrograms
  Starts <- MCStarts
  FlagFirsts = {TRUE, FALSE}
SPECIFICATION Spec
INVARIANTS
  InStep
  Listable
PROPERTY ListsAll
CHECK_DEADLOCK FALSE
