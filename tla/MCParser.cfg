CONSTANTS
  Written <- MCWritten
  Sloppy <- MCSloppy
  Lexers <- MCLexers
  NextToken <- MCNext
  OperatorFirst = TRUE
  Letters <- MCLetters
  MaxInterps = 16
SPECIFICATION ParserSpec
INVARIANTS
  TreesCostTokens
  EndlessAtStrays
  ParsesAsWritten
  KeepsTokens
  NodesFreed
CHECK_DEADLOCK FALSE
