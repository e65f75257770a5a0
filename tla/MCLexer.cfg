CONSTANTS
  Writings <- MCWritings
  Texts <- MCTexts
  Letters <- MCLetters
  MaxInterps = 16
  FirstInterps <- MCFirst
SPECIFICATION LexerSpec
INVARIANTS
  InterpsCount
  LineCounted
  ScansAsWritten
PROPERTIES
  MovesOn
  Finishes
CHECK_DEADLOCK FALSE
