CONSTANTS
  ta = ta
  tb = tb
  tc = tc
  Texts = {ta, tb, tc}
  HashString <- MCHash
  MaxCopies = 2
  Null = Null
  TrueVal = TrueVal
  NoKey = NoKey
  NoAnswer = NoAnswer
  MinCap = 2
  MaxOthers = 2
  MaxCells = 3
  MaxLost = 2
SPECIFICATION MemorySpec
INVARIANTS
  OneObject
  FindsAll
  NoFault
  EachOwned
PROPERTIES
  ImplementsInterner
  CallsReturn
  FreesAll
CHECK_DEADLOCK FALSE
