CONSTANTS
  k1 = k1
  k2 = k2
  k3 = k3
  k4 = k4
  k5 = k5
  Keys = {k1, k2, k3, k4, k5}
  Null = Null
  TrueVal = TrueVal
  Values = {Null, TrueVal}
  NoKey = NoKey
  NoAnswer = NoAnswer
  HashOf <- MCHash
  MinCap = 4
SPECIFICATION Spec
INVARIANTS
  TypeOK
  ProbeTerminates
  KeysReachable
  LenCountsUsed
  TombstonesBounded
PROPERTY ImplementsMap
