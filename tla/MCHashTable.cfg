CONSTANTS
  k1 = k1
  k2 = k2
  k3 = k3
  k4 = k4
  k5 = k5
  Keys = {k1, k2, k3, k4, k5}
  Values = {v1, v2}
  Name <- MCName
  Hash <- MCHash
  Capacity = 3
  MaxLost = 1
  HasComparator = TRUE
SPECIFICATION Spec
INVARIANTS
  TypeOK
  PairsFound
  SizeCounts
  ValuesFit
PROPERTIES
  KeepsPromise
  CallsReturn
