CONSTANTS
  Values = {v1, v2}
  NoValue = NoValue
  Nodes = {n1, n2, n3}
  Null = Null
SPECIFICATION Spec
INVARIANTS
  TypeOK
  WellLinked
  BackIsLast
  NoDanglingPointer
PROPERTIES
  KeepsPromise
  CallsReturn
