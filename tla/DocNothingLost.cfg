CONSTANTS
  Values = {v1, v2}
  NoValue = NoValue
  Nodes = {n1, n2, n3}
  Null = Null
SPECIFICATION AnyOrderSpec
INVARIANT NothingLost
