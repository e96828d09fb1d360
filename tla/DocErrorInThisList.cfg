CONSTANTS
  Names <- MCNames
  Sources <- MCSources
  MaxLists = 3
SPECIFICATION SessionsSpec
INVARIANT ErrorInThisList
