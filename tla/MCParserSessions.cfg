CONSTANTS
  Names <- MCNames
  Sources <- MCSources
  MaxLists = 3
SPECIFICATION SessionsSpec
INVARIANTS
  HeapIsOwned
  EntryIsStored
PROPERTY DeclarationsKeptAcrossLists
