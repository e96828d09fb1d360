CONSTANTS
  Names <- MCNames
  Sources <- MCSources
SPECIFICATION Spec
INVARIANTS
  TypeOK
  HeapIsOwned
  ErrorLocated
  ReferencesSound
  EntryIsFirstRule
PROPERTIES
  DeclarationsKept
  ReadsLanguage
  Termination
