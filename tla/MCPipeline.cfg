CONSTANTS
  Files <- MCFiles
  Code <- MCCode
SPECIFICATION Spec
INVARIANTS
  TypeOK
  SourceOrder
  TokensExtracted
  PositionsExact
  EveryDeclarationStored
  ErrorPlaceTrue
 
