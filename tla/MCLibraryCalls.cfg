CONSTANTS
  StringTexts <- MCStringTexts
  Width = 9
  Streams <- MCStreams
  Step = 4
  RangeTexts <- MCRangeTexts
  SizeValues = 256
  MaxBlock = 100
  TextSizes <- MCTextSizes
  ItemSizes <- MCItemSizes
  BufferSizes <- MCBufferSizes
  Grammars <- MCGrammars
  Tokens <- MCTokens
  Calls <- MCCalls
  MaxDepth = 4
SPECIFICATION Spec
INVARIANTS
  CopyFaithful
  ResultsRight
  TerminatorPlaced
  WholeFileRead
  AcceptsPatterns
  FirstErrorReported
  BlocksOwned
  MessageShown
  ComparisonAnswers
PROPERTY CallReturns
