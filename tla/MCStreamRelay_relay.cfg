SPECIFICATION FairSpec
CONSTANTS
  Chars <- MCChars
  Blank = "_"
  ImageTokens = 8
  MaxInput = 16
  MaxOutput = 4
  MaxTotal = 18
  Requests <- MCRequests
  Responses <- MCResponses
  Lines <- MCLines
  MaxLines = 3
INVARIANTS
  ClosedInOrder
  ChunksCostNothing
  OnlyExcessIsFree
  CompletedIsComplete
PROPERTIES
  ImplementsRelay
  GoneIsNoticed
