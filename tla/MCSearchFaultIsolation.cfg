SPECIFICATION Spec
CONSTANTS
  K = 1
  Paths <- MCPaths
  Scale = 12
  MaxHits = 3
  Unquote <- MCUnquote
  NoUrl = NoUrl
  Failed = Failed
  Pending = Pending
  None = None
  MaxTokens = 5
  MaxPieces = 3
  MaxRows = 3
  Questions <- MCQuestions
  Offers <- MCOffers
INVARIANT
  FailsOnlyIfAllFail
