SPECIFICATION FairSpec
CONSTANTS
  Strip <- MCStrip
  Blank = ""
  Canonical <- MCCanonical
  Unencodable = {"cyclic"}
  NumProviders = 3
  Workers = 2
  Engines <- RoutingEngines
  Answers <- RoutingAnswers
  Judgements <- AllJudgements
  NaN = NaN
  NoLimit = NoLimit
  None = None
INVARIANTS
  StatusFailsClosed
  LedgerComplete
  RejectedNeverResolved
  OrdinaryFailureContained
PROPERTIES
  ImplementsContract
