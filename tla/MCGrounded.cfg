SPECIFICATION SourceFairSpec
CONSTANTS
  Strip <- MCStrip
  Blank = ""
  Canonical <- MCCanonical
  Unencodable = {"cyclic"}
  AsText <- MCAsText
  CaseFold <- MCCaseFold
  Details <- MCDetails
  MinCoverage = 50
  WithDetails = TRUE
  NumProviders = 2
  Workers = 2
  Engines <- MCEngines
  Answers <- MCAnswers
  Judgements <- AllJudgements
  Deployments <- MCDeployments
  Responses <- MCResponses
  Pages <- MCPages
  NoHeader = NoHeader
  NaN = NaN
  NoLimit = NoLimit
  None = None
INVARIANTS
  SourceInv
  FetchFailureContained
  SettledIsGrounded
  ChargesTraceable
PROPERTIES
  Terminates
