SPECIFICATION FairSpec
CONSTANTS
  Strip <- MCStrip
  Blank = ""
  Canonical <- MCCanonical
  Unencodable = {"cyclic"}
  NumProviders = 3
  Workers = 2
  Engines <- BudgetEngines
  Answers <- BudgetAnswers
  Judgements = {"accepted"}
  NaN = NaN
  NoLimit = NoLimit
  None = None
INVARIANT
  ExhaustedMeansClosed
