SPECIFICATION FairSpec
CONSTANTS
  Strip <- MCStrip
  Blank = ""
  Canonical <- MCCanonical
  Unencodable = {"cyclic"}
  NumProviders = 2
  Workers = 2
  Engines <- SharedEngines
  Answers <- BudgetAnswers
  Judgements = {"accepted"}
  NaN = NaN
  NoLimit = NoLimit
  None = None
INVARIANT
  RemainingBudgetHeld
