SPECIFICATION Spec
CONSTANTS
  Strip <- MCStrip
  Blank = ""
  Canonical <- MCCanonical
  Unencodable = {"cyclic"}
  NumProviders = 2
  EvidenceSet <- MCEvidence
  Requests <- MCRequests
  MaxEvidence = 4
  None = None
INVARIANTS
  IInv
  ResultTraced
  RequestsAccounted
  DisagreementReviewed
