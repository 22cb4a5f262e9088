SPECIFICATION Spec
CONSTANTS
  Strip <- MCStrip
  Blank = ""
  Canonical <- MCCanonical
  Unencodable = {}
  Universe <- MCUniverse
  MaxClaims = 4
INVARIANTS
  FiledByField
  AcceptedIffCorroborated
  NothingLost
  OrderIndependent
PROPERTIES
  ConflictSticks
  SuggestionOnlyImproves
CHECK_DEADLOCK FALSE
