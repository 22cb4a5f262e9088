SPECIFICATION Spec
CONSTANTS
  Labels <- MCLabels
  Puny <- MCPuny
  None = None
  PyFreeDomains <- MCPyFree
  NodeFreeDomains <- MCNodeFree
  GenericNames = {"company"}
  Inputs <- MCInputs
INVARIANTS
  TypeOK
  PythonVerifiedIsCorroborated
  NodeVerifiedIsCorroborated
  GatesAgreeOnCommonGround
  FreeListOnlyTightens
  SiteMetadataOnlyHelps
CHECK_DEADLOCK FALSE
