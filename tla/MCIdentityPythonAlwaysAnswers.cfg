SPECIFICATION Spec
CONSTANTS
  Labels <- MCLabels
  Puny <- MCPuny
  None = None
  PyFreeDomains <- MCPyFree
  NodeFreeDomains <- MCNodeFree
  GenericNames = {"company"}
  Inputs <- MCInputs
INVARIANT
  PythonAlwaysAnswers
CHECK_DEADLOCK FALSE
