SPECIFICATION Spec
CONSTANTS
  Node <- Nodes
  NULL = NULL
  SafetyChecks = FALSE
  Documents <- MCDocuments
  MaxTicks = 4
INVARIANTS
  ReadsBack
  LinesFilled
