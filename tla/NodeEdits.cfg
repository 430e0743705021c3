SPECIFICATION Spec
CONSTANTS
  n1 = n1
  n2 = n2
  n3 = n3
  n4 = n4
  n5 = n5
  n6 = n6
  n7 = n7
  Node = {n1, n2, n3, n4, n5, n6, n7}
  NULL = NULL
  SafetyChecks = FALSE
  Documents <- MCDocuments
  MaxCalls = 1
CHECK_DEADLOCK FALSE
INVARIANTS EditsAsNamed WalksInOrder
PROPERTY CallsReturn
