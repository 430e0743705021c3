SPECIFICATION FairSpec
CONSTANTS
  Node = {n1, n2, n3, n4}
  NULL = NULL
  SafetyChecks = TRUE
  Object = {w1, w2}
  NONE = NONE
  STALE = STALE
  CallTypes = {}
  Footnotes = TRUE
  SelfSibling = FALSE
CHECK_DEADLOCK FALSE
PROPERTY Collected
