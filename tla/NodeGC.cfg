SPECIFICATION Spec
CONSTANTS
  Node = {n1, n2, n3, n4}
  NULL = NULL
  SafetyChecks = FALSE
  Object = {w1, w2, w3}
  NONE = NONE
  STALE = STALE
  CallTypes = {"block_quote"}
  Footnotes = FALSE
  SelfSibling = FALSE
CHECK_DEADLOCK FALSE
SYMMETRY Symmetry
INVARIANTS HeldIntact Paired TreesDieWhole
