SPECIFICATION Spec
CONSTANTS
  Node = {n1, n2, n3, n4, n5}
  NULL = NULL
  SafetyChecks = TRUE
  SelfSibling = FALSE
  CallTypes = {"block_quote", "paragraph", "text"}
CHECK_DEADLOCK FALSE
SYMMETRY Symmetry
INVARIANTS WellLinked Acyclic NoDangling Containment
PROPERTIES ImplementsForest EachCall
