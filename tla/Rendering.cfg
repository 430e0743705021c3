SPECIFICATION RSpec
CONSTANTS
  Node = {1,2,3,4,5,6,7}
  NULL = NULL
  SafetyChecks = FALSE
  Label = {1, 2, 3}
  LongLabel = {3}
  Shapes <- AllShapes
  MaxSize = 6
CHECK_DEADLOCK FALSE
INVARIANTS NothingStale Settled TagsNest LinksFind RenderersAgree
