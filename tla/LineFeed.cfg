SPECIFICATION Spec
CONSTANTS
  Texts <- MCTexts
  LaterTexts <- MCLaterTexts
  UINT_MAX = 6
  Parses = 1
  NONE = NONE
CHECK_DEADLOCK FALSE
INVARIANT FrontMatterDivided
PROPERTIES ImplementsSplit Returns
