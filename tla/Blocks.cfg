SPECIFICATION Spec
CONSTANTS
  Lines <- AllLines
  MaxLines = 4
  MaxListDepth = 3
  HtmlBlankLines = TRUE
  Footnotes = TRUE
CHECK_DEADLOCK FALSE
INVARIANTS AssertionsHold OpenPath LinesInOrder TightAsSpecified
