SPECIFICATION Spec
CONSTANTS
  Texts <- MCTexts
  Labels <- MCLabels
  Entities <- MCEntities
  BlockOffset = 2
  MAXBACKTICKS = 2
  MaxParentheses = 2
  MaxLabel = 3
  ManySegments = 1
INVARIANTS
  SourceKept PositionsRight CodeSpansAsSpecified HtmlAsSpecified
  LinksAsSpecified AutolinksAsSpecified
