SPECIFICATION FairSpec
CONSTANTS
  MaxTokens = 4
  Runs <- MixedRuns
  Carets = {2}
  Closings = {"]", "](u)", "]s"}
  Footnotes = TRUE
CHECK_DEADLOCK FALSE
INVARIANTS StackMatchesTree SourceKept SearchComplete
PROPERTY Parsed
