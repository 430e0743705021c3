SPECIFICATION Spec
CONSTANTS
  Documents <- MCDocuments
  MaxParentheses = 2
  MaxLabel = 5
  MAX_AUTOCOMPLETED_CELLS = 1
  MaxColumns = 3
  UINT_MAX = 1000
  MinBudget = 4
INVARIANTS DefinitionsAsSpecified LookupsRight TablesAsSpecified
