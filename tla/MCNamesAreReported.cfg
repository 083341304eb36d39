SPECIFICATION Spec
CONSTANTS
  Languages <- MCLanguages
  MaxItems = 5
  MaxFunctions = 3
INVARIANT NamesAreReported
CHECK_DEADLOCK FALSE
