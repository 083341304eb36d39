SPECIFICATION Spec
CONSTANTS
  Languages <- MCLanguages
  MaxItems = 5
  MaxFunctions = 3
INVARIANT EntryHasExit
CHECK_DEADLOCK FALSE
