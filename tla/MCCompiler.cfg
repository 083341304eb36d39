SPECIFICATION Spec
CONSTANTS
  Languages <- MCLanguages
  MaxItems = 5
  MaxFunctions = 3
INVARIANTS FramesAccounted LocalsConfined FunctionsStayVisible CompilesIntoItsFunction
PROPERTIES ImmutableOnce OperandsStayHome
CHECK_DEADLOCK FALSE
