SPECIFICATION Spec
CONSTANTS
  Grammars <- OnlyCustoms
  Lexers = {p}
  MaxVisits = 20
  MaxResets = 0
INVARIANT InputIsRestored
CHECK_DEADLOCK FALSE
