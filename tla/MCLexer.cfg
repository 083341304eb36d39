SPECIFICATION Spec
CONSTANTS
  Grammars <- MCGrammars
  Lexers = {p, q}
  MaxVisits = 20
  MaxResets = 1
INVARIANTS MatchesLongest TilesTheText TokensAreAsTold
SYMMETRY MCSymmetry
CHECK_DEADLOCK FALSE
