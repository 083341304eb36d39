SPECIFICATION Spec
CONSTANTS
  Nets <- MCNets
  Modes = {"SLL", "LL", "LL_EXACT_AMBIG_DETECTION"}
  Parsers = {p, q}
  MaxPredictions = 2
INVARIANTS PredictsLeast DFAIsTimeless EndsAtEOF ExpectsWhatFits
SYMMETRY MCSymmetry
CHECK_DEADLOCK FALSE
