SPECIFICATION Spec
CONSTANTS
    Grammars <- OnlySets
    Strategies = {"default"}
    MaxParses = 1
    MaxText = 2
INVARIANT WildcardNeedsToken
CHECK_DEADLOCK FALSE
