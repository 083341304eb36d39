SPECIFICATION Spec
CONSTANTS
    Grammars <- MCGrammars
    Strategies = {"default", "bail"}
    MaxParses = 2
    MaxText = 4
INVARIANTS AcceptsSentences TreeHoldsTheText MakesProgress ExpectationsAgree
PROPERTY Derives
CHECK_DEADLOCK FALSE
