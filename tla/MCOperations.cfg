SPECIFICATION Spec
CONSTANTS
  Trees <- MCTrees
  Hints = {"i8", "i32", "bool", "void", "tbd"}
INVARIANT GeneratesWell
PROPERTIES SecondPassAgrees
CHECK_DEADLOCK FALSE
