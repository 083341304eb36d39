SPECIFICATION Spec
CONSTANTS
  ValueTypes = {"i8", "i32", "i64", "u8", "u64", "d32", "d64", "bool", "void", "tbd", "intauto", "decauto"}
  FixedTypes = {"i8", "i64", "d64", "bool", "void", "tbd"}
  Inputs <- MCInputs
  Hints = {"i8", "i32", "u8", "d64", "bool", "void", "tbd"}
INVARIANTS TypeOK FailureTouchesNothing ComputesResolution
PROPERTIES ImplementsContract Terminates
CHECK_DEADLOCK FALSE
