SPECIFICATION Spec
CONSTANTS
  Texts = {"a"}
  MaxRaw = 8
INVARIANTS
  SameView
CHECK_DEADLOCK FALSE
