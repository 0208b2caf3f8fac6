\* A function that is diagnosed no more is left as it is.
SPECIFICATION RfSpec
CHECK_DEADLOCK FALSE
CONSTANTS
  Functions <- PlainFunctions
  Unset = Unset
  Unordered = Unordered
  Threshold = 2
  MinDepth = 4
  FlattenDepth = 3
  MinBranches = 3
INVARIANTS RefactoringsAreEquivalent
