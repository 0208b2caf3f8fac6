SPECIFICATION TcFairSpec
CONSTANTS
  Harness = {"hook", "sandbox", "probe"}
  Proc = {child, p, q, r}
  Leader = child
  None = None
CHECK_DEADLOCK FALSE
INVARIANTS ReturnIsClean
PROPERTIES ReachableCommandsReturn
