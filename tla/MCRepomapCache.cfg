SPECIFICATION Spec
CONSTANTS
  Process = {p, q}
  Path = {f}
  Content = {u, v, w}
  Unparsable = {w}
  l1_capacity = 1
  ReplySize = 2
  MaxRequests = 2
  None = None
  Error = Error
  Clipped = Clipped
SYMMETRY AnyProcess
CHECK_DEADLOCK FALSE
INVARIANTS StoresAreInOrder AnswersMatchTheText StoredIsFindable
