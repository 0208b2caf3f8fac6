SPECIFICATION Spec
CONSTANTS
  Agent = {a, b}
  Pos = {1}
  Root = Root
  None = None
  MaxInserts = 2
  MaxEdits = 4
  MaxSyncs = 2
INVARIANTS
  StrongEventualConsistency
CHECK_DEADLOCK FALSE
