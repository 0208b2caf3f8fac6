SPECIFICATION Spec
CONSTANTS
  Agent = {a, b, c}
  Pos = {1}
  Root = Root
  None = None
  MaxInserts = 1
  MaxEdits = 4
  MaxSyncs = 3
SYMMETRY AnyAgent
CHECK_DEADLOCK FALSE
INVARIANTS ReplicasAreTrees ConvergesUpToMoves
PROPERTIES TombstonesAreForever
