\* An instrument stops when it has answered.
SPECIFICATION InsSpec
CHECK_DEADLOCK FALSE
CONSTANTS
  CycleLimit = 2
  NoFence = NoFence
  NoInfo = NoInfo
  NoBlock = NoBlock
  NewLine = NewLine
  NoFailure = NoFailure
  MaxRounds = 20
  Graphs = {}
  Documents <- AllDocuments
  Campaigns = {}
  Evolutions = {}
  Unanswered = Unanswered
INVARIANTS FixKeepsAcceptedDocuments
