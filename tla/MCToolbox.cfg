\* A batch tool ends when it has its output; the others at the bounds of the run.
SPECIFICATION ToolboxSpec
CHECK_DEADLOCK FALSE
CONSTANTS
  Absent = Absent
  Collision = Collision
  None = None
  f = f
  C = C
  m1 = m1
  m2 = m2
  i1 = i1
  i2 = i2
  v1 = v1
  v2 = v2
  Separator = 2
  TokenRatio = 4
  WindowDays = 7
  MaxIssues = 1
  Critical = 3
  Stagnant = 1
  MaxIterations = 3
  Merges <- AllMerges
  Packs <- AllPacks
  Milestones <- AllMilestones
  Programs <- AllPrograms
  Functions <- AllFunctions
  Repositories <- AllRepositories
  NotRun = NotRun
  Unset = Unset
  Unordered = Unordered
  Threshold = 2
  MinDepth = 4
  FlattenDepth = 3
  MinBranches = 3
  Recorder = {r1, r2}
  Reports <- AllReports
  Objectives <- AllObjectives
  Retention = 2
  Window = 2
  CriticalBurn = 2
  MinIterations = 2
  Torn = Torn
  MaxRecords = 3
  LastSecond = 3
  MaxDeaths = 1
  User = {u1, u2}
  Fingerprint = {f1, f2}
  Cut = Cut
  MaxCommands = 4
  MaxEdits = 2
  MaxKills = 1
  Crawler = {c1, c2}
  Domain = {d1, d2}
  Short = Short
  MaxDelay = 3
  MaxPages = 3
  MaxRestarts = 1
  Operation = {o1, o2}
  Variable = {v1}
  Missing = Missing
  MaxRuns = 3
  MaxChanges = 3
  MaxDeadRuns = 1
  File = {w1, w2}
  Nothing = Nothing
  MaxComplexity = 2
  MaxSaves = 2
  MaxClock = 3
  MaxOtherRuns = 1
  CycleLimit = 2
  NoFence = NoFence
  NoInfo = NoInfo
  NoBlock = NoBlock
  NewLine = NewLine
  NoFailure = NoFailure
  MaxRounds = 20
  Graphs <- AllGraphs
  Documents <- AllDocuments
  Campaigns <- AllCampaigns
  Evolutions <- AllEvolutions
  Unanswered = Unanswered
  SourceFile = {s1, s2}
  Unparsable = Unparsable
  ModuleLevel = ModuleLevel
  NoSignature = NoSignature
  fa = fa
  ga = ga
  Sources <- AllSources
  MaxWrites = 2
  Defect <- AllDefects
  Deliverable <- AllDeliverables
  Truncated = Truncated
  MaxPasses = 2
  MaxAudits = 3
  MaxMoves = 1
  MaxBreaks = 1
  Uri = {d3}
  Buffers <- AllBuffers
  HeaderLimit = 2
  Unopened = Unopened
  MaxTyped = 2
  MaxAsked = 2
SYMMETRY Sym
INVARIANTS
  MergesAreSound PackIsBest TrajectoryIsToldTrue HealthIsTheWorst
  SearchesAreExact FencesAreAgreedOn CampaignKeepsWhatItFound PassedSchemasAcceptOldCalls
  LedgerGates BaselineIsHonest UpdatesAreSafe AuditFollowsTheSources
PROPERTIES
  RolloverMends  StrategiesAreRemembered ReportsAreCurrent PassesAreFaithful
  EditorsAreServed
