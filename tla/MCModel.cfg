SPECIFICATION MCSpec
CONSTANTS
  Models = {"none", "k1"}
  StateKinds <- MCStateKinds
  Retained = 1
  MaxEvents = 10
  MaxCalls = 2
  MaxVersions = 2
  MaxCompactions = 2
  MaxTurns = 2
  MaxMessages = 1
  MaxSwitches = 1
  MaxRetries = 1
  MaxPieces = 1
  StreamScenarios <- MCStreams
CHECK_DEADLOCK FALSE
INVARIANTS
  SurfaceIsSound
  AnswerIsShown
  TextIsKept
  AsksWithNews
PROPERTIES
  CompactionAdvances
