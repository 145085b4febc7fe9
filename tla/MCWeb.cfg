SPECIFICATION MCSpec
CONSTANTS
  TranscriptScenarios <- MCTranscripts
  Watched = {"w1"}
  Workspaces = {"w1", "w2"}
  MaxThreads = 3
  ShellScenarios <- MCShells
  Threads = {1, 2}
  HistoryLimit = 2
  ComposerScenarios <- MCComposers
  Browsers = {"b1", "b2"}
  MaxEndpoints = 3
  MaxTransitions = 2
  MaxFaults = 2
CHECK_DEADLOCK FALSE
INVARIANTS
  TranscriptFollows
  PageFollows
  ShellIsTrue
  SentOnce
  PushIsTrue
PROPERTIES
  RouteComesToRest
