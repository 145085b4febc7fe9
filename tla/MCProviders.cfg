SPECIFICATION Spec
CONSTANTS
  Tasks = {t1, t2}
  Kinds = {"codex", "ollama", "opencode"}
  MaxLogins = 2
  MaxRefreshes = 2
  MaxJobs = 2
CHECK_DEADLOCK FALSE
INVARIANTS
  LoginIsKept
  ShownIsTrue
PROPERTIES
  OperationsEnd
