SPECIFICATION Spec
CONSTANTS
  Agents = {a1, a2}
  MaxAgentTurns = 1
  Scenarios <- MCScenarios
SYMMETRY Symmetry
CHECK_DEADLOCK FALSE
INVARIANTS
  TreeIsWhole
  AgentsAreAnswered
  HistoryIsOwn
