SPECIFICATION Spec
CONSTANTS
  ThreadId = {t1, t2}
  Observers = {o1}
  Clients = {c1, c2}
  NoTurn = NoTurn
  MaxAgentTurns = 1
  MaxTurns = 2
  MaxInteractions = 2
  MaxTargets = 2
SYMMETRY Symmetry
INVARIANTS RegistryIsSound InteractionsAreSound ObservedTurnsStable
PROPERTY ImplementsInteraction
