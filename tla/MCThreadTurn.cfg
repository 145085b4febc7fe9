SPECIFICATION Spec
CONSTANTS
  Thread = t1
  Clients = {c1, c2}
  NoTurn = NoTurn
  MaxTurns = 2
  MaxInteractions = 2
  Scenarios <- MCScenarios
CHECK_DEADLOCK FALSE
INVARIANTS
  ConversationIsSound
  RunsOnlyIfAllowed
  ViewIsTrue
PROPERTIES
  NothingLost
  ImplementsLifecycle
  CancelledTurnEnds
