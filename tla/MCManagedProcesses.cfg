SPECIFICATION MCSpec
CONSTANTS
  Chosen = {web}
  Users = {u1}
  Talkative = {1}
  MaxProcs = 3
  MaxExecs = 1
  Names = {r1, r2}
  Turns = {t1, t2}
  Launches = {1, 2}
  MaxRunners = 2
  t1 = t1
  t2 = t2
  r1 = r1
  r2 = r2
CHECK_DEADLOCK FALSE
INVARIANTS
  DeletedThreadIsEmpty
  ProcessesAreTracked
  RunnersAreTrue
PROPERTIES
  EndsAreShown
