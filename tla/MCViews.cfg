SPECIFICATION FairSpec
CONSTANTS
  ThreadIds = {"t1", "t2"}
  ProcessIds = {"p1"}
  Clients = {c1}
  Topics <- MCTopics
  Mixes <- MCMixes
  MaxEvents = 3
  MaxRuns = 2
CHECK_DEADLOCK FALSE
INVARIANTS
  SubscribersAreServed
  ViewsAgree
PROPERTIES
  EveryoneHearsTheEnd
