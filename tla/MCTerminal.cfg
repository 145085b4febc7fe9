SPECIFICATION FairSpec
CONSTANTS
  None = "none"
  Order <- MCOrder
  Parent <- MCParent
  Programs <- MCPrograms
  Mixes <- MCMixes
  MaxMessages = 3
CHECK_DEADLOCK FALSE
INVARIANTS
  AppFollowsTarget
PROPERTIES
  WaitsEnd
