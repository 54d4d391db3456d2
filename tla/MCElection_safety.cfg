SPECIFICATION Spec
CONSTANTS
  Servers <- Pair
  NoServer = NoServer
  Nobody = Nobody
  Uninitialised <- ZeroOrGarbage
  FastNetwork = FALSE
  Faults <- EveryFault
  MaxFaults = 3
CHECK_DEADLOCK FALSE
INVARIANTS
  TypeOK
  SettledKnowsCoordinator
  FollowsAnnounced
