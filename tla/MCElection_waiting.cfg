SPECIFICATION FairSpec
CONSTANTS
  Servers <- Pair
  NoServer = NoServer
  Nobody = Nobody
  Uninitialised <- Zero
  FastNetwork = TRUE
  Faults <- NoFault
  MaxFaults = 0
CHECK_DEADLOCK FALSE
PROPERTY
  WaitingEnds
