SPECIFICATION Spec
CONSTANTS
  c1 = c1
  c2 = c2
  t1 = t1
  Servers = {1, 2}
  NoServer = 0
  Clients = {c1, c2}
  NoClient = NoClient
  PacketThreads = {t1}
  Amounts = {1, 2, 3, 4}
  STARTING_BALANCE = 3
  INT_MAX = 2
  BASE = 5
  Capacity = 2
  MaxUpdates = 3
  MaxFaults = 1
SYMMETRY Symmetry
CHECK_DEADLOCK FALSE
INVARIANTS
  TypeOK
  
  AnsweredSurvives
  AgreeWhenCalm
  
