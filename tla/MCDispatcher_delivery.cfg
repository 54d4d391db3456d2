SPECIFICATION FairSpec
CONSTANTS
  c1 = c1
  c2 = c2
  t1 = t1
  t2 = t2
  Clients = {c1, c2}
  NoClient = NoClient
  Threads = {t1, t2}
  Amounts = {1}
  STARTING_BALANCE = 2
  Garbage = 7
  MaxNumber = 8
  Program <- Uneven
  MAX_RETRIES = 3
  MAX_DISCOVERIES = 2
  Lossy = {"REQ", "KIL", "DIS", "LOC", "ACK"}
  MaxLosses = 2
CHECK_DEADLOCK FALSE
INVARIANTS
  NothingLeftBehind
  KilledIsGone
PROPERTIES
  RequestsSpec
  EveryClientEnds
