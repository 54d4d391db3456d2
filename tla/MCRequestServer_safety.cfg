SPECIFICATION Spec
CONSTANTS
  c1 = c1
  c2 = c2
  t1 = t1
  t2 = t2
  Clients = {c1, c2}
  NoClient = NoClient
  Threads = {t1, t2}
  Amounts = {0, 1, 3}
  STARTING_BALANCE = 2
  Garbage = 7
  MaxNumber = 2
  MaxSends = 4
  MaxNet = 1
SYMMETRY Symmetry
CHECK_DEADLOCK FALSE
INVARIANTS
  TypeOK
  OncePerNumber
  AnsweredIsPublished
PROPERTIES
  OnlyKilledAreRemoved
