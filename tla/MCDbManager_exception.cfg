SPECIFICATION Spec
CONSTANTS
  c1 = c1
  c2 = c2
  g = g
  w1 = w1
  w2 = w2
  Clients = {c1, c2}
  NoClient = NoClient
  Threads = {g, w1, w2}
  Greeter = g
  NoThread = NoThread
  Amounts = {0, 1, 3}
  STARTING_BALANCE = 2
  Garbage = Garbage
  UINT_RANGE = 4
  Ops = {"info", "transaction", "remove"}
  MaxCalls <- TwoEach
SYMMETRY Symmetry
CHECK_DEADLOCK FALSE
INVARIANTS
  NoUncaughtException
