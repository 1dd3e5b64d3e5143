CONSTANTS
  r1 = r1 r2 = r2 c1 = c1 c2 = c2
  None = None
  Requests = {r1, r2}
  Timed = {r1}
  Cancelable = {}
  Batches = {}
  Faults = {"close", "dial"}
  Conns = {c1, c2}
  MaxConns = 1
SPECIFICATION LiveSpec
INVARIANTS TypeOK SocketBound LiveConnOwned
PROPERTIES TimedReturns CloseDrains
CHECK_DEADLOCK FALSE
