CONSTANTS
  r1 = r1 r2 = r2 c1 = c1 c2 = c2
  None = None
  Requests = {r1, r2}
  Timed = {r2}
  Cancelable = {r2}
  Batches = {r2}
  Faults = {"error", "sock", "idle"}
  Conns = {c1, c2}
  MaxConns = 1
SPECIFICATION Spec
INVARIANTS FrameForHead OwnAnswers NoLostWakeup
PROPERTIES ImplementsExchange DeadlineTeardown
CHECK_DEADLOCK FALSE
