CONSTANTS
  r1 = r1 r2 = r2 c1 = c1 c2 = c2
  None = None
  Requests = {r1, r2}
  Timed = {}
  Cancelable = {}
  Batches = {}
  Faults = {"close"}
  Conns = {c1, c2}
  MaxConns = 1
SPECIFICATION Spec
INVARIANT LostHasCause
CHECK_DEADLOCK FALSE
