CONSTANTS
  a = a b = b d = d k1 = k1 k2 = k2 p1 = p1 p2 = p2
  None = None
  Calls = {a, b, d}
  Many = {}
  Keys = {k1}
  Procs = {p1, p2}
  Proc <- TwoProcs
  Want <- OneKey
  Ahead = {b}
  Cancelable = {}
  Degrade = TRUE
  MaxAttempt = 1
  MaxEnv = 2
  Events = {"change", "delete", "invalidate", "evict", "lossy", "loaderr"}
SPECIFICATION Spec
INVARIANTS NoResurrection OneHolder OneOfEachLoader
