CONSTANTS
  a = a b = b d = d k1 = k1 k2 = k2 p1 = p1 p2 = p2
  None = None
  Calls = {a, b}
  Many = {a, b}
  Keys = {k1, k2}
  Procs = {p1}
  Proc <- OneProc
  Want <- AllKeys
  Ahead = {}
  Cancelable = {}
  Degrade = TRUE
  MaxAttempt = 1
  MaxEnv = 2
  Events = {"change", "delete"}
SPECIFICATION Spec
INVARIANT NoResurrection
