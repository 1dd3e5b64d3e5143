CONSTANTS
  s1 = s1 s2 = s2 k1 = k1 k2 = k2 k3 = k3
  Keys = {k1, k2, k3}
  Addresses = {s1, s2}
  Sum <- Hashes
  Custom <- Swapping
  ServerList <- TwoServers
  Plans <- SmallPlans
  FirstItems <- SmallItems
  Degrade = TRUE
  Faults = {"none", "blank", "alien", "twice", "flag", "omit"}
  MaxEnv = 1
SPECIFICATION Spec
INVARIANTS HonestResults BackendIsolation NilMeansDone ReadsItsWrites RunsWhereRouted TokenHandedBack
