CONSTANTS
  v1 = v1 v2 = v2 v3 = v3
  Calls = {v1, v2, v3}
  Kinds = {"get", "touch", "set", "add", "replace", "append", "prepend", "update", "take", "delete", "invalidate"}
  Eternal = {v3}
  Degrade = TRUE
  MaxAttempts = 2
  MaxEnv = 1
  Events = {"fail", "lose", "spoil", "drop", "abort", "vivify", "evict"}
SPECIFICATION Spec
SYMMETRY Symmetry
INVARIANTS TypeOK HonestAnswers NoLaundering Conserved TokenReturned
PROPERTIES UpdateAtomic ConflictsAreReal
