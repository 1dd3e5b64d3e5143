CONSTANTS
  NoKey = NoKey
  Requests <- SmallRequests
  MaxRequests = 2
  Values <- Stored
  Numerals <- Digits
  Base64 <- RealBase64
  Faults = {"none", "flag", "error", "empty", "long", "code", "size", "bare", "tail"}
  MaxWireKey = 4
  MaxLine = 18
  MaxItem = 3
SPECIFICATION Spec
INVARIANTS CommandsIntact InSync NoSpuriousLoss
