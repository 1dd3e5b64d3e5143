CONSTANTS
  v1 = v1 v2 = v2 v3 = v3
  Untold = Untold
  Calls = {v1, v2, v3}
  Offers <- SmallOffers
  Amount <- Amounts
  Modulus = 4
  Second = 2
  MaxRelative = 2
  Start = 5
  MaxTime = 8
SPECIFICATION Spec
INVARIANTS TypeOK LivesAsAsked LimitHolds
PROPERTIES WindowFixed GraceKept ImplementsCounter
SYMMETRY Symmetry
