SPECIFICATION MCSpec
CONSTANTS
  p1 = p1
  p2 = p2
  a1 = a1
  a2 = a2
  b1 = b1
  Edge = {e1, e2}
  Proxy = {p1, p2}
  Backend = {a1, a2, b1}
  Home <- MCHome
  Order <- MCOrder
  Weight <- MCWeight
  Sticky = TRUE
  Spreads = {FALSE, TRUE}
  Request = {"q"}
  Cursors = {0, 1}
  MaxHops = 3
  MaxFails = 3
  MaxFlips = 1
CHECK_DEADLOCK FALSE
SYMMETRY Symmetry
INVARIANTS
  DeliveredOnce
  
  CountedOnce
  UseCountsOnce
PROPERTIES
  UnavailableMeansExhausted
  MostSpecificWins
  IsTokenBucket
