SPECIFICATION MCSpec
CONSTANTS
  Call = {x1, x2}
  Host = {h1, h2}
  Client = {x1, x2}
  MaxVersion = 2
  MaxAge = 1
  FetchMax = 1
  MaxTime = 3
CHECK_DEADLOCK FALSE
SYMMETRY Symmetry
INVARIANTS
  
  NeverStacks
  ListSound
PROPERTIES
  
  OnboardedServes
  
