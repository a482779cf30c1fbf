SPECIFICATION MCSpec
CONSTANTS
  Key = {"k1", "k2"}
  Request = {"q1", "q2"}
  TTL = {1, 2}
  BodySize = {1, 2}
  MaxEntries = 2
  MaxBytes = 3
  MaxClock = 1
  MaxSets = 1
CHECK_DEADLOCK FALSE
INVARIANTS
  OnlyValidAnswers
PROPERTIES
  NoStampede
  
  
