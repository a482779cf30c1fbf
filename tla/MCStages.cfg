SPECIFICATION MCSpec
CONSTANTS
  Id <- MCId
  Origs = {1, 3}
  Plans <- MCPlans
  Desired = {1}
  MaxOps = 3
  MaxFails = 1
  MaxFlips = 1
  Request = {"r1", "r2", "r3"}
  Long = {"r2", "r3"}
  Upgrade = {"r3"}
  Timeout = 2
CHECK_DEADLOCK FALSE
INVARIANTS
  CapacityKept
  DrainsCleanly
PROPERTIES
  EndsWhole
  UnhealthyRolledBack
  Terminates
  
