CONSTANTS
  Rep = {1, 2}
  Reps <- MCReps
  MaxVersion = 1
  MaxOps = 1
  MaxFaults = 1
SPECIFICATION Spec
INVARIANTS NoOrphans
CHECK_DEADLOCK FALSE
