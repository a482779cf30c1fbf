\* Two edits of two services that race, with a wipe, a failure and retries.
SPECIFICATION LiveSpec
CONSTANTS
  Host = {h1}
  Service = {s1, s2}
  Edit = {e1, e2}
  ringSize = 1
  MaxWipes = 1
  MaxFaults = 1
INVARIANTS
  CopiesTrue
PROPERTIES
  
  CopiesConverge
CHECK_DEADLOCK FALSE
