\* A reseed that fails half way.
SPECIFICATION Spec
CONSTANTS
  Host = {h1}
  Service = {s1, s2}
  Edit = {e1, e2, e3}
  ringSize = 2
  MaxWipes = 1
  MaxFaults = 1
CHECK_DEADLOCK FALSE
SYMMETRY Symmetry
INVARIANTS
  AdoptionKept
