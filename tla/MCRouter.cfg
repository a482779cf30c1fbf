\* Two overlapping refreshes racing with stop signals and a request.
SPECIFICATION Spec
CONSTANTS
  Container = {c1, c2}
  Loop = loop
  Others = {other}
  Request = {q1}
  ProbeSlots = 0
  MaxGen = 3
  MaxOps = 2
  MaxTriggers = 1
  MaxFaults = 1
SYMMETRY Symmetry
INVARIANTS
  TypeOK
  DrainReachesPublished
  RoutesFollowDocker
PROPERTIES
  PublishedPickAvoidsDraining
CHECK_DEADLOCK FALSE
