\* Two refreshes list in one order and publish in the other.
SPECIFICATION Spec
CONSTANTS
  Container = {c1}
  Loop = loop
  Others = {other}
  Request = {}
  ProbeSlots = 0
  MaxGen = 3
  MaxOps = 1
  MaxTriggers = 1
  MaxFaults = 0
INVARIANTS
  RoutesConverge
CHECK_DEADLOCK FALSE
