\* Overlapping refreshes, faults, requests and probes of one container.
SPECIFICATION LiveSpec
CONSTANTS
  Container = {c1}
  Loop = loop
  Others = {o1, o2}
  Request = {q1}
  ProbeSlots = 1
  MaxGen = 3
  MaxOps = 0
  MaxTriggers = 2
  MaxFaults = 0
PROPERTIES
  Recovers
CHECK_DEADLOCK FALSE
