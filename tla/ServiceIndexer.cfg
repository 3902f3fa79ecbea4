SPECIFICATION FairSpec
CONSTANTS
  p1 = p1
  p2 = p2
  Services = {s1, s2}
  NodePorts = {p1, p2}
  Specs <- ManySpecs
  Absent = Absent
  MaxChanges = 3
  MaxFaults = 2
  MaxLag = 3
INVARIANTS
  TypeOK
  IndexMatchesCache
  TracksCluster
PROPERTIES
  EventuallyIndexed
  StopReturns
