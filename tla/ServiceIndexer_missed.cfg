SPECIFICATION FairSpec
CONSTANTS
  p1 = p1
  p2 = p2
  Services = {s1}
  NodePorts = {p1, p2}
  Specs <- FewSpecs
  Absent = Absent
  MaxChanges = 1
  MaxFaults = 1
  MaxLag = 2
PROPERTY DeletedServicesVanish
