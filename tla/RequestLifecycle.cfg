SPECIFICATION FairSpec
CONSTANTS
  Requests = {r1, r2, r3}
  MaxConcurrent = 1
  Burst = 1
INVARIANTS
  TypeOK
  PermitAccounting
  AdmittedWithinLimit
  GaugeExact
PROPERTIES
  SlotObtained
  Drains
