SPECIFICATION FairSpec
CONSTANTS
  Workers = {w1, w2}
  Sources <- FewSources
  Missing = Missing
CHECK_DEADLOCK FALSE
INVARIANTS
  TypeOK
  MaxExact
  SnapshotConsistent
  AuditComplete
  CleanExit
PROPERTY Stops
