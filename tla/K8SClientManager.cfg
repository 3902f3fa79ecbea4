SPECIFICATION FairSpec
CONSTANTS
  Callers = {c1, c2}
  Contexts = {x1, x2}
  Unknown = Unknown
  NoName = NoName
  InCluster = InCluster
  None = None
INVARIANTS
  TypeOK
  ContextIsolation
  LoopsOwned
PROPERTIES
  ImplementsCurrentContext
  Answered
