SPECIFICATION FairSpec
CONSTANTS
  c1 = c1
  c2 = c2
  Calls = {c1, c2}
  Keys <- AllKeys
  Contended <- Busy
  Lingering <- Graceful
  Edits <- Annotate
  Foreign <- ForeignSpec
  MaxVersion = 3
  ContextNamespace = "shop"
  IntMax = 4
  Unrepresentable <- Indefinite
  Seconds = {1, 2}
  Scenarios <- Scenes
INVARIANTS
  TypeOK
  BatchAddsUp
  DefaultsMeet
PROPERTIES
  ImplementsAtomicWrites
  Answered
