SPECIFICATION FairSpec
CONSTANTS
  Calls = {c1, c2}
  Keys = {k1, k2, k3}
  Tools = {"create_pod", "scale_deployment"}
  MaxSize = 2
  MaxWrites = 2
  NoEntry = NoEntry
INVARIANTS
  TypeOK
  SizeBounded
  NoEntryOutlivesModification
PROPERTY EventuallyFresh
