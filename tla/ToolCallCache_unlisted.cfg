SPECIFICATION Spec
CONSTANTS
  Calls = {c1, c2}
  Keys = {k1}
  Tools = {"delete_resources"}
  MaxSize = 1
  MaxWrites = 1
  NoEntry = NoEntry
INVARIANT NoEntryOutlivesModification
