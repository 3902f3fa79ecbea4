SPECIFICATION FairSpec
CONSTANTS
  ContextNamespace = "shop"
  Parts <- PartsOf
  Scenes <- AllScenes
  MaxFailures = 1
INVARIANTS
  FindsWhatStays
  
  PreviewAddsUp
PROPERTIES
  AnsweredAtLast
CHECK_DEADLOCK FALSE
