SPECIFICATION FairSpec
CONSTANTS
  MaxOpens = 2
  ViewThreads = {"message", "other"}
  Size = "preferred"
  DefaultSize = "default"
  NoSize = "zero"
CHECK_DEADLOCK FALSE
INVARIANTS
  TypeOK
  WorkerHasOwner
PROPERTIES
  ConnectsOpenEditor
  EditorShown
  CloseReturns
