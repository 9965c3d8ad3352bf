SPECIFICATION Spec
CONSTANTS
  editor = editor
  automation = automation
  Setters = {editor}
  Kinds = {"note"}
  MaxEvents = 1
  MaxChanges = 3
  MaxBlocks = 1
CONSTRAINT Calm
INVARIANTS
  ChangeHeardOnce
