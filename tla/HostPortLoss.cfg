SPECIFICATION Spec
CONSTANTS
  editor = editor
  automation = automation
  Setters = {editor}
  Kinds = {"note"}
  MaxEvents = 1
  MaxChanges = 1
  MaxBlocks = 1
INVARIANTS
  NoChangeLost
