SPECIFICATION Spec
CONSTANTS
  editor = editor
  automation = automation
  Setters = {}
  Kinds = {"note", "sysex"}
  MaxEvents = 2
  MaxChanges = 0
  MaxBlocks = 1
INVARIANTS
  NotesArrive
