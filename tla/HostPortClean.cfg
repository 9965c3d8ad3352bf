SPECIFICATION Spec
CONSTANTS
  editor = editor
  automation = automation
  Setters = {editor, automation}
  Kinds = {"note", "sysex"}
  MaxEvents = 2
  MaxChanges = 2
  MaxBlocks = 1
SYMMETRY Symmetric
INVARIANTS
  TypeOK
  CleanChangesFirst
  CleanBlockNotes
