SPECIFICATION Spec
CONSTANTS
  Chats = {h1, h2}
  MaxMsgId = 2
  MaxInputs = 3
  MaxDialogs = 2
  Inputs = {"History", "Send", "Delete", "again", "read", "entry", "update", "dialog"}
SYMMETRY Symmetry
CHECK_DEADLOCK FALSE
INVARIANTS
  TypeOK
  MarksGrow
  StateMatchesWire
  SlicesAvoidDeletion
  EntryIsInOneMap
  EntryIsComing
  MarkIsTimed
PROPERTIES
  EntryIsSettled
