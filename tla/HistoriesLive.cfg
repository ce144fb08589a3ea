SPECIFICATION FairSpec
CONSTANTS
  Chats = {h1}
  MaxMsgId = 2
  MaxInputs = 3
  MaxDialogs = 2
  Inputs = {"History", "Delete", "read"}
CHECK_DEADLOCK FALSE
PROPERTIES
  MarkArrives
  SliceArrives
  EntryArrives
