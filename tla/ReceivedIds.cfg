SPECIFICATION Spec
CONSTANTS
  MaxMsgId = 6
  IdsBufferSize = 2
  MaxPacket = 3
INVARIANTS
  TypeOK
  NeverTwice
