SPECIFICATION Spec
CONSTANTS
  Common = Common
  None = None
  Channels = {c1}
  MaxPts = 3
  CommonLimit = 2
  ChannelLimit = 3
  Limit <- MCLimit
  Counts = {1, 2}
  Start = 1
  ChannelFails = TRUE
  Snapshots = FALSE
  TooLong = FALSE
INVARIANTS
  RequestIsAlive
