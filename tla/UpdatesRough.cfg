SPECIFICATION Spec
CONSTANTS
  Common = Common
  None = None
  Channels = {c1}
  MaxPts = 3
  CommonLimit = 1
  ChannelLimit = 3
  Limit <- MCLimit
  Counts = {0, 1}
  Start = 0
  ChannelFails = TRUE
  Snapshots = TRUE
  TooLong = TRUE
INVARIANTS
  GoodMeansApplied
PROPERTIES
  StaysAlive
