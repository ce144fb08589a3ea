SPECIFICATION FairSpec
CONSTANTS
  Common = Common
  None = None
  Channels = {c1}
  MaxPts = 3
  CommonLimit = 2
  ChannelLimit = 3
  Limit <- MCLimit
  Counts = {1, 2}
  Start = 1
  ChannelFails = FALSE
  Snapshots = FALSE
  TooLong = FALSE
INVARIANTS
  TypeOK
  GoodMeansApplied
  NeverOvercounted
  GapIsWatched
  AnswerIsFresh
PROPERTIES
  AppliedInOrder
  CatchesUp
  OpenChatAsksAgain
