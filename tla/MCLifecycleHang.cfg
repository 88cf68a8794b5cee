SPECIFICATION FairSpec
CONSTANTS
  IndexMod = 8
  Configs <- RunningConfigs
  Replies <- GoodReplies
  NoReply = NoReply
  HangUp = HangUp
  MaxRestarts = 1
  MaxTime = 1
CHECK_DEADLOCK FALSE
PROPERTIES
  CtxEndsProcess
