SPECIFICATION FairSpec
CONSTANTS
  IndexMod = 8
  Configs <- MCConfigs
  Replies <- MCReplies
  NoReply = NoReply
  HangUp = HangUp
  MaxRestarts = 1
  MaxTime = 2
CHECK_DEADLOCK FALSE
INVARIANTS
  NothingLeaks
  AttachedRingsAreSound
  HeartbeatHitsMapping
PROPERTIES
  StopEndsProcess
  StaysAlive
