SPECIFICATION FairSpec
CONSTANTS
  KeyerInternal = TRUE
  Sources = {"ptt"}
  HangTime = 1
  MaxIdle = 2
  MaxTimers = 1
PROPERTY PttReleaseEnds
