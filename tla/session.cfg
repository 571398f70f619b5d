\* One client after the other; the server is not switched off while it serves one.
SPECIFICATION FairSpec
CONSTANTS
  KeyerInternal = TRUE
  Commands = {"CMD_MOX", "CMD_VOX", "CMD_TOGGLE_TUNE", "CMD_RESTART", "CMD_PING"}
  StartModes = {"SSB"}
  StopAt = {"top", "accept", "auth", "test", "ended"}
  MaxCalls = 2
  MaxLeft = 2
INVARIANTS OrphanPending NoStaleCommand ServedRadioRuns HandedBack
PROPERTIES LossEndsAir NobodyStuck
