\* The server is switched off while a client transmits.
SPECIFICATION FairSpec
CONSTANTS
  KeyerInternal = TRUE
  Commands = {"CMD_MOX"}
  StartModes = {"SSB"}
  StopAt = {"loop"}
  MaxCalls = 1
  MaxLeft = 0
CHECK_DEADLOCK FALSE
PROPERTY LossEndsAir
