\* Liveness and refinement, with fair threads: PTT, TX inhibit, VOX, auto-tune.
SPECIFICATION FairSpec
CONSTANTS
  KeyerInternal = TRUE
  Sources = {"inhibit", "vox", "auto", "recall"}
  HangTime = 1
  MaxIdle = 2
  MaxTimers = 1
PROPERTIES ImplementsKeying AutoTuneEnds VoxEnds
