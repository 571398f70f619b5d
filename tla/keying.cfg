\* User actions, PTT, TX inhibit, the band edge and VOX, in every order.
SPECIFICATION Spec
CONSTANTS
  KeyerInternal = TRUE
  Sources = {"mox", "keyer", "tune", "twotone", "duplex", "mode", "band", "inhibit", "vox", "voxmenu", "ptt"}
  HangTime = 1
  MaxIdle = 2
  MaxTimers = 1
INVARIANTS OneReason TxFollowsFlags RxFollowsFlags TuneRestores InhibitPending
