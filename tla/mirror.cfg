\* MOX, VOX and TUNE by the client, crossing changes at the server.
SPECIFICATION Spec
CONSTANTS
  KeyerInternal = TRUE
  Commands = {"CMD_MOX", "CMD_VOX", "CMD_TOGGLE_TUNE", "CMD_TUNE", "CMD_TWOTONE"}
  Local = {"mox", "tune", "inhibit", "band"}
  MaxUp = 1
  MaxIdle = 1
  MaxDown = 2
INVARIANTS MirrorAgrees PanelFollows
