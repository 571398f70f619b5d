\* Presses, MOX, the display timer and both audio threads, interrupted anywhere.
SPECIFICATION FairSpec
CONSTANTS
  KeyerInternal = TRUE
  CaptureMax = 2
  MaxQueue = 2
  MaxOver = 1
INVARIANTS InBuffer RightDirection
PROPERTY DoneEnds
