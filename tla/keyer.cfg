\* All modes, both paddles; the keyer is stopped, restarted and changed while the
\* paddles are released.
SPECIFICATION Spec
CONSTANTS
  Modes = {"A", "B", "STRAIGHT"}
  Spacings = {TRUE, FALSE}
  HangTimes = {2}
  SdValues = {}
  SpaceTime = 1
  MaxPosts = 1
  MaxSem = 2
  Sources = {"radio"}
  Hits = {"dot", "dash"}
  Others = {}
  Menu = "released"
INVARIANTS NoLostWakeup NoRunaway
PROPERTIES IambicRule
