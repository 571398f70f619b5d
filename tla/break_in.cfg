\* A straight key against the foot switch, CW texts and the main thread, with
\* requests for MOX served in any order and a hang time that SD0 sets to zero.
SPECIFICATION FairSpec
CONSTANTS
  Modes = {"STRAIGHT"}
  Spacings = {FALSE}
  HangTimes = {3}
  SdValues = {0}
  SpaceTime = 1
  MaxPosts = 2
  MaxSem = 1
  Sources = {"local"}
  Hits = {"dash"}
  Others = {"foot", "cat"}
  Menu = "released"
PROPERTIES BreakInEnds CloseEnds
