\* The number of receivers changes, the protocol is stopped and started, and
\* packets are lost.
SPECIFICATION FairSpec
CONSTANTS
  Counts = {1, 2}
  Commands = 3
  Tries = 2
  RingLen = 2
  Skip = 1
  MaxAir = 1
INVARIANTS HalvesPaired RoundRobinInRange
PROPERTIES RestartEnds DecodeSettles
