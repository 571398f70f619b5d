\* One DDC, with overflows, receive errors and restarts.
SPECIFICATION FairSpec
CONSTANTS
  iq = iq
  b1 = b1
  b2 = b2
  b3 = b3
  b4 = b4
  None = None
  Packets = {p1, p2}
  Streams <- OneStream
  Ddc <- OneStream
  Lists <- OneList
  Size <- Sizes
  Longest = 3
  Skip <- Skips
  MaxSem = 2
  MaxLate = 1
INVARIANTS SemCounts OneOwner PoolSuffices
PROPERTIES ImplementsQueue QueueServed RestartEnds
