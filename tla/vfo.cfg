\* Any MaxOps operations on the two VFOs, their band stacks and a memory slot.
SPECIFICATION MCSpec
CONSTANTS
  Ham = {1, 2, 3}
  Xvtr = {4}
  Wwv = 2
  Gen = 3
  Plan <- SmallPlan
  Margin = 1
  WwvSpots = {9}
  WwvNear = 0
  RadioMin = 1
  RadioMax = 10
  Half = 4
  Filters <- SmallFilters
  RitMax = 1
  Home = 5
  Freqs = {9, 14}
  Hops <- SmallHops
  Rits <- SmallRits
  StepSizes = {2}
  Snap = {FALSE}
  Clicks = {"SAT_NONE", "RSAT_MODE"}
  MaxOps = 4
INVARIANTS StackIndex BandFollowsDial StackInBand ReceiverTuned
PROPERTIES SatTracks CtunNailed
