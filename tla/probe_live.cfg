\* One probe that honours its context; Start and Stop, twice.
CONSTANTS
  Config <- OneCritical
  MaxStarts = 2
  Overlap = FALSE
  Hanging = {}
  Mute = {}
SPECIFICATION FairSpec
INVARIANTS
  StopQuiescent
PROPERTIES
  StatusConverges
  StopReturns
