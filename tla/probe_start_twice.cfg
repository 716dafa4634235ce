\* Start twice, then Stop.
CONSTANTS
  Config <- OneCritical
  MaxStarts = 2
  Overlap = TRUE
  Hanging = {}
  Mute = {}
SPECIFICATION FairSpec
PROPERTIES
  StopReturns
