\* What the comments promise of a probe: requests before the first check and
\* while a status is written, and a check that ignores its context.
CONSTANTS
  Config <- OneCritical
  MaxStarts = 1
  Overlap = FALSE
  Hanging = {1}
  Mute = {}
SPECIFICATION FairSpec
INVARIANTS
  ReadyMeansPassing
  ProtectedByMu
PROPERTIES
  StatusConverges
