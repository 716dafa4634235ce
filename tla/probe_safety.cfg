\* Two probes, requests all along.
CONSTANTS
  Config <- TwoProbes
  MaxStarts = 1
  Overlap = FALSE
  Hanging = {}
  Mute = {}
SPECIFICATION Spec
INVARIANTS
  TypeOK
  AnswerHonest
