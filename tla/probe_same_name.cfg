\* Two probes of one name, one of them with errors that have no text.
CONSTANTS
  Config <- SameName
  MaxStarts = 1
  Overlap = FALSE
  Hanging = {}
  Mute = {1}
SPECIFICATION Spec
INVARIANTS
  IsHealthyOnlyIfPassing
  AnswerHonest
