\* What the comments and READMEs promise of the start and the end of a service.
CONSTANTS
  Unset = Unset
  Default = Default
  Names = {"OTEL_ENABLED", "PADOSME_JWT_SECRET"}
  Values = {"", "yes"}
  True = {"true", "1", "yes"}
  Floats = {}
  Required = "PADOSME_JWT_SECRET"
  MaxLines = 2
  Files <- AllFiles
  MaxRetries = 2
SPECIFICATION ServiceSpec
INVARIANTS
  ShutsDownAll
  NoClientLeft
  PanicsOnlyIfNotSet
  NothingDropped
