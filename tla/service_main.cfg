\* Every file of two lines, every environment, seven attempts.
CONSTANTS
  Unset = Unset
  Default = Default
  Names = {"OTEL_ENABLED", "PADOSME_JWT_SECRET"}
  Values = {"", "yes"}
  True = {"true", "1", "yes"}
  Floats = {}
  Required = "PADOSME_JWT_SECRET"
  MaxLines = 2
  Files <- AllFiles
  MaxRetries = 7
SPECIFICATION ServiceFairSpec
INVARIANTS
  TypeOK
  EnvAsReference
  TelemetryHonest
  ConnectHonest
PROPERTY
  Ends
