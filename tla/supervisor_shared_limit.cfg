\* Two workers of the same name share one restart limit.
CONSTANTS
  a = a
  b = b
  c = c
  i = i
  Workers = {a, b}
  Interval = {}
  Continuous = {}
  NameOf <- SharedNames
  ConfigMaxRestarts = 1
  ConfigRestartWait = 1
  ConfigRestartWindow = 2
  QueueCap = 2
  EarlyStop = FALSE
  Horizon = 2
SPECIFICATION Spec
PROPERTY
  PerWorkerLimit
