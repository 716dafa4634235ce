\* Three workers fail while a channel of one request is full; Fn returns the
\* error of a context of its own.
CONSTANTS
  a = a
  b = b
  c = c
  i = i
  Workers = {a, b, c}
  Interval = {}
  Continuous = {}
  NameOf <- OwnNames
  ConfigMaxRestarts = 1
  ConfigRestartWait = 1
  ConfigRestartWindow = 2
  QueueCap = 1
  EarlyStop = FALSE
  Horizon = 2
SPECIFICATION Spec
INVARIANT
  EveryFailureServed
  CancelledMeansCancelled
