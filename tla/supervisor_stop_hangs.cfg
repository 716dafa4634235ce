\* Stop with a worker that watches its context.
CONSTANTS
  a = a
  b = b
  c = c
  i = i
  Workers = {a}
  Interval = {}
  Continuous = {a}
  NameOf <- OwnNames
  ConfigMaxRestarts = 1
  ConfigRestartWait = 1
  ConfigRestartWindow = 1
  QueueCap = 1
  EarlyStop = FALSE
  Horizon = 2
SPECIFICATION FairSpec
PROPERTY
  StopReturns
