\* A one-shot, a continuous and an interval worker that share a name, a
\* channel of one request.
CONSTANTS
  a = a
  b = b
  c = c
  i = i
  Workers = {a, b, i}
  Interval = {i}
  Continuous = {b}
  NameOf <- SharedNames
  ConfigMaxRestarts = 1
  ConfigRestartWait = 1
  ConfigRestartWindow = 1
  QueueCap = 1
  EarlyStop = FALSE
  Horizon = 2
SPECIFICATION FairSpec
INVARIANT
  TypeOK
PROPERTIES
  FailureAnswered
  StopAfterCancel
