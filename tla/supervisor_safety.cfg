\* Two workers with a name each and an interval worker; Stop after Start.
CONSTANTS
  a = a
  b = b
  c = c
  i = i
  Workers = {a, b, i}
  Interval = {i}
  Continuous = {}
  NameOf <- OwnNames
  ConfigMaxRestarts = 1
  ConfigRestartWait = 1
  ConfigRestartWindow = 2
  QueueCap = 2
  EarlyStop = FALSE
  Horizon = 4
SPECIFICATION Spec
SYMMETRY Symmetric
INVARIANTS
  OneInstance
  NothingForgotten
  WaitGroupExact
  StopQuiescent
  Budget
  NoDropWhenSmall
PROPERTIES
  DeniedIsFinal
  PerWorkerLimit
