\* Four messages, the third poisonous, prefetch 2, a dead-letter exchange.
CONSTANTS
  MaxMsgs = 4
  Poison = {3}
  PrefetchCount = 2
  HasDLX = TRUE
  MaxLosses = 2
  MaxRestarts = 2
SPECIFICATION SupervisedFairSpec
INVARIANTS
  TypeOK
  Conserved
  WithinPrefetch
PROPERTIES
  ImplementsQueue
  SettledOrStopped
  StopsOnCancel
