\* What the comments promise of the watcher; the service answers a key too many.
CONSTANTS
  k1 = k1
  k2 = k2
  junk = junk
  Keys = {k1, k2}
  Watched = {k1}
  Answered = {k1, k2}
  Text <- TextOf
  Nobody = junk
  MaxChanges = 2
  MaxRestarts = 1
  Settable = {}
SPECIFICATION FairSpec
INVARIANTS
  FailureReported
  GetBoolFallsBack
PROPERTIES
  NoRegress
  Disappears
