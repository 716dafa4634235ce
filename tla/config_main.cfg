\* A watched key, which the application sets as well, and a key only pushed.
CONSTANTS
  k1 = k1
  k2 = k2
  junk = junk
  Keys = {k1, k2}
  Watched = {k1}
  Answered = {k1}
  Text <- TextOf
  Nobody = junk
  MaxChanges = 2
  MaxRestarts = 1
  Settable = {k1}
SPECIFICATION FairSpec
INVARIANTS
  TypeOK
  CaughtUp
PROPERTIES
  Converges
