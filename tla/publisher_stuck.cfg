\* Two unroutable messages, one after the other.
CONSTANTS
  m1 = m1
  m2 = m2
  m3 = m3
  Msgs = {m1, m2}
  Unroutable = {m1, m2}
  MayTimeout = FALSE
SPECIFICATION FairSpec
CHECK_DEADLOCK FALSE
PROPERTY
  CallsReturn
