\* A reconnect fails, then another call.
CONSTANTS
  m1 = m1
  m2 = m2
  m3 = m3
  Msgs = {m1, m2}
  Unroutable = {}
  MayTimeout = FALSE
SPECIFICATION Spec
INVARIANT
  NeverPanics
