\* An unroutable message and timeouts; Close and reconnect may get stuck.
CONSTANTS
  m1 = m1
  m2 = m2
  m3 = m3
  Msgs = {m1, m2, m3}
  Unroutable = {m1}
  MayTimeout = TRUE
SPECIFICATION Spec
SYMMETRY RoutedSame
CHECK_DEADLOCK FALSE
INVARIANTS
  NoLeakedSession
  AtMostTwice
