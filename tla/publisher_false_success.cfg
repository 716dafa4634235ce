\* One unroutable message.
CONSTANTS
  m1 = m1
  m2 = m2
  m3 = m3
  Msgs = {m1}
  Unroutable = {m1}
  MayTimeout = FALSE
SPECIFICATION Spec
INVARIANT
  TruthfulSuccess
