\* Three routable messages, confirms that never time out.
CONSTANTS
  m1 = m1
  m2 = m2
  m3 = m3
  Msgs = {m1, m2, m3}
  Unroutable = {}
  MayTimeout = FALSE
SPECIFICATION FairSpec
INVARIANTS
  TruthfulSuccess
  CleanSession
PROPERTY
  CallsReturn
