\* An edit saved while the e-mail leaves.
CONSTANTS
  a1 = a1  a2 = a2  a3 = a3
  k1 = k1  k2 = k2
  e1 = e1  e2 = e2  c1 = c1  x1 = x1
  Attempts = {a1}
  Keys = {k1}
  Editors = {e1, e2}
  Composers = {}
  Cancellers = {}
  Transports = {"MAILBOX"}
  Timeout = 1
  MaxTime = 0
  NoKey = NoKey
  NoLock = NoLock
SPECIFICATION Spec

CHECK_DEADLOCK FALSE
INVARIANT SentContentIsTransmitted
