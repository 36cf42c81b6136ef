\* Three send requests around a timeout, without symmetry.
CONSTANTS
  a1 = a1  a2 = a2  a3 = a3
  k1 = k1  k2 = k2
  e1 = e1  e2 = e2  c1 = c1  x1 = x1
  Attempts = {a1, a2, a3}
  Keys = {k1, k2}
  Editors = {e1}
  Composers = {}
  Cancellers = {}
  Transports = {"RESEND"}
  Timeout = 1
  MaxTime = 1
  NoKey = NoKey
  NoLock = NoLock
SPECIFICATION FairSpec
CHECK_DEADLOCK FALSE
INVARIANTS
  OneWinner
  SentWasDelivered
  ResendOncePerKey
  SentRowLossHasCause
PROPERTY SendsSettle
