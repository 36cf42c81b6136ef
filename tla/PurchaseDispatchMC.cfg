\* Two send requests, two keys, two edit sessions, a duplicate, a cancellation.
CONSTANTS
  a1 = a1  a2 = a2  a3 = a3
  k1 = k1  k2 = k2
  e1 = e1  e2 = e2  c1 = c1  x1 = x1
  Attempts = {a1, a2}
  Keys = {k1, k2}
  Editors = {e1, e2}
  Composers = {c1}
  Cancellers = {x1}
  Transports = {"RESEND", "MAILBOX"}
  Timeout = 1
  MaxTime = 1
  NoKey = NoKey
  NoLock = NoLock
SPECIFICATION Spec
SYMMETRY MCSymmetry
CHECK_DEADLOCK FALSE
INVARIANTS
  TypeOK
  SentRowHasSentOrder
  SavesKept
  SecondEmailHasCause
PROPERTY LifecycleSpec
