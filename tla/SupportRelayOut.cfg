\* The user's side beside fifty other tickets: a request, one more message, a
\* closing, and one failure of any kind.
CONSTANTS
  Later = {m1}
  Closings = {u1}
  Syncs = {s1}
  Takes = {}
  Closes = {}
  Answers = {}
  MaxFaults = 1
  Busy = TRUE
SPECIFICATION FairSpec
INVARIANTS
  PostedAtMostOnce
  SentIsStored
PROPERTIES
  ConversationSpec
  MessagesLeave
