\* The volunteers' side of a conversation under way: a take, an answer and a
\* closing, two runs of syncRelay that overlap, and one failure of any kind.
CONSTANTS
  Later = {}
  Closings = {}
  Syncs = {s1, s2}
  Takes = {t1}
  Closes = {x1}
  Answers = {a1}
  MaxFaults = 1
  Busy = FALSE
SPECIFICATION OpenedSpec
INVARIANTS
  TypeOK
  AcknowledgedIsReceived
PROPERTIES
  AnswersArrive
  ConversationGoesOn
