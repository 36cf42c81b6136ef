\* A request whose opening text Telegram refuses, or the relay does not survive.
CONSTANTS
  Later = {}
  Closings = {}
  Syncs = {s1}
  Takes = {}
  Closes = {}
  Answers = {}
  MaxFaults = 1
  Busy = FALSE
SPECIFICATION Spec
INVARIANTS
  SentIsPosted
