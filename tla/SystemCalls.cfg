SPECIFICATION Spec
CONSTANTS
  Calls = {c1}  Idempotent = {}  Accepting = {c1}
  OutstandingLimit = 1  MaxAttempts = 2  ReplySlots = 4
  MaxAttachments = 1  MaxConnections = 2  MaxIncarnations = 2
  Events = {"drop", "send fails", "cancel", "give up", "deadline", "accept fails", "bad result", "enrollment", "impatient", "full", "forget", "link closes", "deny", "crash"}
INVARIANTS AtMostOnce PublishedTruthful ReceiptAfterAcceptance
CHECK_DEADLOCK FALSE
