SPECIFICATION FairSpec
CONSTANTS
  Calls = {c1, c2}  Idempotent = {}  Accepting = {}
  OutstandingLimit = 1  MaxAttempts = 2  ReplySlots = 4
  MaxAttachments = 2  MaxConnections = 2  MaxIncarnations = 1
  Events = {"close"}
PROPERTIES SelectionKept EndsWithAttachment
CHECK_DEADLOCK FALSE
