SPECIFICATION Spec
CONSTANTS
  p1 = p1  NoLink = NoLink  NoSession = NoSession
  Peers = {p1}  Links = {l1}  LinkPeer <- OnePeer  TrustedLinks = {l1}
  Ids = {1}  Sigs = {plain, other, scoped}  Known = {plain, scoped}  Scoped = {scoped}  Idempotent = {}  Oversize = {other}
  Sessions = {s1}  SessionPeer <- AllSessions
  RunningCalls = 1  QueuedCalls = 1  CallsPerClient = 2
  RecordsPerClient = 2  TotalRecords = 2  CacheBodies = 1
  BodyTtl = 1  RecordTtl = 1  Budgets = {1}  BudgetTight = TRUE
  MaxClock = 1  MaxMessages = 3
  Events = {"Invoke", "reinvoke", "Status", "Receipt", "Cancel", "offer fails", "denial", "bad payload", "session ends", "trust", "approve", "session revoked"}
  Endings = {"Result", "HandlerFailed", "Cancelled"}
INVARIANTS CancelReaches EvidenceTruthful
CHECK_DEADLOCK FALSE
