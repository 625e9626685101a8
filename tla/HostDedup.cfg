SPECIFICATION Spec
CONSTANTS
  p1 = p1  NoLink = NoLink  NoSession = NoSession
  Peers = {p1}  Links = {l1, l2}  LinkPeer <- OnePeer  TrustedLinks = {l1, l2}
  Ids = {1}  Sigs = {plain}  Known = {plain}  Scoped = {}  Idempotent = {}  Oversize = {}
  Sessions = {}  SessionPeer <- AllSessions
  RunningCalls = 1  QueuedCalls = 1  CallsPerClient = 2
  RecordsPerClient = 2  TotalRecords = 2  CacheBodies = 1
  BodyTtl = 1  RecordTtl = 2  Budgets = {1}  BudgetTight = FALSE
  MaxClock = 3  MaxMessages = 4
  Events = {"Invoke", "Receipt", "stale incarnation", "hello again", "link lost", "attach fails", "denial"}
  Endings = {"Result"}
INVARIANTS TombstoneFence ReadyIsCurrent
PROPERTY RefusalTruthful
CHECK_DEADLOCK FALSE
