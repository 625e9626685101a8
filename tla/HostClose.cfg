SPECIFICATION FairSpec
CONSTANTS
  p1 = p1  NoLink = NoLink  NoSession = NoSession
  Peers = {p1}  Links = {l1}  LinkPeer <- OnePeer  TrustedLinks = {l1}
  Ids = {1, 2}  Sigs = {plain}  Known = {plain}  Scoped = {}  Idempotent = {}  Oversize = {}
  Sessions = {}  SessionPeer <- AllSessions
  RunningCalls = 1  QueuedCalls = 1  CallsPerClient = 2
  RecordsPerClient = 2  TotalRecords = 2  CacheBodies = 1
  BodyTtl = 1  RecordTtl = 1  Budgets = {1}  BudgetTight = FALSE
  MaxClock = 1  MaxMessages = 3
  Events = {"Invoke", "Cancel", "close"}
  Endings = {"Result", "Deadline", "Cancelled"}
INVARIANTS AccountingExact WorkConserving ExpiryComplete
PROPERTIES CallsSettle CloseCompletes ImplementsContract
CHECK_DEADLOCK FALSE
