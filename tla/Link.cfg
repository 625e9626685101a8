SPECIFICATION FairSpec
CONSTANTS
  NoTicket = NoTicket
  Tickets = {note, scoped}  Notifications = {note}  Scoped = {scoped}  Size <- Sizes
  PrioritySlots = 2  PriorityLimit = 3  NotificationSlots = 1  NotificationLimit = 1
  Lifetime = 1  MaxClock = 1  MaxGeneration = 2
  Events = {"cancel", "revoke", "expire login", "deny", "callback cancels", "send fails", "close", "reconnect", "transport lost", "untrust", "cannot start", "close fails"}
INVARIANTS LeaseExact CloseDrains WireTruthful
PROPERTIES RevocationFence OffersSettle
CHECK_DEADLOCK FALSE
