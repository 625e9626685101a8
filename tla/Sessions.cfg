SPECIFICATION Spec
CONSTANTS
 Mine = {m1, m2}
 Theirs = {t1}
 Pinned = {m2}
 None = None
 MaxEvents = 1
 Events = {"busy", "dial fails", "cancel", "handshake fails", "rejected", "unpublished", "at capacity", "session ends", "stop"}
INVARIANTS Converges LiveRegistered JoinersOwned
CHECK_DEADLOCK FALSE
