---------------------------- MODULE RpcHostLedger ----------------------------
(***************************************************************************)
(* The call records of RpcHostEngine.kt and the private functions of the   *)
(* engine that run under its lock, as operators on the ledger: `records`   *)
(* with the counters and queues kept beside it.                            *)
(***************************************************************************)
EXTENDS Integers, Sequences, FiniteSets, SequencesExt, FiniteSetsExt

CONSTANTS
  Peers,            \* PeerFingerprints
  Links,            \* RpcLinks, each used for one connection
  LinkPeer,         \* the authenticated peer of a link
  TrustedLinks,     \* links admitted as Trusted; the others are EnrollmentOnly
  Ids,              \* request ids a client may choose
  Sigs,             \* what matches() compares: procedure key and body digest
  Known,            \* signatures whose procedure is registered
  Scoped,           \* signatures of registerScoped() procedures
  Idempotent,       \* signatures of RpcRetrySafety.Idempotent procedures
  Oversize,         \* signatures whose body exceeds the request limit
  Sessions,         \* RpcApplicationSessions
  SessionPeer,      \* the device a login is bound to
  NoLink, NoSession,
  RunningCalls, QueuedCalls, CallsPerClient, RecordsPerClient, TotalRecords,
  CacheBodies,      \* result bodies that fit in limits.resultCacheBytes
  BodyTtl,          \* 30_000 ms in the code
  RecordTtl,        \* 60_000 ms in the code
  Budgets,          \* budgetMillis of an invocation
  BudgetTight,      \* TRUE when the shared payload budget can run out
  Events,           \* what the environment of an instance does, see AllEvents
  Endings,          \* how the handlers of an instance end
  MaxClock,         \* bound: ticks of the clock
  MaxMessages       \* bound: messages received on all links

Keys == Peers \X Ids

\* WireFailure, by the evidence its code carries to the client.
RejectedBeforeExecution == {"Overloaded", "Unauthorized", "UnknownProcedure",
  "InvalidPayload", "CancelledBeforeStart", "DeadlineBeforeStart"}
MayHaveExecuted == {"HandlerFailed", "Deadline", "Cancelled", "ResultUnavailable",
  "UnknownOutcome", "HostRestarted", "AccessRevoked"}
Bodies == {"Result"}   \* Success or ApplicationError: a terminal with a body
Outcomes == Bodies \cup RejectedBeforeExecution \cup MayHaveExecuted
Replies == Outcomes \cup {"Running", "Ready", "none"}
HandlerOutcomes == Bodies \cup {"HandlerFailed", "Deadline", "Cancelled"}
Controls == {"Status", "Cancel", "Receipt"}
AllEvents == Controls \cup {"Invoke", "reinvoke", "stale incarnation", "hello again",
  "link lost", "attach fails", "offer fails", "denial", "bad payload",
  "trust", "approve", "session ends", "session revoked", "close"}

ASSUME ConstantsAssumption ==
  /\ LinkPeer \in [Links -> Peers] /\ TrustedLinks \subseteq Links /\ NoLink \notin Links
  /\ SessionPeer \in [Sessions -> Peers] /\ NoSession \notin Sessions
  /\ Known \subseteq Sigs /\ Scoped \subseteq Known
  /\ Ids # {} /\ Sigs # {} /\ Peers # {}
  /\ Events \subseteq AllEvents /\ Endings \subseteq HandlerOutcomes

\* Owners of cancellations are told apart: they are different objects.
ASSUME OwnersAssumption ==
  /\ Links \cap Sessions = {} /\ {"revoke", "close", "sweep"} \cap (Links \cup Sessions) = {}

ASSUME LimitsAssumption ==
  /\ {RunningCalls, CallsPerClient, RecordsPerClient, TotalRecords} \subseteq Nat \ {0}
  /\ {QueuedCalls, CacheBodies, BodyTtl, RecordTtl, MaxClock, MaxMessages} \cup Budgets \subseteq Nat
  /\ BudgetTight \in BOOLEAN
-----------------------------------------------------------------------------
(* A record.  `inst` numbers the installations of a key and stands for the *)
(* object identity `records[key] === record` compares; `prevEnd` remembers *)
(* when the previous record of the key completed and is history only.      *)

Stages == {"Absent", "Queued", "Running", "Finalizing", "Complete"}
Active == {"Queued", "Running", "Finalizing"}
Launcher == {"none", "due", "launched", "published", "checked"}
Tasks == {"none", "ready", "decoding", "handler", "select", "commit"}

Record == [stage: Stages, sig: Sigs, sess: Sessions \cup {NoSession},
           deadline: Nat, admittedAt: Nat, completedAt: Nat,
           inst: Nat, prevEnd: Nat,
           began: BOOLEAN, cancelRequested: BOOLEAN, jobCancelled: BOOLEAN,
           launcher: Launcher, task: Tasks,
           terminal: Outcomes \cup {"none"}, result: Outcomes \cup {"none"},
           candidate: Links \cup {NoLink}]

Absent(inst, end) ==
  [stage |-> "Absent", sig |-> CHOOSE s \in Sigs : TRUE, sess |-> NoSession,
   deadline |-> 0, admittedAt |-> 0, completedAt |-> end,
   inst |-> inst, prevEnd |-> 0,
   began |-> FALSE, cancelRequested |-> FALSE, jobCancelled |-> FALSE,
   launcher |-> "none", task |-> "none",
   terminal |-> "none", result |-> "none", candidate |-> NoLink]

Present(r) == r.stage # "Absent"
Forget(r) == Absent(r.inst, r.completedAt)
Same(t, k, inst) == Present(t.rec[k]) /\ t.rec[k].inst = inst
matches(r, sig) == r.sig = sig

snapshotResult(r) ==
  IF r.stage # "Complete" THEN "Running"
  ELSE IF r.result = "none" THEN "ResultUnavailable" ELSE r.result

\* The counts are integers: that none of them falls below zero, as computeCount
\* checks, is part of AccountingExact.
Ledger == [rec: [Keys -> Record], running: Int,
           pending: Seq(Keys), completed: Seq(Keys), cached: Seq(Keys),
           recordsPerPeer: [Peers -> Int], activePerPeer: [Peers -> Int]]

Records(t) == {k \in Keys : Present(t.rec[k])}
First(s, n) == {s[i] : i \in 1..n}
From(s, n) == SubSeq(s, n + 1, Len(s))

\* remove(k) of a queue or a linked map: k occurs in it at most once.
Without(s, k) ==
  IF \E i \in 1..Len(s) : s[i] = k THEN RemoveAt(s, CHOOSE i \in 1..Len(s) : s[i] = k) ELSE s
-----------------------------------------------------------------------------
(* The private functions that run under the lock.                          *)

\* Fault: dropping the body drops the tombstone with it.
DropRecord(t, k) ==
  [t EXCEPT !.cached = Without(@, k), !.completed = Without(@, k), !.rec[k] = Forget(@),
            !.recordsPerPeer[k[1]] = @ - 1]

dropResultBody(t, k) ==
  IF t.rec[k].result \in Bodies
  THEN [t EXCEPT !.cached = Without(@, k), !.rec[k].result = "none"]
  ELSE t

\* dropResultBody of the n oldest cached bodies.
DropOldest(t, n) ==
  [t EXCEPT !.cached = From(@, n),
            !.rec = [k \in Keys |-> IF k \in First(t.cached, n)
                                    THEN [@[k] EXCEPT !.result = "none"] ELSE @[k]]]

\* Faults: a record is given up one tick too early, or kept one too long.
LapsedEarly(t, s, ttl, now) ==
  Cardinality({n \in 1..Len(s) : \A i \in 1..n : now + 1 >= t.rec[s[i]].completedAt + ttl})
LapsedLate(t, s, ttl, now) ==
  Cardinality({n \in 1..Len(s) : \A i \in 1..n : now > t.rec[s[i]].completedAt + ttl})

\* How many records at the front of s have outlived ttl: the loops of
\* expireLocked stop at the first one that has not.
Lapsed(t, s, ttl, now) ==
  Cardinality({n \in 1..Len(s) : \A i \in 1..n : now >= t.rec[s[i]].completedAt + ttl})

\* The records gone leave the table; their keys may be admitted again.
Retire(t, gone) ==
  [t EXCEPT !.rec = [k \in Keys |-> IF k \in gone THEN Forget(@[k]) ELSE @[k]],
            !.recordsPerPeer = [p \in Peers |-> @[p] - Cardinality({k \in gone : k[1] = p})]]

\* Bodies go after BodyTtl and whole records after RecordTtl, with the bodies
\* they still have; both lists are in the order of completion.
expireLocked(t, now) ==
  LET b == DropOldest(t, Lapsed(t, t.cached, BodyTtl, now))
      c == DropOldest(b, Lapsed(b, b.cached, RecordTtl, now))
      n == Lapsed(c, c.completed, RecordTtl, now)
  IN  [Retire(c, First(c.completed, n)) EXCEPT !.completed = From(@, n)]

trimCache(t) ==
  IF Len(t.cached) > CacheBodies THEN DropOldest(t, Len(t.cached) - CacheBodies) ELSE t

RequestCancel(t, ks) ==
  [t EXCEPT !.rec = [k \in Keys |-> IF k \in ks THEN [@[k] EXCEPT !.cancelRequested = TRUE] ELSE @[k]]]

AtCapacity(t, p) ==
  \/ t.activePerPeer[p] >= CallsPerClient
  \/ Cardinality(Records(t)) >= TotalRecords
  \/ t.recordsPerPeer[p] >= RecordsPerClient
  \/ t.running >= RunningCalls /\ Len(t.pending) >= QueuedCalls

\* The record constructor and the bookkeeping of a successful admission.
Install(t, k, sig, sess, dl, now) ==
  LET run == t.running < RunningCalls
      r   == [Absent(t.rec[k].inst + 1, 0) EXCEPT
                !.stage = IF run THEN "Running" ELSE "Queued",
                !.sig = sig, !.sess = sess, !.deadline = dl, !.admittedAt = now,
                !.prevEnd = t.rec[k].completedAt,
                !.launcher = IF run THEN "due" ELSE "none"]
  IN  [t EXCEPT !.rec[k] = r,
                !.running = IF run THEN @ + 1 ELSE @,
                !.pending = IF run THEN @ ELSE Append(@, k),
                !.recordsPerPeer[k[1]] = @ + 1,
                !.activePerPeer[k[1]] = @ + 1]

\* Faults: the freed slot is not handed on; it is handed on to a record that
\* nobody launches.
NoPromotion(t) == t
PromoteUnowned(t) ==
  IF t.running < RunningCalls /\ t.pending # <<>>
  THEN [t EXCEPT !.rec[Head(t.pending)].stage = "Running", !.running = @ + 1, !.pending = Tail(@)]
  ELSE t

\* The tail of finish(): the head of the queue gets the freed slot.
Promote(t) ==
  IF t.running < RunningCalls /\ t.pending # <<>>
  THEN [t EXCEPT !.rec[Head(t.pending)] = [@ EXCEPT !.stage = "Running", !.launcher = "due"],
                 !.running = @ + 1,
                 !.pending = Tail(@)]
  ELSE t

\* Fault: a claimed call gives back a slot that it never had.
FreesClaimed(r) == IF r.stage \in {"Running", "Finalizing"} THEN 1 ELSE 0

\* A claimed queued call never had a slot.
Frees(r) == IF r.stage = "Running" THEN 1 ELSE 0

\* What finish() does to the ledger: the record leaves its stage, becomes a
\* tombstone with its result (or goes, once the engine is closed), and the
\* freed slot is handed on.
Completed(t, k, now, isClosed) ==
  LET r     == t.rec[k]
      done  == [r EXCEPT !.stage = "Complete", !.completedAt = now,
                         !.task = "none", !.candidate = NoLink, !.result = r.terminal]
      freed == [t EXCEPT !.rec[k] = done,
                         !.running = @ - Frees(r),
                         !.pending = IF r.stage = "Queued" THEN Without(@, k) ELSE @,
                         !.activePerPeer[k[1]] = @ - 1]
  IN  IF isClosed
      THEN [freed EXCEPT !.rec[k] = Forget(done), !.recordsPerPeer[k[1]] = @ - 1]
      ELSE LET kept == [freed EXCEPT !.completed = Append(@, k),
                          !.cached = IF r.terminal \in Bodies THEN Append(@, k) ELSE @]
           IN  Promote(trimCache(kept))
=============================================================================
