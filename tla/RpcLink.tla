------------------------------- MODULE RpcLink -------------------------------
(***************************************************************************)
(* The outgoing side of one RPC connection: SendTicket, SessionRpcLink and *)
(* RpcSendAuthorization of RpcLink.kt, with the gate of                    *)
(* RpcApplicationSession and the teardown of RpcPhysicalSession.           *)
(*                                                                         *)
(* Producers offer tickets to two bounded queues and may take a ticket     *)
(* back as long as it is queued; one writer takes tickets out, authorizes  *)
(* them, starts them and sends them; teardown drains what is left.  Who    *)
(* owns a ticket is decided by one lock-free word, so the steps below are  *)
(* the compare-and-set of that word, the lock sections of the link, and    *)
(* the suspensions of the writer.  An offer that is refused changes        *)
(* nothing: what it acquired is given back in the same lock section.       *)
(***************************************************************************)
EXTENDS Integers, Sequences, FiniteSets, Functions

CONSTANTS
  Tickets,          \* messages that producers may offer, each once
  Notifications,    \* those offered with notification = true
  Scoped,           \* those offered with an RpcSendAuthorization
  Size,             \* ticket.bytes
  NoTicket,
  PrioritySlots, PriorityLimit,     \* 32 tickets, 4 MiB
  NotificationSlots, NotificationLimit,  \* 16 tickets, 128 KiB
  Lifetime,         \* expiresAt - now of an offer
  Events,           \* what the environment of an instance does
  MaxClock,         \* bound: ticks of the clock
  MaxGeneration     \* bound: connections of the session

AllEvents == {"cancel", "reconnect", "transport lost", "close", "close fails", "revoke",
              "expire login", "untrust", "deny", "callback cancels", "cannot start", "send fails"}

ASSUME LinkConstants ==
  /\ IsFiniteSet(Tickets) /\ NoTicket \notin Tickets
  /\ Notifications \subseteq Tickets /\ Scoped \subseteq Tickets
  /\ Size \in [Tickets -> Nat]
  /\ {PrioritySlots, PriorityLimit, NotificationSlots, NotificationLimit,
      Lifetime, MaxClock, MaxGeneration} \subseteq Nat
  /\ Events \subseteq AllEvents

VARIABLES
  clock,      \* RpcClock.now()
  transport,  \* session.state
  generation, \* session.connectionInfo.generation
  login,      \* the RpcApplicationSession of the scoped tickets
  trusted,    \* stillAllowed()
  ticket,     \* per ticket: its state word and what happened to it
  priority, notifications,            \* the two queues
  priorityBytes, notificationBytes,   \* and the bytes in them
  entries,    \* permits left in notificationEntries
  wake,       \* the conflated wake channel holds an element
  writer,     \* the writer coroutine
  closed,     \* closed
  active,     \* the scope of the link has not been cancelled
  closure,    \* RpcPhysicalSession.closure
  closer      \* progress of closeTransport()

queueVars == <<priority, notifications, priorityBytes, notificationBytes>>
coreVars == <<clock, transport, generation>>
policyVars == <<login, trusted>>
closeVars == <<closed, active, closure, closer>>
vars == <<coreVars, policyVars, ticket, queueVars, entries, wake, writer, closeVars>>

\* state 0, 1, 2 and 3 of SendTicket; "none" before the offer.  wire is the
\* generation the bytes went out on, 0 if they did not.
States == {"none", "queued", "started", "finished", "cancelled"}
Ticket == [state: States, gen: Nat, expires: Nat, onStart: BOOLEAN,
           releases: Nat, completion: {"open", "true", "false"}, wire: Nat]
Writer == [pc: {"wait", "take", "break", "check", "authorize", "commit", "cas", "onStart", "send", "finish", "dead"},
           item: Tickets \cup {NoTicket}, ok: BOOLEAN, dying: BOOLEAN]
Idle(pc) == [pc |-> pc, item |-> NoTicket, ok |-> FALSE, dying |-> FALSE]

At(pc) == writer.pc = pc
GoWriter(pc) == writer' = [writer EXCEPT !.pc = pc]
Fail(dying) == writer' = [writer EXCEPT !.pc = "finish", !.dying = dying]
-----------------------------------------------------------------------------
(* SendTicket.                                                             *)

\* The winner of the compare-and-set completes the ticket and gives back its
\* message, its allowances and, for a notification, its entry.
Settle(t, to, success) ==
  /\ ticket' = [ticket EXCEPT ![t].state = to, ![t].releases = @ + 1,
                              ![t].completion = IF success THEN "true" ELSE "false"]
  /\ entries' = IF t \in Notifications THEN entries + 1 ELSE entries

\* Fault: the loser of the compare-and-set releases as well.
FinishAlwaysReleases(t, success) ==
  Settle(t, IF ticket[t].state = "started" THEN "finished" ELSE "cancelled", success)

\* finish(): 1 -> 2, or else cancelQueued(): 0 -> 3, or else nothing.
finish(t, success) ==
  IF ticket[t].state = "started" THEN Settle(t, "finished", success)
  ELSE IF ticket[t].state = "queued" THEN Settle(t, "cancelled", FALSE)
  ELSE UNCHANGED <<ticket, entries>>

\* The producer takes its ticket back.
cancelQueued(t) ==
  /\ "cancel" \in Events /\ ticket[t].state = "queued"
  /\ Settle(t, "cancelled", FALSE)
  /\ UNCHANGED <<coreVars, policyVars, queueVars, wake, writer, closeVars>>
-----------------------------------------------------------------------------
(* offer().                                                                *)

Offered(t) ==
  ticket' = [ticket EXCEPT ![t].state = "queued", ![t].gen = generation, ![t].expires = clock + Lifetime]

OfferPriority(t) ==
  /\ t \notin Notifications
  /\ Len(priority) < PrioritySlots /\ Size[t] <= PriorityLimit - priorityBytes
  /\ priority' = Append(priority, t) /\ priorityBytes' = priorityBytes + Size[t]
  /\ UNCHANGED <<notifications, notificationBytes, entries>>

OfferNotification(t) ==
  /\ t \in Notifications /\ entries > 0
  /\ Len(notifications) < NotificationSlots /\ Size[t] <= NotificationLimit - notificationBytes
  /\ notifications' = Append(notifications, t) /\ notificationBytes' = notificationBytes + Size[t]
  /\ entries' = entries - 1
  /\ UNCHANGED <<priority, priorityBytes>>

\* wake.trySend(Unit).  Fault: the channel is a rendezvous, not conflated.
WakeIfWaiting == wake \/ At("wait")
Wake == TRUE

offer(t) ==
  /\ ticket[t].state = "none"
  /\ ~closed /\ transport = "Connected" /\ clock + Lifetime <= MaxClock
  /\ OfferPriority(t) \/ OfferNotification(t)
  /\ Offered(t) /\ wake' = Wake
  /\ UNCHANGED <<coreVars, policyVars, writer, closeVars>>
-----------------------------------------------------------------------------
(* The writer.                                                             *)

WriterKeeps == UNCHANGED <<coreVars, policyVars, closeVars>>
WriterOnly == UNCHANGED <<ticket, queueVars, entries, wake>> /\ WriterKeeps

\* for (ignored in wake)
WriterWakes ==
  /\ At("wait") /\ wake /\ wake' = FALSE /\ writer' = Idle("take")
  /\ UNCHANGED <<ticket, queueVars, entries>> /\ WriterKeeps

\* The queues are empty: break, and wait for the channel again.
WriterIdles ==
  /\ \/ At("take") /\ priority = <<>> /\ notifications = <<>> /\ writer' = Idle("break")
     \/ At("break") /\ writer' = Idle("wait")
  /\ WriterOnly

WriterTakes ==
  /\ At("take")
  /\ \/ /\ priority # <<>>
        /\ writer' = [Idle("check") EXCEPT !.item = Head(priority)]
        /\ priority' = Tail(priority) /\ priorityBytes' = priorityBytes - Size[Head(priority)]
        /\ UNCHANGED <<notifications, notificationBytes>>
     \/ /\ priority = <<>> /\ notifications # <<>>
        /\ writer' = [Idle("check") EXCEPT !.item = Head(notifications)]
        /\ notifications' = Tail(notifications)
        /\ notificationBytes' = notificationBytes - Size[Head(notifications)]
        /\ UNCHANGED <<priority, priorityBytes>>
  /\ UNCHANGED <<ticket, entries, wake>> /\ WriterKeeps

transportReady(t) ==
  /\ clock < ticket[t].expires /\ transport = "Connected" /\ generation = ticket[t].gen
  /\ active /\ ~closed

\* transportReady() and canStart(), or the checks before authorize().
WriterChecks ==
  LET t == writer.item
      ready == transportReady(t) /\ (t \in Scoped => login = "active" /\ trusted)
  IN
  /\ At("check")
  /\ \/ ready /\ GoWriter(IF t \in Scoped THEN "authorize" ELSE "cas")
     \/ (ready => t \notin Scoped /\ "cannot start" \in Events) /\ Fail(FALSE)
  /\ WriterOnly

\* authorize() suspends in application policy.
WriterAuthorizes ==
  /\ At("authorize")
  /\ \/ GoWriter("commit")
     \/ "deny" \in Events /\ Fail(FALSE)
     \/ ("callback cancels" \in Events \/ ~active) /\ Fail(TRUE)
  /\ WriterOnly

\* session.commit { stillAllowed() && transportReady() && ticket.begin() }: the
\* login's gate is held from here until begin() returns.
WriterCommits ==
  LET t == writer.item
      allowed == login = "active" /\ trusted /\ transportReady(t)
  IN
  /\ At("commit")
  /\ \/ allowed /\ GoWriter("cas")
     \/ ~allowed /\ Fail(FALSE)
     \/ ~active /\ Fail(TRUE)
  /\ WriterOnly

GateHeld == writer.item \in Scoped /\ writer.pc \in {"cas", "onStart"}

\* Fault: the producer is told of the start only afterwards, if at all.
BeginUnannounced ==
  LET t == writer.item IN
  /\ At("cas")
  /\ \/ /\ ticket[t].state = "queued" /\ GoWriter("send")
        /\ ticket' = [ticket EXCEPT ![t].state = "started"]
     \/ ticket[t].state # "queued" /\ Fail(FALSE) /\ UNCHANGED ticket
  /\ UNCHANGED <<queueVars, entries, wake>> /\ WriterKeeps

\* begin(): state.compareAndSet(0, 1)
begin ==
  LET t == writer.item IN
  /\ At("cas")
  /\ \/ /\ ticket[t].state = "queued" /\ GoWriter("onStart")
        /\ ticket' = [ticket EXCEPT ![t].state = "started"]
     \/ ticket[t].state # "queued" /\ Fail(FALSE) /\ UNCHANGED ticket
  /\ UNCHANGED <<queueVars, entries, wake>> /\ WriterKeeps

onStart ==
  /\ At("onStart") /\ GoWriter("send")
  /\ ticket' = [ticket EXCEPT ![writer.item].onStart = TRUE]
  /\ UNCHANGED <<queueVars, entries, wake>> /\ WriterKeeps

\* session.sendAtGeneration(): core refuses another generation.  A failure or
\* a cancellation may come after the bytes went out, or before.
Send ==
  LET t == writer.item
      mayWrite == transport = "Connected" /\ generation = ticket[t].gen
  IN
  /\ At("send")
  /\ \E out \in BOOLEAN, ok \in BOOLEAN :
       /\ out => mayWrite
       /\ ok => out
       /\ ~ok => "send fails" \in Events \/ ~mayWrite \/ ~active
       /\ ticket' = IF out THEN [ticket EXCEPT ![t].wire = ticket[t].gen] ELSE ticket
       /\ writer' = [writer EXCEPT !.pc = "finish", !.ok = ok, !.dying = ~ok /\ ~active]
  /\ UNCHANGED <<queueVars, entries, wake>> /\ WriterKeeps

WriterFinishes ==
  /\ At("finish") /\ finish(writer.item, writer.ok)
  /\ writer' = Idle(IF writer.dying THEN "dead" ELSE "take")
  /\ UNCHANGED <<queueVars, wake>> /\ WriterKeeps

\* The scope is cancelled while the writer waits for work or for the lock.
WriterDies ==
  /\ writer.pc \in {"wait", "break", "take"} /\ ~active
  /\ writer' = Idle("dead") /\ WriterOnly

WriterStep == \/ WriterWakes \/ WriterIdles \/ WriterTakes \/ WriterChecks \/ WriterAuthorizes
              \/ WriterCommits \/ begin \/ onStart \/ Send \/ WriterFinishes \/ WriterDies
-----------------------------------------------------------------------------
(* Teardown: RpcPhysicalSession.close() admits one closeTransport() at a   *)
(* time.  The application, the engine and the workers of the link call it. *)

Closers == "close" \in Events \/ writer.pc = "dead" \/ transport = "Closed"

\* Fault: the queues are drained before the link is sealed.
SealLate ==
  /\ closer = "idle" /\ closure # "Closed" /\ Closers
  /\ closure' = "Closing" /\ closer' = "drain"
  /\ UNCHANGED <<coreVars, policyVars, ticket, queueVars, entries, wake, writer, closed, active>>

CloseSeal ==
  /\ closer = "idle" /\ closure # "Closed" /\ Closers
  /\ closure' = "Closing" /\ closed' = TRUE /\ closer' = "drain"
  /\ UNCHANGED <<coreVars, policyVars, ticket, queueVars, entries, wake, writer, active>>

\* cancelQueued() of everything in the queues, which are then cleared.
CloseDrain ==
  LET drained == {t \in Range(priority) \cup Range(notifications) : ticket[t].state = "queued"} IN
  /\ closer = "drain" /\ closer' = "session"
  /\ ticket' = [t \in Tickets |-> IF t \in drained
                  THEN [ticket[t] EXCEPT !.state = "cancelled", !.releases = @ + 1, !.completion = "false"]
                  ELSE ticket[t]]
  /\ entries' = entries + Cardinality(drained \cap Notifications)
  /\ priority' = <<>> /\ notifications' = <<>> /\ priorityBytes' = 0 /\ notificationBytes' = 0
  /\ UNCHANGED <<coreVars, policyVars, wake, writer, closed, active, closure>>

\* try { session.close() } finally { scope.cancel() }
CloseSession ==
  /\ closer = "session" /\ closer' = "idle" /\ active' = FALSE
  /\ \/ closure' = "Closed" /\ transport' = "Closed"
     \/ "close fails" \in Events /\ closure' = "Incomplete" /\ transport' \in {transport, "Closed"}
  /\ UNCHANGED <<clock, generation, policyVars, ticket, queueVars, entries, wake, writer, closed>>
-----------------------------------------------------------------------------
(* The session underneath, the login and the trust.                        *)

\* Connected, lost, and connected again under a new generation.
Transport ==
  /\ \/ /\ transport = "Connected" /\ "reconnect" \in Events
        /\ transport' = "Reconnecting" /\ UNCHANGED generation
     \/ /\ transport = "Reconnecting" /\ generation < MaxGeneration
        /\ transport' = "Connected" /\ generation' = generation + 1
     \/ /\ transport # "Closed" /\ "transport lost" \in Events
        /\ transport' = "Closed" /\ UNCHANGED generation
  /\ UNCHANGED <<clock, policyVars, ticket, queueVars, entries, wake, writer, closeVars>>

\* Fault: revocation does not take the gate.
RevokeUngated ==
  /\ login # "revoked" /\ "revoke" \in Events /\ login' = "revoked"
  /\ UNCHANGED <<coreVars, trusted, ticket, queueVars, entries, wake, writer, closeVars>>

\* RpcApplicationSession.revoke(): gate.withLock { revoked.value = true }
revoke ==
  /\ login # "revoked" /\ "revoke" \in Events /\ ~GateHeld /\ login' = "revoked"
  /\ UNCHANGED <<coreVars, trusted, ticket, queueVars, entries, wake, writer, closeVars>>

\* The login outlives its lifetime, or the device loses its trust.
PolicyEnds ==
  /\ \/ login = "active" /\ "expire login" \in Events /\ login' = "expired" /\ UNCHANGED trusted
     \/ trusted /\ "untrust" \in Events /\ trusted' = FALSE /\ UNCHANGED login
  /\ UNCHANGED <<coreVars, ticket, queueVars, entries, wake, writer, closeVars>>

Tick ==
  /\ clock < MaxClock /\ clock' = clock + 1
  /\ UNCHANGED <<transport, generation, policyVars, ticket, queueVars, entries, wake, writer, closeVars>>
-----------------------------------------------------------------------------
Init ==
  /\ clock = 0 /\ transport = "Connected" /\ generation = 1
  /\ login = "active" /\ trusted = TRUE
  /\ ticket = [t \in Tickets |-> [state |-> "none", gen |-> 0, expires |-> 0, onStart |-> FALSE,
                                  releases |-> 0, completion |-> "open", wire |-> 0]]
  /\ priority = <<>> /\ notifications = <<>> /\ priorityBytes = 0 /\ notificationBytes = 0
  /\ entries = NotificationSlots /\ wake = FALSE /\ writer = Idle("wait")
  /\ closed = FALSE /\ active = TRUE /\ closure = "Open" /\ closer = "idle"

Next ==
  \/ \E t \in Tickets : offer(t) \/ cancelQueued(t)
  \/ WriterStep
  \/ CloseSeal \/ CloseDrain \/ CloseSession
  \/ Transport \/ revoke \/ PolicyEnds \/ Tick

Spec == Init /\ [][Next]_vars

\* The writer and teardown run when they can, core ends a send and the host
\* times policy out; a dead writer or a lost transport makes a worker close.
Fairness ==
  /\ WF_vars(WriterStep)
  /\ WF_vars((writer.pc = "dead" \/ transport = "Closed") /\ closure = "Open" /\ CloseSeal)
  /\ WF_vars(CloseDrain) /\ WF_vars(CloseSession)

FairSpec == Spec /\ Fairness
-----------------------------------------------------------------------------
(* Properties.                                                             *)

TypeOK ==
  /\ clock \in 0..MaxClock /\ generation \in Nat
  /\ transport \in {"Connected", "Reconnecting", "Closed"}
  /\ login \in {"active", "expired", "revoked"} /\ trusted \in BOOLEAN
  /\ ticket \in [Tickets -> Ticket]
  /\ priority \in Seq(Tickets) /\ notifications \in Seq(Tickets)
  /\ priorityBytes \in 0..PriorityLimit /\ notificationBytes \in 0..NotificationLimit
  /\ entries \in 0..NotificationSlots
  /\ wake \in BOOLEAN /\ writer \in Writer
  /\ closed \in BOOLEAN /\ active \in BOOLEAN
  /\ closure \in {"Open", "Closing", "Closed", "Incomplete"} /\ closer \in {"idle", "drain", "session"}

Open(t) == ticket[t].state \in {"queued", "started"}

\* The tickets of queue s take b bytes: their prefix sums lead from 0 to b.
Totals(s, b) ==
  \E sum \in [0 .. Len(s) -> 0 .. b] :
    /\ sum[0] = 0 /\ sum[Len(s)] = b
    /\ \A i \in 1 .. Len(s) : sum[i] = sum[i-1] + Size[s[i]]
    /\ \A i, j \in 0 .. Len(s) : i <= j => sum[i] <= sum[j]

\* Every ticket gives back what it holds exactly once, whoever wins it, and
\* the entries and byte counts are those of the tickets that are still open.
LeaseExact ==
  /\ \A t \in Tickets : ticket[t].releases = IF ticket[t].state \in {"finished", "cancelled"} THEN 1 ELSE 0
  /\ entries = NotificationSlots - Cardinality({t \in Notifications : Open(t)})
  /\ Totals(priority, priorityBytes) /\ Totals(notifications, notificationBytes)

\* The producer learns of the start before a byte leaves, and the bytes leave
\* on the connection that was current when the ticket was offered.
WireTruthful ==
  \A t \in Tickets :
    /\ ticket[t].wire # 0 => ticket[t].onStart /\ ticket[t].wire = ticket[t].gen
    /\ ticket[t].onStart => ticket[t].state \in {"started", "finished"}

\* Once revoke() has returned, no output of that login is committed, however
\* far its authorization had come.
RevocationFence ==
  [][\A t \in Scoped : ticket[t].state = "queued" /\ ticket'[t].state = "started" => login # "revoked"]_vars

\* Teardown strands nothing: once the queues are drained they stay empty, and
\* the only ticket that may still be open is the one in the writer's hand.
CloseDrains ==
  closer = "session" \/ closure \in {"Closed", "Incomplete"} =>
    /\ priority = <<>> /\ notifications = <<>>
    /\ \A t \in Tickets : Open(t) => t = writer.item

\* Every accepted offer is settled: sent, taken back, expired, refused or
\* drained.  No wake-up is lost, and a writer that dies closes the link.
OffersSettle == \A t \in Tickets : Open(t) ~> ~Open(t)

-----------------------------------------------------------------------------

\* Frames of one unit each, for the instance that TLC checks.
Sizes == [t \in Tickets |-> 1]

=============================================================================
