--------------------------- MODULE RpcClientEngine ---------------------------
(***************************************************************************)
(* The client side of P2pKit RPC: RpcClientEngine.kt over one selected     *)
(* host connection at a time, with the part of RpcLink a caller can see.   *)
(*                                                                         *)
(* A call is one request id, kept through at most MaxAttempts messages.    *)
(* It is invoked again only while nothing of it can have reached the host; *)
(* after that it only asks for its status.  What the call tells its caller *)
(* about execution is its evidence, fixed when it ends, while the writer   *)
(* may be in the middle of sending for it.                                 *)
(*                                                                         *)
(* Time is abstracted: `due` says that the total deadline has passed, and  *)
(* every shorter wait may end at any moment.                               *)
(***************************************************************************)
EXTENDS Integers, Sequences, FiniteSets

CONSTANTS
  Calls,             \* callWithDetails() invocations, each with a request id
  Idempotent,        \* calls with RpcRetry.Idempotent of such a procedure
  Accepting,         \* calls with an accept callback
  OutstandingLimit,  \* slots
  MaxAttempts,       \* retry.maxAttempts
  ReplySlots,        \* capacity of Pending.replies
  MaxAttachments,    \* bound: connects of the client
  MaxConnections,    \* bound: physical connections, numbered by generation
  Events             \* what the environment of an instance does

\* WireFailure codes by how a client treats them: CancelledBeforeStart stands
\* for every code but Overloaded that promises "rejected before execution",
\* HandlerFailed for every end of a call whose handler began.
RejectedBeforeExecution == {"Overloaded", "CancelledBeforeStart"}
MayHaveExecuted == {"UnknownOutcome", "ResultUnavailable", "AccessRevoked", "HandlerFailed", "HostRestarted"}

AllEvents == {"drop", "give up", "link closes", "close", "full", "send fails", "cancel", "deadline",
  "bad result", "accept fails", "enrollment", "impatient", "deny", "forget", "crash"}

ASSUME ClientAssumption ==
  /\ Idempotent \subseteq Calls /\ Accepting \subseteq Calls
  /\ {OutstandingLimit, MaxAttempts, ReplySlots, MaxAttachments, MaxConnections} \subseteq Nat \ {0}
  /\ Events \subseteq AllEvents

VARIABLES
  attachment,  \* attachment: number of the current one, or 0
  att,         \* per attachment: its link, session state, ready and negotiation
  call,        \* per call: Pending and the locals of callWithDetails()
  slots,       \* slots
  controls,    \* Cancel and Receipt tickets queued on a link
  toHost,      \* per connection: bytes on their way to the host
  toClient     \* per attachment: messages on their way to onMessage()

clientVars == <<attachment, att, call, slots, controls>>
wires == <<toHost, toClient>>

Attachments == 1..MaxAttachments
Connections == 1..MaxConnections

\* gen 0: no READY, no negotiation, no connection yet.
NotReady == [inc |-> 0, gen |-> 0, trusted |-> FALSE]
NoLink == [state |-> "none", gen |-> 0, closed |-> FALSE, dismissed |-> FALSE, told |-> FALSE, ready |-> NotReady, neg |-> 0]
Used == {att[n].gen : n \in Attachments} \ {0}
NextConnection == IF Used = {} THEN 1 ELSE 1 + CHOOSE g \in Used : \A x \in Used : x <= g

NewCall == [pc |-> "idle", registered |-> FALSE, owner |-> 0, inc |-> 0, attempt |-> 1,
            invoke |-> TRUE, again |-> FALSE, invoking |-> FALSE, ambiguous |-> FALSE,
            evidence |-> "NotSent", ticket |-> "none", gen |-> 0,
            replies |-> <<>>, closed |-> FALSE, due |-> FALSE, accepted |-> FALSE,
            outcome |-> "none", published |-> "none"]

LinkOf(c) == att[call[c].owner]
Active(n) == attachment = n
\* A control without canStart, for the connection that is current.
BestEffort(kind, c) == [kind |-> kind, c |-> c, gen |-> LinkOf(c).gen, strict |-> FALSE]
Edit(c, r) == call' = [call EXCEPT ![c] = r]
ByCall == UNCHANGED <<attachment, att, slots, controls, wires>>
ByLink == UNCHANGED <<slots, wires>>
-----------------------------------------------------------------------------
(* How a call ends or goes on.                                             *)

Started(r) == r.ticket \in {"started", "announced", "sent", "failed"}

\* Fault: a ticket that has begun is not looked at.
RetireUnchecked(r) == [r EXCEPT !.ticket = IF @ = "queued" THEN "cancelled" ELSE @]

\* begin() wins its CAS before onStart runs: a send in that window is not NotSent.
retireSend(r) ==
  [r EXCEPT !.ticket = IF @ = "queued" THEN "cancelled" ELSE @,
            !.evidence = IF /\ Started(r) /\ r.invoking
                            /\ \/ @ = "NotSent"
                               \/ @ = "RejectedBeforeExecution" /\ r.ticket \in {"started", "announced"}
                         THEN "MayHaveExecuted" ELSE @]

\* The call leaves its body with a failure; its evidence is published.
Failed(r, kind) ==
  LET x == retireSend(r) IN [x EXCEPT !.pc = "final", !.outcome = kind, !.published = x.evidence]

Exhausted(r) ==
  Failed(r, IF r.due THEN "DeadlineExceeded"
            ELSE IF r.evidence = "RejectedBeforeExecution" THEN "Overloaded"
            ELSE IF r.evidence = "NotSent" THEN "NotConnected" ELSE "UnknownOutcome")

NextAttempt(r) ==
  IF r.attempt < MaxAttempts THEN [r EXCEPT !.attempt = @ + 1, !.pc = "gate"] ELSE Exhausted(r)

\* Fault: what could not be sent is invoked again.
InvokeAgain(r) == NextAttempt([r EXCEPT !.invoke = TRUE])

\* The message was not accepted or not sent as a whole.
Unsent(r) == NextAttempt([r EXCEPT !.invoke = r.evidence # "MayHaveExecuted"])

\* A Failure reply: only the answer to the first unanswered Invoke proves a
\* rejection, and only an idempotent call is invoked again.
FailureReply(c, r, code) ==
  IF code = "Overloaded" THEN
    IF ~r.invoking THEN Failed(r, "UnknownOutcome")
    ELSE NextAttempt([r EXCEPT !.evidence = IF r.ambiguous THEN @ ELSE "RejectedBeforeExecution",
                               !.invoke = ~r.ambiguous])
  ELSE IF code = "UnknownOutcome" /\ c \in Idempotent THEN
    NextAttempt([r EXCEPT !.invoke = TRUE, !.again = TRUE])
  ELSE Failed([r EXCEPT !.evidence = IF r.invoking /\ ~r.ambiguous /\ code \in RejectedBeforeExecution
                                     THEN "RejectedBeforeExecution" ELSE @], code)
-----------------------------------------------------------------------------
(* callWithDetails().                                                      *)

Begin(c) ==
  /\ call[c].pc = "idle"
  /\ \/ slots > 0 /\ slots' = slots - 1 /\ Edit(c, [call[c] EXCEPT !.pc = "select"])
     \/ /\ slots = 0 /\ UNCHANGED slots
        /\ Edit(c, [call[c] EXCEPT !.pc = "ended", !.outcome = "Overloaded", !.published = "NotSent"])
  /\ UNCHANGED <<attachment, att, controls, wires>>

Select(c) ==
  LET a == att[attachment] IN
  /\ call[c].pc = "select"
  /\ IF attachment # 0 /\ a.ready.trusted /\ a.state = "Connected" /\ a.gen = a.ready.gen
     THEN Edit(c, [call[c] EXCEPT !.pc = "encode", !.owner = attachment, !.inc = a.ready.inc])
     ELSE Edit(c, Failed(call[c], "NotConnected"))
  /\ ByCall

\* The request is encoded; the call is registered if its host is still selected.
Register(c) ==
  /\ call[c].pc = "encode"
  /\ Edit(c, IF Active(call[c].owner) THEN [call[c] EXCEPT !.pc = "gate", !.registered = TRUE]
             ELSE Failed(call[c], "NotConnected"))
  /\ ByCall

waitForSameHost(c) ==
  LET r == call[c]
      a == LinkOf(c)
  IN
  /\ r.pc = "gate"
  /\ \/ /\ ~Active(r.owner) \/ a.closed \/ a.state = "Closed"
        /\ \E kind \in {"NotConnected", "UnknownOutcome"} : Edit(c, Failed(r, kind))
     \/ /\ Active(r.owner) /\ a.state = "Connected" /\ a.ready.gen = a.gen
        /\ Edit(c, IF a.ready.inc # r.inc THEN Failed(r, "HostRestarted")
                   ELSE IF ~a.ready.trusted THEN Failed(r, "Unauthorized")
                   ELSE [r EXCEPT !.pc = "offer"])
  /\ ByCall

\* selected.offer(): the ticket is for the connection that is current now,
\* which need not be the one waitForSameHost() saw.
OfferCall(c) ==
  LET r == [call[c] EXCEPT !.invoking = call[c].invoke,
                           !.ambiguous = call[c].evidence = "MayHaveExecuted"]
      taken == ~LinkOf(c).closed /\ LinkOf(c).state = "Connected" /\ ~r.due
  IN
  /\ call[c].pc = "offer"
  /\ \/ taken /\ Edit(c, [r EXCEPT !.pc = "sending", !.ticket = "queued", !.gen = LinkOf(c).gen])
     \/ (taken => "full" \in Events) /\ Edit(c, Unsent([r EXCEPT !.ticket = "none"]))
  /\ ByCall

SendCompleted(c) ==
  LET r == call[c] IN
  /\ r.pc = "sending" /\ r.ticket \in {"sent", "failed", "cancelled"}
  /\ Edit(c, IF r.ticket = "sent" THEN [r EXCEPT !.pc = "waiting"] ELSE Unsent(r))
  /\ ByCall

\* receiveTerminal() and what follows; a closed channel still yields what it holds.
Receive(c) ==
  LET r == call[c]
      m == Head(r.replies)
      rest == [r EXCEPT !.replies = Tail(@)]
  IN
  /\ r.pc = "waiting"
  /\ \/ /\ r.replies = <<>> /\ r.closed
        /\ Edit(c, Failed(r, "UnknownOutcome"))
     \/ /\ r.replies # <<>> /\ m.inc # r.inc
        /\ Edit(c, Failed(rest, "HostRestarted"))
     \/ /\ r.replies # <<>> /\ m.inc = r.inc /\ m.code = "Running"
        /\ Edit(c, IF r.due THEN Failed(rest, "DeadlineExceeded") ELSE rest)
     \/ /\ r.replies # <<>> /\ m.inc = r.inc /\ m.code \notin {"Running", "Result"}
        /\ Edit(c, FailureReply(c, rest, m.code))
  /\ ByCall

\* Fault: the receipt does not wait for the callback.
ReceiptFirst(c) ==
  LET r == call[c]
      x == [r EXCEPT !.replies = Tail(@), !.evidence = "HandlerFinished"]
  IN
  /\ r.pc = "waiting" /\ r.replies # <<>> /\ Head(r.replies).inc = r.inc /\ Head(r.replies).code = "Result"
  /\ Edit(c, [x EXCEPT !.pc = IF c \in Accepting THEN "accepting" ELSE "returning", !.gen = LinkOf(c).gen])
  /\ controls' = controls \cup {BestEffort("Receipt", c)}
  /\ UNCHANGED <<attachment, att, slots, wires>>

\* The result is decoded, and then offered to accept() or acknowledged at once;
\* the generation is read after the decoding, not taken from the reply.
ResultReply(c) ==
  LET r == call[c]
      x == [r EXCEPT !.replies = Tail(@), !.evidence = "HandlerFinished"]
      acknowledge == c \notin Accepting /\ LinkOf(c).state = "Connected" /\ ~LinkOf(c).closed
  IN
  /\ r.pc = "waiting" /\ r.replies # <<>> /\ Head(r.replies).inc = r.inc /\ Head(r.replies).code = "Result"
  /\ \/ /\ Edit(c, [x EXCEPT !.pc = IF c \in Accepting THEN "accepting" ELSE "returning", !.gen = LinkOf(c).gen])
        /\ controls' = controls \cup
             (IF acknowledge THEN {BestEffort("Receipt", c)} ELSE {})
     \/ "bad result" \in Events /\ Edit(c, Failed(x, "InvalidPayload")) /\ UNCHANGED controls
  /\ UNCHANGED <<attachment, att, slots, wires>>

\* The wait of this attempt ends; a reply that had just been taken goes with it.
WaitTimesOut(c) ==
  LET r == call[c] IN
  /\ r.pc = "waiting" /\ (r.due \/ ("impatient" \in Events /\ r.attempt < MaxAttempts))
  /\ \E q \in {r.replies} \cup (IF r.replies = <<>> THEN {} ELSE {Tail(r.replies)}) :
       Edit(c, NextAttempt([r EXCEPT !.replies = q, !.invoke = FALSE]))
  /\ ByCall

Accept(c) ==
  /\ call[c].pc = "accepting"
  /\ \/ Edit(c, [call[c] EXCEPT !.pc = "accepted", !.accepted = TRUE])
     \/ "accept fails" \in Events /\ Edit(c, Failed(call[c], "acceptance"))
  /\ ByCall

\* A receipt goes out only on the connection that was current when the result
\* was decoded, and to the incarnation the call began with.
canStart(c) ==
  LET r == call[c]
      a == LinkOf(c)
  IN  /\ Active(r.owner) /\ ~r.due
      /\ a.ready.trusted /\ a.ready.inc = r.inc /\ a.ready.gen = r.gen /\ a.gen = r.gen

sendAcceptedReceipt(c) ==
  LET r == call[c]
      mine == [kind |-> "Receipt", c |-> c, gen |-> r.gen, strict |-> TRUE]
      taken == canStart(c) /\ LinkOf(c).state = "Connected" /\ ~LinkOf(c).closed
  IN
  /\ \/ r.pc = "accepted" /\ r.due /\ Edit(c, Failed(r, "DeadlineExceeded")) /\ UNCHANGED controls
     \/ /\ r.pc = "accepted" /\ taken
        /\ controls' = controls \cup {mine} /\ Edit(c, [r EXCEPT !.pc = "receipt"])
     \/ /\ r.pc = "accepted" /\ ~r.due /\ (taken => "full" \in Events)
        /\ UNCHANGED controls /\ Edit(c, [r EXCEPT !.pc = "returning"])
     \/ r.pc = "receipt" /\ controls' = controls \ {mine} /\ Edit(c, [r EXCEPT !.pc = "returning"])
  /\ UNCHANGED <<attachment, att, slots, wires>>

Return(c) ==
  /\ call[c].pc = "returning"
  /\ Edit(c, [retireSend(call[c]) EXCEPT !.pc = "final", !.outcome = "success", !.published = "HandlerFinished"])
  /\ ByCall

\* The deadline passes; withTimeout() and the caller cancel at a suspension.
Deadline(c) ==
  /\ "deadline" \in Events /\ ~call[c].due /\ call[c].pc \notin {"idle", "final", "ended"}
  /\ Edit(c, [call[c] EXCEPT !.due = TRUE])
  /\ ByCall

Cancelled(c) ==
  LET r == call[c] IN
  /\ r.pc \notin {"idle", "final", "ended"}
  /\ \/ r.due /\ Edit(c, Failed(r, "DeadlineExceeded"))
     \/ "cancel" \in Events /\ Edit(c, Failed(r, "cancelled"))
  /\ controls' = IF r.pc = "receipt" THEN {x \in controls : x.c # c} ELSE controls
  /\ UNCHANGED <<attachment, att, slots, wires>>

\* The NonCancellable part of finally: an ambiguous call is cancelled at its host.
Finally(c) ==
  LET r == call[c]
      stop == /\ r.outcome # "success" /\ r.evidence = "MayHaveExecuted"
              /\ LinkOf(c).state = "Connected" /\ ~LinkOf(c).closed
  IN
  /\ r.pc = "final"
  /\ Edit(c, [r EXCEPT !.pc = "ended", !.registered = FALSE, !.replies = <<>>, !.closed = TRUE])
  /\ slots' = slots + 1
  /\ \/ controls' = controls \cup (IF stop THEN {BestEffort("Cancel", c)} ELSE {})
     \/ "full" \in Events /\ UNCHANGED controls
  /\ UNCHANGED <<attachment, att, wires>>

CallStep(c) == \/ Begin(c) \/ Select(c) \/ Register(c) \/ waitForSameHost(c) \/ OfferCall(c)
               \/ SendCompleted(c) \/ Receive(c) \/ ResultReply(c) \/ sendAcceptedReceipt(c)
               \/ Return(c) \/ Finally(c)
-----------------------------------------------------------------------------
(* The writer of the link: RpcLink checks all its steps.                   *)

Writing(n) == {c \in Calls : call[c].owner = n /\ call[c].ticket \in {"started", "announced"}}
Message(kind, c, again) == [kind |-> kind, c |-> c, inc |-> call[c].inc, again |-> again]

TicketBegins(c) ==
  LET r == call[c]
      ready == LinkOf(c).state = "Connected" /\ LinkOf(c).gen = r.gen /\ ~LinkOf(c).closed /\ ~r.due
  IN
  /\ r.ticket = "queued" /\ Writing(r.owner) = {}
  /\ Edit(c, [r EXCEPT !.ticket = IF ready THEN "started" ELSE "cancelled"])
  /\ ByCall

onStart(c) ==
  LET r == call[c] IN
  /\ r.ticket = "started"
  /\ Edit(c, [r EXCEPT !.ticket = "announced", !.evidence = IF r.invoking THEN "MayHaveExecuted" ELSE @])
  /\ ByCall

\* sendAtGeneration(): the bytes go out on that connection or not at all.
TicketEnds(c) ==
  LET r == call[c]
      mayWrite == LinkOf(c).state = "Connected" /\ LinkOf(c).gen = r.gen
  IN
  /\ r.ticket = "announced"
  /\ \E out \in BOOLEAN, ok \in BOOLEAN :
       /\ out => mayWrite
       /\ ok => out
       /\ ~ok => "send fails" \in Events \/ ~mayWrite \/ LinkOf(c).closed
       /\ toHost' = IF out THEN [toHost EXCEPT ![r.gen] =
                                   Append(@, Message(IF r.invoking THEN "Invoke" ELSE "Status", c, r.again))]
                    ELSE toHost
       /\ Edit(c, [r EXCEPT !.ticket = IF ok THEN "sent" ELSE "failed"])
  /\ UNCHANGED <<attachment, att, slots, controls, toClient>>

\* A Cancel or Receipt is sent in its turn, or its second runs out.
ControlSent(x) ==
  LET r == call[x.c]
      a == LinkOf(x.c)
      ready == /\ a.state = "Connected" /\ a.gen = x.gen /\ ~a.closed
               /\ x.strict => r.pc = "receipt" /\ canStart(x.c)
  IN
  /\ Writing(r.owner) = {} /\ controls' = controls \ {x}
  /\ \/ ready /\ toHost' = [toHost EXCEPT ![x.gen] = Append(@, Message(x.kind, x.c, FALSE))]
     \/ (ready => "full" \in Events) /\ UNCHANGED toHost
  /\ UNCHANGED <<attachment, att, call, slots, toClient>>
-----------------------------------------------------------------------------
(* Attachments, negotiation and replies.                                   *)

\* RpcClient.attach(): the previous selection is closed before a new one.
attach(n) ==
  /\ attachment = 0 /\ att[n].state = "none" /\ (n > 1 => att[n - 1].closed)
  /\ NextConnection \in Connections
  /\ attachment' = n
  /\ att' = [att EXCEPT ![n].state = "Connected", ![n].gen = NextConnection]
  /\ UNCHANGED <<call, controls>> /\ ByLink

\* observe(): a new negotiation for every state and generation seen.
observe(n) ==
  LET a == att[n]
      neg == IF a.state = "Connected" THEN a.gen ELSE 0
  IN
  /\ Active(n) /\ neg # a.neg
  /\ att' = [att EXCEPT ![n].neg = neg, ![n].ready = NotReady]
  /\ UNCHANGED <<attachment, call, controls>> /\ ByLink

OfferHello(n) ==
  LET a == att[n] IN
  /\ Active(n) /\ a.neg # 0 /\ a.ready.gen # a.neg
  /\ a.state = "Connected" /\ a.gen = a.neg /\ ~a.closed
  /\ ~ \E i \in DOMAIN toHost[a.gen] : toHost[a.gen][i].kind = "Hello"
  /\ ~ \E i \in DOMAIN toClient[n] : toClient[n][i].code = "Ready" /\ toClient[n][i].gen = a.neg
  /\ toHost' = [toHost EXCEPT ![a.gen] = Append(@, [kind |-> "Hello", gen |-> a.neg])]
  /\ UNCHANGED <<clientVars, toClient>>

LinkClosed(a) == [a EXCEPT !.closed = TRUE, !.state = "Closed"]
Drained(n) ==
  [c \in Calls |-> IF call[c].owner = n /\ call[c].ticket = "queued"
                   THEN [call[c] EXCEPT !.ticket = "cancelled"] ELSE call[c]]

\* A delayed READY of an older connection cannot authorize this one.
ReadyMatches(a, m) ==
  m.code = "Ready" /\ a.neg # 0 /\ m.gen = a.neg /\ a.gen = a.neg /\ a.state = "Connected"

onReady(n) ==
  LET a == att[n]
      m == Head(toClient[n])
      invalid == a.ready.gen # 0 /\ a.ready.inc # m.inc
  IN
  /\ toClient[n] # <<>> /\ m.code = "Ready" /\ toClient' = [toClient EXCEPT ![n] = Tail(@)]
  /\ IF ~Active(n) \/ ~ReadyMatches(a, m) THEN UNCHANGED <<att, call>>
     ELSE IF invalid THEN att' = [att EXCEPT ![n] = LinkClosed(a)] /\ call' = Drained(n)
     ELSE /\ att' = [att EXCEPT ![n].ready = [inc |-> m.inc, gen |-> a.neg, trusted |-> m.trusted]]
          /\ UNCHANGED call
  /\ UNCHANGED <<attachment, slots, controls, toHost>>

\* A reply is queued for its call, if that is still pending.
onReply(n) ==
  LET m == Head(toClient[n])
      r == call[m.c]
      full == Len(r.replies) >= ReplySlots
  IN
  /\ toClient[n] # <<>> /\ m.code # "Ready" /\ toClient' = [toClient EXCEPT ![n] = Tail(@)]
  /\ IF ~Active(n) \/ ~r.registered THEN UNCHANGED <<att, call>>
     ELSE IF r.owner # n \/ full THEN att' = [att EXCEPT ![n] = LinkClosed(@)] /\ call' = Drained(n)
     ELSE Edit(m.c, [r EXCEPT !.replies = Append(@, [code |-> m.code, inc |-> m.inc])]) /\ UNCHANGED att
  /\ UNCHANGED <<attachment, slots, controls, toHost>>

\* RpcLink.close(), by its workers, a failed negotiation or after engine.close().
CloseLink(n) ==
  /\ att[n].state # "none" /\ ~att[n].closed
  /\ ~Active(n) \/ att[n].state = "Closed" \/ "link closes" \in Events
  /\ att' = [att EXCEPT ![n] = LinkClosed(@)] /\ call' = Drained(n)
  /\ controls' = {x \in controls : call[x.c].owner # n}
  /\ UNCHANGED attachment /\ ByLink

\* Fault: the waiting calls are not told.
CloseNone(n) == call

\* Only the calls of this attachment lose their replies.
ClosedReplies(n) ==
  [c \in Calls |-> IF call[c].registered /\ call[c].owner = n
                   THEN [call[c] EXCEPT !.closed = TRUE] ELSE call[c]]

detachLocked(n, a) ==
  /\ attachment' = 0
  /\ att' = [att EXCEPT ![n] = [a EXCEPT !.ready = NotReady, !.neg = 0]]
  /\ call' = ClosedReplies(n)

\* Fault: the link that closed is taken for the selected one.
DetachSelected(n) ==
  /\ att[n].closed /\ ~att[n].told /\ attachment # 0
  /\ detachLocked(attachment, [att[attachment] EXCEPT !.told = TRUE])
  /\ UNCHANGED controls /\ ByLink

\* onClosed of a link, which may no longer be the selected one.
detach(n) ==
  /\ att[n].closed /\ ~att[n].told
  /\ IF Active(n) THEN detachLocked(n, [att[n] EXCEPT !.told = TRUE])
     ELSE att' = [att EXCEPT ![n].told = TRUE] /\ UNCHANGED <<attachment, call>>
  /\ UNCHANGED controls /\ ByLink

\* close() of the engine: disconnect(), another connect() or lost trust.
close(n) ==
  /\ Active(n) /\ "close" \in Events
  /\ detachLocked(n, [att[n] EXCEPT !.dismissed = TRUE])
  /\ UNCHANGED controls /\ ByLink

\* The session below: a lost connection takes the end of each stream with it.
Disconnected(a) == [a EXCEPT !.state = "Reconnecting"]
Lose(n) ==
  \E i \in 0..Len(toHost[att[n].gen]), j \in 0..Len(toClient[n]) :
    /\ toHost' = [toHost EXCEPT ![att[n].gen] = SubSeq(@, 1, i)]
    /\ toClient' = [toClient EXCEPT ![n] = SubSeq(@, 1, j)]

Drop(n) ==
  /\ att[n].state = "Connected" /\ "drop" \in Events
  /\ att' = [att EXCEPT ![n] = Disconnected(@)] /\ Lose(n)
  /\ UNCHANGED <<attachment, call, slots, controls>>

Reconnect(n) ==
  /\ att[n].state = "Reconnecting"
  /\ \/ /\ NextConnection \in Connections
        /\ att' = [att EXCEPT ![n].state = "Connected", ![n].gen = NextConnection]
     \/ "give up" \in Events /\ att' = [att EXCEPT ![n].state = "Closed"]
  /\ UNCHANGED <<attachment, call, controls>> /\ ByLink

LinkStep(n) == \/ attach(n) \/ observe(n) \/ OfferHello(n) \/ onReady(n) \/ onReply(n)
               \/ CloseLink(n) \/ detach(n) \/ close(n) \/ Drop(n) \/ Reconnect(n)
WriterStep(c) == TicketBegins(c) \/ onStart(c) \/ TicketEnds(c)

ClientInit ==
  /\ attachment = 0 /\ att = [n \in Attachments |-> NoLink]
  /\ call = [c \in Calls |-> NewCall] /\ slots = OutstandingLimit /\ controls = {}
  /\ toHost = [g \in Connections |-> <<>>] /\ toClient = [n \in Attachments |-> <<>>]

ClientNext ==
  \/ \E c \in Calls : CallStep(c) \/ WaitTimesOut(c) \/ Accept(c) \/ Deadline(c) \/ Cancelled(c) \/ WriterStep(c)
  \/ \E x \in controls : ControlSent(x)
  \/ \E n \in Attachments : LinkStep(n)
=============================================================================
