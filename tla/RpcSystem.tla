------------------------------ MODULE RpcSystem ------------------------------
(***************************************************************************)
(* A client and its host: RpcClientEngine composed with the contract of a  *)
(* request id (RpcCall) that RpcHostEngine implements, over connections    *)
(* that drop, and with a host process that dies and comes back with a new  *)
(* incarnation and no records.                                             *)
(***************************************************************************)
EXTENDS RpcClientEngine

CONSTANTS MaxIncarnations   \* bound: starts of the host

VARIABLES
  inc,       \* host: its incarnation
  served,    \* per connection: the incarnation whose HELLO gate it has passed
  record,    \* host: what it holds of each request id
  execs,     \* history: how often the handler of a call began
  finished   \* history: calls a handler has finished with a result

hostVars == <<inc, served, record, execs, finished>>
vars == <<clientVars, wires, hostVars>>

Host == INSTANCE RpcCall WITH
  call <- record, now <- 0, open <- FALSE, Keys <- Calls, RecordTtl <- 0,
  NotBegun <- {"CancelledBeforeStart", "AccessRevoked"}, WithBody <- {"Result"}, Begun <- {"HandlerFailed"}

\* snapshotResult(), with UnknownOutcome for an id the host does not hold.
Snapshot(r) ==
  CASE r.life = "none" -> "UnknownOutcome" [] r.life \in {"held", "began"} -> "Running"
    [] r.life = "ended" -> IF r.outcome = "Result" /\ ~r.kept THEN "ResultUnavailable" ELSE r.outcome

\* The attachment whose current connection is g, if the host can write to it.
Current(g) == {n \in Attachments : att[n].state = "Connected" /\ att[n].gen = g}
Answer(c, code) == [c |-> c, code |-> code, inc |-> inc]
Reply(g, m) == toClient' = [n \in Attachments |-> IF n \in Current(g) THEN Append(toClient[n], m) ELSE toClient[n]]

\* The next message of a connection reaches the host.
Take(g) == toHost[g] # <<>> /\ toHost' = [toHost EXCEPT ![g] = Tail(@)]

Hello(g) ==
  /\ Take(g) /\ Head(toHost[g]).kind = "Hello"
  /\ served' = [served EXCEPT ![g] = inc]
  /\ \E trusted \in {TRUE} \cup (IF "enrollment" \in Events THEN {FALSE} ELSE {}) :
       Reply(g, [code |-> "Ready", gen |-> Head(toHost[g]).gen, inc |-> inc, trusted |-> trusted])
  /\ UNCHANGED <<clientVars, inc, record, execs, finished>>

\* A message on a connection without HELLO: the host closes it.
Unserved(g) ==
  /\ toHost[g] # <<>> /\ Head(toHost[g]).kind # "Hello" /\ served[g] # inc
  /\ toHost' = [toHost EXCEPT ![g] = <<>>]
  /\ att' = [n \in Attachments |-> IF n \in Current(g) THEN Disconnected(att[n]) ELSE att[n]]
  /\ UNCHANGED <<attachment, call, slots, controls, toClient, hostVars>>

\* A request for another incarnation.
Stale(g) ==
  LET m == Head(toHost[g]) IN
  /\ Take(g) /\ m.kind # "Hello" /\ served[g] = inc /\ m.inc # inc
  /\ Reply(g, Answer(m.c, "HostRestarted"))
  /\ UNCHANGED <<clientVars, hostVars>>

Serves(g, kind) ==
  Take(g) /\ Head(toHost[g]).kind = kind /\ served[g] = inc /\ Head(toHost[g]).inc = inc

\* An admitted call is answered when it ends.
Admitted(g, c) == UNCHANGED toClient

\* A new id is held or refused; a known one is never executed again.
Invoke(g) ==
  LET m == Head(toHost[g])
      r == record[m.c]
  IN
  /\ Serves(g, "Invoke")
  /\ \/ /\ r.life = "none" /\ \E h \in Host!Held(r) : record' = [record EXCEPT ![m.c] = h]
        /\ (m.again => m.c \in Idempotent) /\ Admitted(g, m.c)
     \/ /\ r.life = "none" /\ UNCHANGED record
        /\ "deny" \in Events \/ (m.again /\ m.c \notin Idempotent)
        /\ \E code \in RejectedBeforeExecution \cup {"AccessRevoked"} : Reply(g, Answer(m.c, code))
     \/ /\ r.life # "none" /\ UNCHANGED record
        /\ \E code \in {Snapshot(r)} \cup (IF "deny" \in Events THEN {"AccessRevoked"} ELSE {}) :
             Reply(g, Answer(m.c, code))
  /\ UNCHANGED <<clientVars, inc, served, execs, finished>>

Status(g) ==
  LET m == Head(toHost[g]) IN
  /\ Serves(g, "Status")
  /\ \E code \in {Snapshot(record[m.c])} \cup (IF "deny" \in Events THEN {"AccessRevoked"} ELSE {}) :
       Reply(g, Answer(m.c, code))
  /\ UNCHANGED <<clientVars, hostVars>>

\* Receipt drops the body of its result; Cancel only makes an end likely.
Control(g) ==
  LET m == Head(toHost[g]) IN
  /\ Serves(g, "Receipt") \/ Serves(g, "Cancel")
  /\ record' = IF m.kind = "Receipt" /\ record[m.c].kept THEN [record EXCEPT ![m.c].kept = FALSE] ELSE record
  /\ UNCHANGED <<clientVars, toClient, inc, served, execs, finished>>

HandlerBegins(c) ==
  /\ \E r \in Host!Began(record[c]) : record' = [record EXCEPT ![c] = r]
  /\ execs' = [execs EXCEPT ![c] = @ + 1]
  /\ UNCHANGED <<clientVars, wires, inc, served, finished>>

\* finish(): the outcome is kept and sent on the connection that was ready when
\* it was chosen, if any.
CallEnds(c) ==
  /\ \E r \in Host!Ended(record[c], 0) :
       /\ record' = [record EXCEPT ![c] = r]
       /\ finished' = IF r.outcome = "Result" THEN finished \cup {c} ELSE finished
       /\ \/ \E g \in Connections : served[g] = inc /\ Reply(g, Answer(c, r.outcome))
          \/ ("deny" \in Events \/ \A g \in Connections : served[g] # inc) /\ UNCHANGED toClient
  /\ UNCHANGED <<clientVars, toHost, inc, served, execs>>

\* Eviction and expiry, at any time: no retention time is relied on.
Forgets(c) ==
  /\ "forget" \in Events
  /\ \E r \in Host!BodyDropped(record[c]) \cup Host!Forgotten(record[c], 0, FALSE) :
       record' = [record EXCEPT ![c] = r]
  /\ UNCHANGED <<clientVars, wires, inc, served, execs, finished>>

\* The host process ends with everything it holds and starts again.
Restart ==
  /\ "crash" \in Events /\ inc < MaxIncarnations /\ inc' = inc + 1
  /\ record' = [c \in Calls |-> Host!NoCall]
  /\ toHost' = [g \in Connections |-> <<>>]
  /\ att' = [n \in Attachments |-> IF att[n].state = "Connected" THEN Disconnected(att[n]) ELSE att[n]]
  /\ \E lost \in BOOLEAN : toClient' = IF lost THEN [n \in Attachments |-> <<>>] ELSE toClient
  /\ UNCHANGED <<attachment, call, slots, controls, served, execs, finished>>

HostNext ==
  \/ \E g \in Connections : Hello(g) \/ Unserved(g) \/ Stale(g) \/ Invoke(g) \/ Status(g) \/ Control(g)
  \/ \E c \in Calls : HandlerBegins(c) \/ CallEnds(c) \/ Forgets(c)
  \/ Restart

Init ==
  /\ ClientInit
  /\ inc = 1 /\ served = [g \in Connections |-> 0]
  /\ record = [c \in Calls |-> Host!NoCall] /\ execs = [c \in Calls |-> 0] /\ finished = {}

Next == (ClientNext /\ UNCHANGED hostVars) \/ HostNext

Spec == Init /\ [][Next]_vars

\* The coroutines of the client run when they can, a link whose attachment is
\* gone is closed, and core ends a send.  No deadline, reply or host is relied on.
Fairness ==
  /\ \A c \in Calls : /\ WF_vars(CallStep(c) /\ UNCHANGED hostVars)
                       /\ WF_vars(WriterStep(c) /\ UNCHANGED hostVars)
  /\ \A n \in Attachments : WF_vars(~Active(n) /\ CloseLink(n) /\ UNCHANGED hostVars)

FairSpec == Spec /\ Fairness
-----------------------------------------------------------------------------
(* Properties.                                                             *)

Pcs == {"idle", "select", "encode", "gate", "offer", "sending", "waiting",
        "accepting", "accepted", "receipt", "returning", "final", "ended"}
Evidence == {"NotSent", "RejectedBeforeExecution", "MayHaveExecuted", "HandlerFinished"}

Kinds == RejectedBeforeExecution \cup MayHaveExecuted \cup {"none", "success", "NotConnected",
  "Unauthorized", "DeadlineExceeded", "InvalidPayload", "acceptance", "cancelled"}
Codes == RejectedBeforeExecution \cup MayHaveExecuted \cup {"Running", "Result"}
LinkType == [state : {"none", "Connected", "Reconnecting", "Closed"}, gen : 0 .. MaxConnections,
  closed : BOOLEAN, dismissed : BOOLEAN, told : BOOLEAN,
  ready : [inc : Nat, gen : 0 .. MaxConnections, trusted : BOOLEAN], neg : 0 .. MaxConnections]
ReplyType == [code : Codes, inc : Nat]
CallType == [pc : Pcs, registered : BOOLEAN, owner : 0 .. MaxAttachments, inc : Nat, attempt : 1 .. MaxAttempts,
  invoke : BOOLEAN, again : BOOLEAN, invoking : BOOLEAN, ambiguous : BOOLEAN, evidence : Evidence,
  ticket : {"none", "queued", "started", "announced", "sent", "failed", "cancelled"},
  gen : 0 .. MaxConnections, replies : Seq(ReplyType), closed : BOOLEAN, due : BOOLEAN,
  accepted : BOOLEAN, outcome : Kinds, published : Evidence \cup {"none"}]
ControlType == [kind : {"Cancel", "Receipt"}, c : Calls, gen : 0 .. MaxConnections, strict : BOOLEAN]
RequestType == [kind : {"Hello"}, gen : Connections]
  \cup [kind : {"Invoke", "Status", "Receipt", "Cancel"}, c : Calls, inc : Nat, again : BOOLEAN]
AnswerType == [code : {"Ready"}, gen : Connections, inc : Nat, trusted : BOOLEAN]
  \cup [c : Calls, code : Codes, inc : Nat]

TypeOK ==
  /\ attachment \in 0 .. MaxAttachments /\ att \in [Attachments -> LinkType]
  /\ call \in [Calls -> CallType] /\ slots \in Nat /\ controls \subseteq ControlType
  /\ toHost \in [Connections -> Seq(RequestType)] /\ toClient \in [Attachments -> Seq(AnswerType)]
  /\ inc \in Nat \ {0} /\ served \in [Connections -> Nat]
  /\ record \in [Calls -> Host!Call] /\ execs \in [Calls -> Nat] /\ finished \subseteq Calls

\* A call that is not idempotent executes at most once, over all attempts,
\* connections and incarnations of the host, whatever the host has forgotten.
AtMostOnce == \A c \in Calls \ Idempotent : execs[c] <= 1

\* Once a call has told its caller that it was not sent or was rejected before
\* execution, it has not executed and never will, although the writer, the wire
\* and the host may still have been busy with it; what it calls finished, a
\* handler has finished; and what it takes for the host's incarnation is that of
\* the process which answered on this very connection.
PublishedTruthful ==
  /\ \A c \in Calls : LET r == call[c] IN
       /\ r.published \in {"NotSent", "RejectedBeforeExecution"} => execs[c] = 0
       /\ r.evidence = "HandlerFinished" => c \in finished
  /\ \A n \in Attachments : LET r == att[n].ready IN r.gen # 0 => r.inc = served[r.gen]

\* A receipt of a call with an accept callback is on its way only if the
\* callback has returned, and only on the connection that was current when the
\* result was decoded (callWithDetails, sendAcceptedReceipt).
ReceiptAfterAcceptance ==
  \A g \in Connections : \A i \in DOMAIN toHost[g] : LET m == toHost[g][i] IN
    m.kind = "Receipt" => /\ m.c \in finished
                          /\ m.c \in Accepting => call[m.c].accepted /\ call[m.c].gen = g

\* The selected host stays selected until its own link has closed or the
\* application has dismissed it, however late other links report that they closed.
SelectionKept ==
  [][attachment # 0 /\ attachment' # attachment => att'[attachment].closed \/ att'[attachment].dismissed]_vars

\* A call whose connection is closed ends at once, not at its deadline: it waits
\* for no reply, ticket or READY that cannot come any more.
EndsWithAttachment ==
  \A c \in Calls : call[c].registered /\ ~Active(call[c].owner) ~> call[c].pc \in {"accepting", "ended"}
=============================================================================
