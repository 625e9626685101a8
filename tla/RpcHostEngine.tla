--------------------------- MODULE RpcHostEngine ---------------------------
(***************************************************************************)
(* The host side of P2pKit RPC: RpcHostEngine.kt.                           *)
(*                                                                         *)
(* The engine owns every call it admits: a record per (peer, request id)   *)
(* is installed before a handler can start, survives the connection that   *)
(* carried the request, and stays behind as a tombstone for a retention    *)
(* time, so that a repeated request id is answered and never executed      *)
(* again.  The actions are the engine's lock sections and the suspensions  *)
(* between them: readers, jobs, cancellers, the sweeper and close()        *)
(* interleave as the coroutines do.  Application policy, handlers and the  *)
(* payload budget are outside the engine: their answers are free.          *)
(***************************************************************************)
EXTENDS RpcHostLedger

VARIABLES
  clock,      \* RpcClock.now()
  phase,      \* open, then the three parts of close(): closing, links, sealed
  trusted,    \* RpcTrust.pins, as the trusted callback reads it
  revoke,     \* progress of RpcTrust.revoke, which holds the trust lock
  session,    \* RpcApplicationSession and revokeApplicationSession progress
  linkState,  \* new, attaching, open, closed, gone (detached)
  replaced,   \* the previous link an attach() in progress is closing
  links,      \* links: the current link of each peer
  ready,      \* ready: links whose HELLO was accepted
  reader,     \* per link: the onMessage() call in progress
  received,   \* messages received so far (bound only)
  ledger,     \* records, running, pending, completed, cachedBodies, counts
  cancels,    \* cancellations in progress: completeQueued and job.cancel
  deliver     \* results finish() still has to offer to a link

linkVars == <<linkState, replaced, links, ready>>
trustVars == <<trusted, revoke>>
callVars == <<reader, received, ledger, cancels, deliver>>
vars == <<clock, phase, trustVars, session, linkVars, callVars>>

\* What the steps of one part of the engine leave alone.
ByLink == UNCHANGED <<clock, phase, trustVars, session, callVars>>
ByReader == UNCHANGED <<clock, phase, trustVars, session, received, deliver>>
ByJob == UNCHANGED <<clock, phase, trustVars, session, linkVars, reader, received>>

closed == phase # "open"
isActive(s) == session[s] = "active"
Permits(s) == s # NoSession => isActive(s)

\* allowed(), allowedScope(): never TRUE without device trust and, for a
\* scoped call, its login; FALSE without them or whenever policy says so.
MayAllow(p, s) == p \in trusted /\ Permits(s)
MayDeny(p, s) == "denial" \in Events \/ ~MayAllow(p, s)
-----------------------------------------------------------------------------
(* Connections.                                                            *)

IdleReader == [pc |-> "idle", kind |-> "Hello", id |-> CHOOSE i \in Ids : TRUE,
               sig |-> CHOOSE s \in Sigs : TRUE, again |-> FALSE, dl |-> 0,
               sess |-> NoSession, inst |-> 0, reply |-> "none"]

Reader == [pc: {"idle", "lookup", "auth", "dup", "admit", "control", "scoped", "send"},
           kind: Controls \cup {"Hello", "Invoke"}, id: Ids, sig: Sigs,
           again: BOOLEAN, dl: Nat, sess: Sessions \cup {NoSession}, inst: Nat,
           reply: Replies]

KeyOf(l) == <<LinkPeer[l], reader[l].id>>

\* link.close(): offers are refused from now on; the workers end later.
Closing(l) == [linkState EXCEPT ![l] = IF @ \in {"attaching", "open"} THEN "closed" ELSE @]
CloseLink(l) == linkState' = Closing(l) /\ UNCHANGED <<replaced, links, ready>>

\* The onMessage() call of l returns, answers, or goes on with record r.
Return(l) == reader' = [reader EXCEPT ![l] = IdleReader]
Goto(l, pc) == reader' = [reader EXCEPT ![l].pc = pc]
Reply(l, what) == reader' = [reader EXCEPT ![l].pc = "send", ![l].reply = what]
Hold(l, pc, r) ==
  reader' = [reader EXCEPT ![l].pc = pc, ![l].inst = r.inst, ![l].sess = r.sess]
protocolFailure(l) == CloseLink(l) /\ Return(l)
refuse(l, reason) == Reply(l, reason) /\ UNCHANGED linkVars

\* One attach() at a time: incomingSessions is collected sequentially.
attach(l) ==
  LET old == links[LinkPeer[l]] IN
  /\ linkState[l] = "new" /\ replaced = NoLink
  /\ \/ /\ ~closed
        /\ links' = [links EXCEPT ![LinkPeer[l]] = l]
        /\ ready' = ready \ {old}
        /\ replaced' = old
        /\ linkState' = [linkState EXCEPT ![l] = IF old = NoLink THEN "open" ELSE "attaching"]
     \/ /\ closed
        /\ linkState' = [linkState EXCEPT ![l] = "gone"]
        /\ UNCHANGED <<replaced, links, ready>>
  /\ ByLink

\* The replaced link is closed outside the lock, then the new one starts.
AttachCloseOld ==
  /\ replaced # NoLink
  /\ linkState' = [m \in Links |-> IF linkState[m] = "attaching" THEN "open" ELSE Closing(replaced)[m]]
  /\ replaced' = NoLink
  /\ UNCHANGED <<links, ready>> /\ ByLink

Detached(l) ==
  /\ links' = [links EXCEPT ![LinkPeer[l]] = IF @ = l THEN NoLink ELSE @]
  /\ ready' = ready \ {l}

\* old.close() reports an incomplete teardown: the new link is given up.
AttachFails(l) ==
  /\ linkState[l] = "attaching" /\ "attach fails" \in Events
  /\ linkState' = [Closing(replaced) EXCEPT ![l] = "gone"]
  /\ replaced' = NoLink
  /\ Detached(l) /\ ByLink

\* A started link ends: peer loss, watchdog, physicalSession.close().
LinkLost(l) ==
  /\ linkState[l] = "open" /\ "link lost" \in Events
  /\ CloseLink(l) /\ ByLink

detach(l) ==
  /\ linkState[l] = "closed"
  /\ linkState' = [linkState EXCEPT ![l] = "gone"]
  /\ Detached(l) /\ UNCHANGED replaced /\ ByLink

\* The link's scope is cancelled, so its reader dies at its next suspension.
\* Admission runs under NonCancellable and is never abandoned half way.
ReaderCancelled(l) ==
  /\ linkState[l] \in {"closed", "gone"} /\ reader[l].pc \notin {"idle", "admit"}
  /\ Return(l) /\ UNCHANGED <<linkVars, ledger, cancels>> /\ ByReader

\* The reader is free: no message and no cancellation of its own in progress.
Listening(l) ==
  /\ linkState[l] = "open" /\ reader[l].pc = "idle" /\ \A c \in cancels : c.by # l
  /\ received < MaxMessages /\ received' = received + 1

\* Fault: a late HELLO of a replaced or detached link is accepted.
PermittedLate(l) == ~closed /\ (l \in TrustedLinks => LinkPeer[l] \in trusted)

permitted(l) ==
  ~closed /\ links[LinkPeer[l]] = l /\ (l \in TrustedLinks => LinkPeer[l] \in trusted)

Hello(l) ==
  /\ Listening(l) /\ (l \in ready => "hello again" \in Events)
  /\ \/ /\ permitted(l)
        /\ ready' = ready \cup {l} /\ UNCHANGED <<linkState, replaced, links>>
        /\ reader' = [reader EXCEPT ![l].pc = "send", ![l].reply = "Ready"]
     \/ ~permitted(l) /\ protocolFailure(l)
  /\ UNCHANGED <<clock, phase, trustVars, session, ledger, cancels, deliver>>

Message(kind, i, s, again, dl) ==
  [IdleReader EXCEPT !.kind = kind, !.id = i, !.sig = s, !.again = again, !.dl = dl]
Begin(l, m, pc, reply) ==
  /\ reader' = [reader EXCEPT ![l] = [m EXCEPT !.pc = pc, !.reply = reply]]
  /\ UNCHANGED linkVars

\* The checks onMessage() makes before it looks at a call: readiness under
\* the lock, the host incarnation, and Trusted admission.
Gate(l, m, stale) ==
  LET current == l \in ready /\ links[LinkPeer[l]] = l /\ ~closed IN
  IF current /\ stale THEN Begin(l, m, "send", "HostRestarted")
  ELSE IF current /\ l \in TrustedLinks /\ LinkPeer[l] \in trusted
  THEN Begin(l, m, IF m.kind = "Invoke" THEN "lookup" ELSE "control", "none")
  ELSE protocolFailure(l)

onMessage(l) ==
  /\ Listening(l)
  /\ \E kind \in Events \cap (Controls \cup {"Invoke"}), i \in Ids, s \in Sigs,
        again \in BOOLEAN, b \in Budgets, stale \in BOOLEAN :
       /\ clock + b <= MaxClock
       /\ again => kind = "Invoke" /\ "reinvoke" \in Events
       /\ stale => "stale incarnation" \in Events
       /\ Gate(l, Message(kind, i, s, again, IF kind = "Invoke" THEN clock + b ELSE 0), stale)
  /\ UNCHANGED <<clock, phase, trustVars, session, ledger, cancels, deliver>>

\* link.offer(): the message is queued, or refused and then the link goes.
Offer(l) ==
  \/ linkState[l] = "open" /\ UNCHANGED linkVars
  \/ (linkState[l] = "open" => "offer fails" \in Events) /\ CloseLink(l)

Send(l) ==
  /\ reader[l].pc = "send"
  /\ Return(l) /\ Offer(l) /\ UNCHANGED <<ledger, cancels>> /\ ByReader
-----------------------------------------------------------------------------
(* invoke().                                                               *)

\* A reused id is compared with the original before any refusal.
InvokeLookup(l) ==
  LET x == reader[l]
      t == expireLocked(ledger, clock)
      r == t.rec[KeyOf(l)]
  IN
  /\ x.pc = "lookup"
  /\ ledger' = t
  /\ IF Present(r) /\ ~matches(r, x.sig) THEN protocolFailure(l)
     ELSE IF x.sig \notin Known THEN refuse(l, "UnknownProcedure")
     ELSE IF x.sig \in Scoped /\ Present(r) THEN Hold(l, "dup", r) /\ UNCHANGED linkVars
     ELSE IF x.sig \in Scoped \cap Oversize THEN refuse(l, "InvalidPayload")
     ELSE IF x.sig \in Scoped \ Idempotent /\ x.again THEN refuse(l, "AccessRevoked")
     ELSE /\ reader' = [reader EXCEPT ![l].pc = "auth", ![l].inst = IF Present(r) THEN r.inst ELSE 0]
          /\ UNCHANGED linkVars
  /\ UNCHANGED cancels /\ ByReader

\* Fault: the denial rests on the lookup made before authorization suspended.
DeniedByLookup(l) ==
  LET x == reader[l] IN
  /\ x.pc = "auth" /\ x.sig \notin Scoped
  /\ MayDeny(LinkPeer[l], NoSession) \/ clock >= x.dl
  /\ refuse(l, IF x.inst # 0 THEN "AccessRevoked"
               ELSE IF clock >= x.dl THEN "DeadlineBeforeStart" ELSE "Unauthorized")
  /\ UNCHANGED <<ledger, cancels>> /\ ByReader

\* allowed() answered FALSE: by policy, timeout, deadline or lost trust.
InvokeDenied(l) ==
  LET x == reader[l] IN
  /\ x.pc = "auth" /\ x.sig \notin Scoped
  /\ MayDeny(LinkPeer[l], NoSession) \/ clock >= x.dl
  /\ refuse(l, IF x.inst # 0 \/ Present(ledger.rec[KeyOf(l)]) THEN "AccessRevoked"
               ELSE IF clock >= x.dl THEN "DeadlineBeforeStart" ELSE "Unauthorized")
  /\ UNCHANGED <<ledger, cancels>> /\ ByReader

InvokeAllowed(l) ==
  LET x == reader[l]
      r == ledger.rec[KeyOf(l)]
  IN
  /\ x.pc = "auth" /\ x.sig \notin Scoped /\ MayAllow(LinkPeer[l], NoSession)
  /\ IF Present(r) /\ ~matches(r, x.sig) THEN protocolFailure(l)
     ELSE IF Present(r) THEN refuse(l, snapshotResult(r))
     ELSE IF x.again /\ x.sig \notin Idempotent THEN refuse(l, "InvalidPayload")
     ELSE IF clock >= x.dl THEN refuse(l, "DeadlineBeforeStart")
     ELSE IF x.sig \in Oversize THEN refuse(l, "InvalidPayload")
     ELSE Goto(l, "admit") /\ UNCHANGED linkVars
  /\ UNCHANGED <<ledger, cancels>> /\ ByReader

\* Scoped procedures: the application verifies the login in the body.
Authenticated(l) ==
  LET x == reader[l] IN
  /\ x.pc = "auth" /\ x.sig \in Scoped
  /\ \E s \in Sessions :
       /\ SessionPeer[s] = LinkPeer[l] /\ MayAllow(LinkPeer[l], s)
       /\ IF clock >= x.dl THEN Reply(l, "AccessRevoked")
          ELSE reader' = [reader EXCEPT ![l].pc = "admit", ![l].sess = s]
  /\ UNCHANGED <<linkVars, ledger, cancels>> /\ ByReader

AuthenticationDenied(l) ==
  LET x == reader[l]
      raced == ledger.rec[KeyOf(l)]
  IN
  /\ x.pc = "auth" /\ x.sig \in Scoped
  /\ \/ MayDeny(LinkPeer[l], NoSession) \/ clock >= x.dl
     \/ \A s \in Sessions : SessionPeer[s] = LinkPeer[l] => ~isActive(s)
  /\ IF Present(raced) /\ ~matches(raced, x.sig) THEN protocolFailure(l)
     ELSE IF Present(raced) THEN Hold(l, "dup", raced) /\ UNCHANGED linkVars
     ELSE refuse(l, "AccessRevoked")
  /\ UNCHANGED <<ledger, cancels>> /\ ByReader

\* The original record is disclosed only under its original login.
scopedDuplicate(l) ==
  LET x == reader[l]
      k == KeyOf(l)
  IN
  /\ x.pc = "dup"
  /\ \/ MayDeny(LinkPeer[l], x.sess) /\ refuse(l, "AccessRevoked")
     \/ clock >= x.dl /\ refuse(l, "AccessRevoked")
     \/ /\ MayAllow(LinkPeer[l], x.sess)
        /\ refuse(l, IF Same(ledger, k, x.inst) THEN snapshotResult(ledger.rec[k]) ELSE "UnknownOutcome")
  /\ UNCHANGED <<ledger, cancels>> /\ ByReader

\* The admission transaction, under the lock (and, for a scoped call, under
\* the login's gate): nothing can end between the record and its launch.
Admit(l) ==
  LET x == reader[l]
      k == KeyOf(l)
      t == expireLocked(ledger, clock)
      r == t.rec[k]
      full == closed \/ k[1] \notin trusted \/ AtCapacity(t, k[1])
  IN
  /\ x.pc = "admit"
  /\ \/ /\ Present(r) /\ ledger' = t
        /\ IF ~matches(r, x.sig) THEN protocolFailure(l)
           ELSE IF x.sig \in Scoped THEN Hold(l, "dup", r) /\ UNCHANGED linkVars
           ELSE refuse(l, snapshotResult(r))
     \/ /\ ~Present(r) /\ (~Permits(x.sess) \/ clock >= x.dl \/ full) /\ ledger' = t
        /\ refuse(l, IF ~Permits(x.sess) THEN "AccessRevoked"
                     ELSE IF clock < x.dl THEN "Overloaded"
                     ELSE IF x.sig \in Scoped THEN "AccessRevoked" ELSE "DeadlineBeforeStart")
     \/ /\ ~Present(r) /\ Permits(x.sess) /\ clock < x.dl /\ ~full
        /\ \E n \in (IF BudgetTight THEN 0..Len(t.cached) ELSE {0}) :
             LET reclaimed == DropOldest(t, n) IN
             \/ /\ ledger' = Install(reclaimed, k, x.sig, x.sess, x.dl, clock)
                /\ Return(l) /\ UNCHANGED linkVars
             \/ BudgetTight /\ ledger' = reclaimed /\ refuse(l, "Overloaded")
  /\ UNCHANGED cancels /\ ByReader
-----------------------------------------------------------------------------
(* control() and scopedControl().                                          *)

\* A cancellation of record (k, inst), with the steps its owner still has to
\* take: control(), revoke() and close() claim a queued record and then
\* cancel a job; revokeApplicationSession() does it the other way round.
Cancellation == [k: Keys, inst: Nat, by: Links \cup Sessions \cup {"revoke", "close", "sweep"},
                 plan: Seq({"claim", "await", "job"}) \ {<<>>}]
Cancelling(ks, by, plan) ==
  {[k |-> k, inst |-> ledger.rec[k].inst, by |-> by, plan |-> plan] : k \in ks}
ClaimThenJob == <<"claim", "job">>
JobThenClaim == <<"job", "claim">>

\* What a matching Status, Cancel or Receipt does to the record of k.
Controlled(l, t, k) ==
  LET r == t.rec[k]
      kind == reader[l].kind
      stop == kind = "Cancel" /\ r.stage \in Active
  IN
  /\ ledger' = IF kind = "Receipt" /\ r.stage = "Complete" THEN dropResultBody(t, k)
               ELSE IF stop THEN RequestCancel(t, {k}) ELSE t
  /\ cancels' = IF stop THEN cancels \cup Cancelling({k}, l, ClaimThenJob) ELSE cancels
  /\ IF kind = "Status" THEN Reply(l, snapshotResult(r)) ELSE Return(l)

\* The record the control names is gone: only Status is answered.
Unmatched(l) ==
  /\ IF reader[l].kind = "Status" THEN Reply(l, "UnknownOutcome") ELSE Return(l)
  /\ UNCHANGED cancels

ControlDenied(l) ==
  LET x == reader[l] IN
  /\ \/ x.pc = "control" /\ x.sig \notin Known
     \/ x.pc = "control" /\ x.sig \in Known \ Scoped /\ MayDeny(LinkPeer[l], NoSession)
     \/ x.pc = "scoped" /\ (MayDeny(LinkPeer[l], x.sess) \/ closed)
  /\ refuse(l, "AccessRevoked") /\ UNCHANGED <<ledger, cancels>> /\ ByReader

ControlAllowed(l) ==
  LET x == reader[l]
      t == expireLocked(ledger, clock)
      r == t.rec[KeyOf(l)]
  IN
  /\ x.pc = "control" /\ x.sig \in Known \ Scoped /\ MayAllow(LinkPeer[l], NoSession)
  /\ \/ Present(r) /\ ~matches(r, x.sig) /\ ledger' = t /\ protocolFailure(l) /\ UNCHANGED cancels
     \/ Present(r) /\ matches(r, x.sig) /\ Controlled(l, t, KeyOf(l)) /\ UNCHANGED linkVars
     \/ ~Present(r) /\ ledger' = t /\ Unmatched(l) /\ UNCHANGED linkVars
  /\ ByReader

\* A scoped control first finds its record, whose login then decides.
ScopedLookup(l) ==
  LET x == reader[l]
      t == expireLocked(ledger, clock)
      r == t.rec[KeyOf(l)]
  IN
  /\ x.pc = "control" /\ x.sig \in Scoped
  /\ ledger' = t
  /\ IF Present(r) /\ ~matches(r, x.sig) THEN protocolFailure(l)
     ELSE (IF Present(r) THEN Hold(l, "scoped", r) ELSE Return(l)) /\ UNCHANGED linkVars
  /\ UNCHANGED cancels /\ ByReader

ScopedCommit(l) ==
  LET x == reader[l] IN
  /\ x.pc = "scoped" /\ MayAllow(LinkPeer[l], x.sess) /\ ~closed
  /\ IF Same(ledger, KeyOf(l), x.inst) THEN Controlled(l, ledger, KeyOf(l))
     ELSE Unmatched(l) /\ UNCHANGED ledger
  /\ UNCHANGED linkVars /\ ByReader
-----------------------------------------------------------------------------
(* launchRecord(): the coroutine that launches, and the job it launches.   *)

Update(k, r) ==
  ledger' = [ledger EXCEPT !.rec[k] = r] /\ UNCHANGED <<cancels, deliver>> /\ ByJob

Launch(k) ==
  LET r == ledger.rec[k] IN
  r.launcher = "due" /\ Update(k, [r EXCEPT !.launcher = "launched", !.task = "ready"])

\* record.job.value = job
PublishJob(k) ==
  LET r == ledger.rec[k] IN
  r.launcher = "launched" /\ Update(k, [r EXCEPT !.launcher = "published"])

\* Fault: the launcher does not look again for a cancellation.
CheckSkipped(k) ==
  LET r == ledger.rec[k] IN
  r.launcher = "published" /\ Update(k, [r EXCEPT !.launcher = "checked"])

\* A cancellation that found no job yet is made good here.
CheckCancel(k) ==
  LET r == ledger.rec[k] IN
  /\ r.launcher = "published"
  /\ Update(k, [r EXCEPT !.launcher = "checked", !.jobCancelled = @ \/ r.cancelRequested])

EndJob(k, outcome) ==
  Update(k, [ledger.rec[k] EXCEPT !.task = "select", !.terminal = outcome])

JobStart(k) ==
  LET r == ledger.rec[k] IN
  /\ r.task = "ready"
  /\ IF r.jobCancelled \/ r.cancelRequested THEN EndJob(k, "CancelledBeforeStart")
     ELSE IF clock >= r.deadline THEN EndJob(k, "DeadlineBeforeStart")
     ELSE Update(k, [r EXCEPT !.task = "decoding"])

\* beforeHandler(): the last gate before application code runs.
MayBegin(k) ==
  LET r == ledger.rec[k] IN
  ~r.jobCancelled /\ ~r.cancelRequested /\ MayAllow(k[1], r.sess)

JobBegin(k) ==
  LET r == ledger.rec[k] IN
  /\ r.task = "decoding" /\ MayBegin(k)
  /\ Update(k, [r EXCEPT !.task = "handler", !.began = TRUE])

\* Decoding fails, the deadline strikes, the job is cancelled or refused the
\* start, or a scoped policy denies Execute.
JobFails(k) ==
  LET r == ledger.rec[k] IN
  /\ r.task = "decoding"
  /\ \/ "bad payload" \in Events /\ EndJob(k, "InvalidPayload")
     \/ clock >= r.deadline /\ EndJob(k, "DeadlineBeforeStart")
     \/ ~MayBegin(k) /\ EndJob(k, "CancelledBeforeStart")
     \/ /\ r.sess # NoSession /\ (MayDeny(k[1], r.sess) \/ clock >= r.deadline)
        /\ EndJob(k, "AccessRevoked")

\* Fault: cancellation is reported without looking at executionBegan.
EndsAsUnstarted(k) ==
  LET r == ledger.rec[k] IN
  /\ r.task = "handler"
  /\ EndJob(k, IF r.jobCancelled THEN "CancelledBeforeStart" ELSE "Result")

\* The handler returns, throws, is timed out or cooperates in cancellation;
\* an application CancellationException also ends as Cancelled.
HandlerEnds(k) ==
  LET r == ledger.rec[k] IN
  /\ r.task = "handler"
  /\ \E outcome \in Endings :
       (outcome = "Deadline" => clock >= r.deadline) /\ EndJob(k, outcome)

\* finish(): pick the link to answer on; its authorization then suspends.
FinishSelect(k) ==
  LET r == ledger.rec[k]
      l == links[k[1]]
  IN
  /\ r.task = "select"
  /\ Update(k, [r EXCEPT !.task = "commit",
                  !.candidate = IF l \in ready \cap TrustedLinks THEN l ELSE NoLink])

FinishCommit(k) ==
  LET r == ledger.rec[k] IN
  /\ r.task = "commit"
  /\ ledger' = Completed(ledger, k, clock, closed)
  /\ \/ /\ r.candidate = NoLink \/ MayDeny(k[1], r.sess) \/ closed
        /\ UNCHANGED deliver
     \/ /\ r.candidate # NoLink /\ MayAllow(k[1], r.sess) /\ ~closed
        /\ deliver' = deliver \cup {[link |-> r.candidate, k |-> k, reply |-> r.terminal]}
  /\ UNCHANGED cancels /\ ByJob

\* The result is offered to the chosen link, however it is by now.
Deliver(d) ==
  /\ deliver' = deliver \ {d}
  /\ Offer(d.link)
  /\ UNCHANGED <<clock, phase, trustVars, session, reader, received, ledger, cancels>>
-----------------------------------------------------------------------------
(* Cancellation, the sweeper, revocation and close().                      *)

Advance(c, plan) ==
  cancels' = (cancels \ {c}) \cup (IF plan = <<>> THEN {} ELSE {[c EXCEPT !.plan = plan]})

\* completeQueued(): claim a record that is still queued, then finish it.
Claimed(t, k, reason) ==
  [t EXCEPT !.pending = Without(@, k),
            !.rec[k] = [@ EXCEPT !.stage = "Finalizing", !.task = "select", !.terminal = reason]]

completeQueued(c) ==
  LET mine == Same(ledger, c.k, c.inst) /\ ledger.rec[c.k].stage = "Queued"
      reason == IF c.by = "sweep" THEN "DeadlineBeforeStart" ELSE "CancelledBeforeStart"
  IN
  /\ Head(c.plan) = "claim"
  /\ ledger' = IF mine THEN Claimed(ledger, c.k, reason) ELSE ledger
  /\ Advance(c, IF mine THEN <<"await">> \o Tail(c.plan) ELSE Tail(c.plan))
  /\ UNCHANGED deliver /\ ByJob

\* Fault: the owner waits for a Complete record, which a closed engine removes.
AwaitComplete(c) ==
  /\ Head(c.plan) = "await"
  /\ ledger.rec[c.k].stage = "Complete"
  /\ Advance(c, Tail(c.plan)) /\ UNCHANGED <<ledger, deliver>> /\ ByJob

\* The claim runs finish() before its owner goes on.
AwaitFinish(c) ==
  /\ Head(c.plan) = "await"
  /\ ~(Same(ledger, c.k, c.inst) /\ ledger.rec[c.k].stage = "Finalizing")
  /\ Advance(c, Tail(c.plan)) /\ UNCHANGED <<ledger, deliver>> /\ ByJob

\* record.job.value?.cancel(): nothing happens before the job is published.
CancelJob(c) ==
  /\ Head(c.plan) = "job"
  /\ ledger' = IF Same(ledger, c.k, c.inst) /\ ledger.rec[c.k].launcher \in {"published", "checked"}
               THEN [ledger EXCEPT !.rec[c.k].jobCancelled = TRUE] ELSE ledger
  /\ Advance(c, Tail(c.plan)) /\ UNCHANGED deliver /\ ByJob

\* A reader or the sweeper is itself cancelled before its next lock section.
CancelAbandoned(c) ==
  /\ \/ c.by \in Links /\ linkState[c.by] \in {"closed", "gone"}
     \/ c.by = "sweep" /\ closed
  /\ Head(c.plan) # "await"
  /\ cancels' = cancels \ {c} /\ UNCHANGED <<ledger, deliver>> /\ ByJob

sweep ==
  LET t == expireLocked(ledger, clock)
      overdue == {k \in Range(t.pending) : clock >= t.rec[k].deadline}
  IN
  /\ ~closed /\ \A c \in cancels : c.by # "sweep"
  /\ ledger' = t
  /\ cancels' = cancels \cup Cancelling(overdue, "sweep", <<"claim">>)
  /\ UNCHANGED deliver /\ ByJob

\* Mark the calls ks as cancelled and start cancelling them.
CancelAll(ks, by, plan) ==
  /\ ledger' = RequestCancel(ledger, ks)
  /\ cancels' = cancels \cup Cancelling(ks, by, plan)
  /\ UNCHANGED <<clock, trusted, linkVars, reader, received, deliver>>

\* RpcTrust.revoke(): trust goes first, then engine.revoke() collects,
\* cancels and closes.  RpcTrust.approve() waits for the same lock.
TrustChange(p) ==
  /\ revoke.pc = "idle"
  /\ \/ /\ "trust" \in Events /\ p \in trusted
        /\ trusted' = trusted \ {p} /\ revoke' = [pc |-> "mark", peer |-> p]
     \/ "approve" \in Events /\ p \notin trusted /\ trusted' = trusted \cup {p} /\ UNCHANGED revoke
  /\ UNCHANGED <<clock, phase, session, linkVars, callVars>>

RevokeMark ==
  /\ revoke.pc = "mark" /\ revoke' = [revoke EXCEPT !.pc = "cancel"]
  /\ CancelAll({k \in Keys : k[1] = revoke.peer /\ ledger.rec[k].stage \in Active}, "revoke", ClaimThenJob)
  /\ UNCHANGED <<phase, session>>

RevokeClose ==
  LET l == links[revoke.peer] IN
  /\ revoke.pc = "cancel" /\ \A c \in cancels : c.by # "revoke"
  /\ revoke' = [revoke EXCEPT !.pc = "idle"]
  /\ IF l = NoLink THEN UNCHANGED linkVars ELSE CloseLink(l)
  /\ UNCHANGED <<clock, phase, trusted, session, callVars>>

\* The login ends by itself (RpcApplicationSession.revoke() or its lifetime),
\* or revokeApplicationSession() fences it, collects, cancels and returns.
SessionEnds(s) ==
  /\ \/ session[s] = "active" /\ "session ends" \in Events /\ session' = [session EXCEPT ![s] = "ended"]
     \/ /\ session[s] \in {"active", "ended"} /\ "session revoked" \in Events
        /\ session' = [session EXCEPT ![s] = "fenced"]
  /\ UNCHANGED <<clock, phase, trustVars, linkVars, callVars>>

SessionMark(s) ==
  /\ session[s] = "fenced" /\ session' = [session EXCEPT ![s] = "cancelling"]
  /\ CancelAll({k \in Keys : ledger.rec[k].sess = s /\ ledger.rec[k].stage \in Active}, s, JobThenClaim)
  /\ UNCHANGED <<phase, revoke>>

SessionRevoked(s) ==
  /\ session[s] = "cancelling" /\ \A c \in cancels : c.by # s
  /\ session' = [session EXCEPT ![s] = "revoked"]
  /\ UNCHANGED <<clock, phase, trustVars, linkVars, callVars>>

CloseBegin ==
  /\ "close" \in Events /\ phase = "open" /\ phase' = "closing"
  /\ CancelAll(Records(ledger), "close", ClaimThenJob)
  /\ UNCHANGED <<revoke, session>>

CloseLinks ==
  /\ phase = "closing" /\ \A c \in cancels : c.by # "close"
  /\ phase' = "links"
  /\ linkState' = [l \in Links |-> IF links[LinkPeer[l]] = l THEN Closing(l)[l] ELSE linkState[l]]
  /\ UNCHANGED <<clock, trustVars, session, replaced, links, ready, callVars>>

CloseEnd ==
  /\ phase = "links" /\ phase' = "sealed"
  /\ ledger' = [Retire(ledger, Range(ledger.completed)) EXCEPT !.completed = <<>>, !.cached = <<>>]
  /\ ready' = {} /\ links' = [p \in Peers |-> NoLink]
  /\ UNCHANGED <<clock, trustVars, session, linkState, replaced, reader, received, cancels, deliver>>

Tick ==
  /\ clock < MaxClock /\ clock' = clock + 1
  /\ UNCHANGED <<phase, trustVars, session, linkVars, callVars>>
-----------------------------------------------------------------------------
Init ==
  /\ clock = 0 /\ phase = "open" /\ trusted = Peers
  /\ revoke = [pc |-> "idle", peer |-> CHOOSE p \in Peers : TRUE]
  /\ session = [s \in Sessions |-> "active"]
  /\ linkState = [l \in Links |-> "new"] /\ replaced = NoLink
  /\ links = [p \in Peers |-> NoLink] /\ ready = {}
  /\ reader = [l \in Links |-> IdleReader] /\ received = 0
  /\ ledger = [rec |-> [k \in Keys |-> Absent(0, 0)], running |-> 0,
               pending |-> <<>>, completed |-> <<>>, cached |-> <<>>,
               recordsPerPeer |-> [p \in Peers |-> 0], activePerPeer |-> [p \in Peers |-> 0]]
  /\ cancels = {} /\ deliver = {}

LinkStep(l) == attach(l) \/ AttachFails(l) \/ LinkLost(l) \/ detach(l)
InvokeStep(l) == \/ InvokeLookup(l) \/ InvokeDenied(l) \/ InvokeAllowed(l) \/ Authenticated(l)
                 \/ AuthenticationDenied(l) \/ scopedDuplicate(l) \/ Admit(l)
ControlStep(l) == ControlDenied(l) \/ ControlAllowed(l) \/ ScopedLookup(l) \/ ScopedCommit(l)
ReaderStep(l) == \/ Hello(l) \/ onMessage(l) \/ Send(l) \/ ReaderCancelled(l)
                 \/ InvokeStep(l) \/ ControlStep(l)
JobStep(k) == \/ Launch(k) \/ PublishJob(k) \/ CheckCancel(k) \/ JobStart(k) \/ JobBegin(k)
              \/ JobFails(k) \/ HandlerEnds(k) \/ FinishSelect(k) \/ FinishCommit(k)
CancelStep(c) == completeQueued(c) \/ AwaitFinish(c) \/ CancelJob(c) \/ CancelAbandoned(c)
SessionStep(s) == SessionEnds(s) \/ SessionMark(s) \/ SessionRevoked(s)
HostStep == AttachCloseOld \/ RevokeMark \/ RevokeClose \/ CloseBegin \/ CloseLinks \/ CloseEnd \/ sweep \/ Tick

Next ==
  \/ \E l \in Links : LinkStep(l) \/ ReaderStep(l)
  \/ \E k \in Keys : JobStep(k)
  \/ \E d \in deliver : Deliver(d)
  \/ \E c \in cancels : CancelStep(c)
  \/ \E p \in Peers : TrustChange(p)
  \/ \E s \in Sessions : SessionStep(s)
  \/ HostStep

Spec == Init /\ [][Next]_vars

\* Coroutines that can run do run, the clock advances, the sweeper wakes every
\* 250 ms, and a handler reacts to withTimeout() once its deadline has passed.
Fairness ==
  /\ WF_vars(Tick) /\ WF_vars(sweep)
  /\ \A k \in Keys :
       /\ WF_vars(Launch(k) \/ PublishJob(k) \/ CheckCancel(k))
       /\ WF_vars(JobStart(k)) /\ WF_vars(JobBegin(k) \/ JobFails(k))
       /\ WF_vars(clock >= ledger.rec[k].deadline /\ HandlerEnds(k))
       /\ WF_vars(FinishSelect(k)) /\ WF_vars(FinishCommit(k))
  /\ WF_vars(\E c \in cancels : CancelStep(c))
  /\ WF_vars(CloseLinks) /\ WF_vars(CloseEnd)

FairSpec == Spec /\ Fairness
-----------------------------------------------------------------------------
(* Properties.                                                             *)

TypeOK ==
  /\ clock \in 0..MaxClock /\ received \in 0..MaxMessages
  /\ phase \in {"open", "closing", "links", "sealed"}
  /\ trusted \subseteq Peers
  /\ revoke \in [pc: {"idle", "mark", "cancel"}, peer: Peers]
  /\ session \in [Sessions -> {"active", "ended", "fenced", "cancelling", "revoked"}]
  /\ linkState \in [Links -> {"new", "attaching", "open", "closed", "gone"}]
  /\ replaced \in Links \cup {NoLink}
  /\ links \in [Peers -> Links \cup {NoLink}]
  /\ ready \subseteq Links
  /\ reader \in [Links -> Reader]
  /\ ledger \in Ledger
  /\ cancels \subseteq Cancellation
  /\ deliver \subseteq [link: Links, k: Keys, reply: Outcomes \cup {"none"}]

InStage(st) == {k \in Keys : ledger.rec[k].stage \in st}
OfPeer(p, ks) == {k \in ks : k[1] = p}

\* The counters and queues the engine keeps beside `records` always say what
\* the records say: slots, the FIFO queue, the two eviction orders and the
\* per-peer counts are neither leaked nor released twice by any interleaving
\* of completion, cancellation, expiry and close.
AccountingExact ==
  /\ ledger.running = Cardinality(InStage({"Running"}))
  /\ \A q \in {<<ledger.pending, InStage({"Queued"})>>, <<ledger.completed, InStage({"Complete"})>>,
               <<ledger.cached, {k \in InStage({"Complete"}) : ledger.rec[k].result \in Bodies}>>} :
       Range(q[1]) = q[2] /\ Len(q[1]) = Cardinality(q[2])
  /\ \A p \in Peers :
       /\ ledger.recordsPerPeer[p] = Cardinality(OfPeer(p, Records(ledger)))
       /\ ledger.activePerPeer[p] = Cardinality(OfPeer(p, InStage(Active)))

\* The limits hold, and a call waits only while every slot is taken: a slot
\* freed by a job is handed to the queue in the same transaction.
WorkConserving ==
  /\ ledger.running <= RunningCalls /\ Len(ledger.pending) <= QueuedCalls
  /\ Len(ledger.cached) <= CacheBodies
  /\ ~closed /\ ledger.pending # <<>> => ledger.running = RunningCalls

\* A request id is executed again only if the retention of its previous
\* record had run out when it was admitted: Receipt, eviction of the body,
\* budget pressure, cancellation and reconnection never reopen it.
TombstoneFence ==
  \A k \in Keys : ledger.rec[k].inst > 1 /\ Present(ledger.rec[k]) =>
    ledger.rec[k].admittedAt >= ledger.rec[k].prevEnd + RecordTtl

\* What a finished call says about execution is true: a code that promises
\* "rejected before execution" is never attached to a call whose handler
\* began, and a handler that never began is not reported as if it had.
EvidenceTruthful ==
  \A k \in Keys : LET r == ledger.rec[k] IN
    r.terminal # "none" =>
      (r.began <=> r.terminal \notin RejectedBeforeExecution \cup {"AccessRevoked"})

\* Nothing of the id runs or may run: there is no record of it, or one that
\* is complete although its handler never began.
NotExecuting(r) == ~Present(r) \/ (r.stage = "Complete" /\ ~r.began)
\* The reader of l comes to hold an answer that promises "rejected before
\* execution".
Refuses(l) == /\ reader[l].pc # "send" /\ reader[l]'.pc = "send"
              /\ reader[l]'.reply \in RejectedBeforeExecution
\* Whoever decides to answer "rejected before execution" does so at a moment
\* at which no call of that device and id is queued, runs or has run within its
\* retention - also when another connection of the device admitted it while
\* this reader was suspended in authorization, after its own lookup.
RefusalTruthful ==
  [][\A l \in Links : Refuses(l) => NotExecuting(ledger.rec[KeyOf(l)])']_vars

\* A link can be answered on only while it is its peer's current link: a
\* late HELLO, a replacement and a detach never leave a stale ready link.
ReadyIsCurrent == \A l \in ready : links[LinkPeer[l]] = l

\* Expiry stops at the first record that is still young, and that is enough:
\* no overdue record or body hides behind a younger one.
ExpiryComplete ==
  LET t == expireLocked(ledger, clock) IN
  \A k \in Keys : t.rec[k].stage = "Complete" =>
    /\ clock < t.rec[k].completedAt + RecordTtl
    /\ t.rec[k].result \in Bodies => clock < t.rec[k].completedAt + BodyTtl

\* After revokeApplicationSession(), RpcTrust.revoke() or the cancelling part
\* of close() has returned, none of the calls it covers is still queued, and
\* every job that has been launched and checked is cancelled, whether it was
\* queued, being promoted or being launched meanwhile.
CancelReaches ==
  \A k \in InStage(Active) :
    LET r == ledger.rec[k]
        covered == \/ r.sess # NoSession /\ session[r.sess] = "revoked"
                   \/ k[1] \notin trusted /\ revoke.pc = "idle"
                   \/ phase \in {"links", "sealed"}
    IN  covered => /\ r.stage # "Queued"
                   /\ r.launcher = "checked" /\ r.task \in {"ready", "decoding", "handler"} => r.jobCancelled

\* Every admitted call comes to an end: a queued call is promoted, cancelled
\* or swept at its deadline, and a launched one reaches finish().
CallsSettle == \A k \in Keys : ledger.rec[k].stage \in Active ~> ledger.rec[k].stage \notin Active

\* close() completes, even though it first has to claim and finish every
\* queued call while other cancellers compete for them.
CloseCompletes == closed ~> phase = "sealed"
=============================================================================
