--------------------------- MODULE SessionManager ---------------------------
(* Two kits that open sessions to each other: SessionManager's connect, setup *)
(* and shutdown transactions over SessionStore, at both ends of every         *)
(* connection.  An attempt c is one application call of connect; when it      *)
(* becomes the connector it is also the name of its deferred and of the       *)
(* connection it dials, whose two ends are sessions of the two kits.          *)
(* directionByPeer is a function of the connection and of the kit here, and   *)
(* Closing is not told apart from Closed: neither is in ACTIVE_STATES.  There *)
(* is no session profile and no reconnect policy.                             *)
EXTENDS Naturals

CONSTANTS
  Mine, Theirs,  \* the attempts of the kit with the smaller id, and of the other
  Pinned,        \* the attempts that bring an expected fingerprint
  None,
  Events,        \* the faults and requests that may happen
  MaxEvents      \* how many of them

ASSUME AttemptsDisjoint == Mine \cap Theirs = {} /\ None \notin Mine \cup Theirs

Attempts == Mine \cup Theirs
Kits == {"smaller", "larger"}
Other(k) == IF k = "smaller" THEN "larger" ELSE "smaller"
Dialer(c) == IF c \in Mine THEN "smaller" ELSE "larger"

VARIABLES
  stage,      \* the kit's lifecycle: "running", "stopping", "sealed", "drained"
  byPeer,     \* SessionStore.byPeer for the other kit
  sessions,   \* the published sessions
  pending,    \* SessionStore.pending for the other kit
  watchers,   \* the sessions with a terminal watcher
  unpublished,\* committed incoming sessions that incomingSessions had no room for
  end,        \* each end of each connection: "none", "raw", "setup" (handshaking),
              \* "started" (a session, not committed), "cut" (started, and closed by
              \* the peer since), "live", "detached" (being closed), "closed"
  deferred,   \* the deferred of each attempt: "open", "completed", "failed", "rejected"
  caller,     \* the connect call of each attempt
  events      \* how many events have happened

store == <<byPeer, sessions, pending>>
vars == <<stage, store, watchers, unpublished, end, deferred, caller, events>>

Init ==
  /\ stage = [k \in Kits |-> "running"]
  /\ byPeer = [k \in Kits |-> None]
  /\ sessions = [k \in Kits |-> {}]
  /\ pending = [k \in Kits |-> None]
  /\ watchers = [k \in Kits |-> {}]
  /\ unpublished = {}
  /\ end = [c \in Attempts |-> [k \in Kits |-> "none"]]
  /\ deferred = [c \in Attempts |-> "open"]
  /\ caller = [c \in Attempts |->
                 [pc |-> "idle", on |-> None, out |-> "completed", again |-> c \in Pinned]]
  /\ events = 0

-----------------------------------------------------------------------------

\* lifecycleGate.isActive.
IsActive(k) == stage[k] = "running"

IsIncoming(c, k) == Dialer(c) # k

\* The session of the store is in ACTIVE_STATES.
ActiveIn(k) == byPeer[k] # None /\ end[byPeer[k]][k] = "live"

Event(e) ==
  /\ e \in Events
  /\ events < MaxEvents
  /\ events' = events + 1

At(c, pc) == caller[c].pc = pc

Goto(c, pc) == caller' = [caller EXCEPT ![c].pc = pc]

\* The failure that performConnect's finally hands to the waiters.
Fails(c, out) == caller' = [caller EXCEPT ![c].pc = "end", ![c].out = out]

SetEnd(c, k, s) == end' = [end EXCEPT ![c][k] = s]

\* A setup that fails at k takes the dialer's call down with it.
SetupFails(c, k, out) ==
  /\ SetEnd(c, k, "closed")
  /\ IF IsIncoming(c, k) THEN UNCHANGED caller ELSE Fails(c, out)

\* Fault: the entry of the peer goes whichever session it is.
RemoveByPeer(k, c) ==
  /\ byPeer' = [byPeer EXCEPT ![k] = None]
  /\ sessions' = [sessions EXCEPT ![k] = @ \ {c}]

\* SessionStore.removeIfMatches: the entry goes only if it is this session.
RemoveIfMatches(k, c) ==
  /\ byPeer' = [byPeer EXCEPT ![k] = IF @ = c THEN None ELSE @]
  /\ sessions' = [sessions EXCEPT ![k] = @ \ {c}]

\* closeDetachedSession takes over a session that has no other owner.
Detach(c, k) ==
  end' = [end EXCEPT ![c][k] =
            CASE @ \in {"started", "live"} -> "detached" [] @ = "cut" -> "closed" [] OTHER -> @]

-----------------------------------------------------------------------------

\* connect, up to the decision of the store; a second round starts at "gate".
Connect(c) ==
  /\ At(c, "idle") \/ At(c, "gate")
  /\ Goto(c, IF IsActive(Dialer(c)) THEN "ask" ELSE "failed")
  /\ UNCHANGED <<stage, store, watchers, unpublished, end, deferred, events>>

\* ConnectDecision.Existing.
JoinExisting(c) ==
  LET k == Dialer(c) IN
  /\ At(c, "ask")
  /\ ActiveIn(k)
  /\ Goto(c, "check")
  /\ UNCHANGED <<stage, store, watchers, unpublished, end, deferred, events>>

\* ConnectDecision.JoinPending or BecomeConnector; a terminal entry is evicted.
StartOrJoin(c) ==
  LET k == Dialer(c) IN
  /\ At(c, "ask")
  /\ ~ActiveIn(k)
  /\ byPeer' = [byPeer EXCEPT ![k] = None]
  /\ sessions' = [sessions EXCEPT ![k] = @ \ {byPeer[k]}]
  /\ \/ /\ pending[k] # None
        /\ caller' = [caller EXCEPT ![c].pc = "join", ![c].on = pending[k]]
        /\ UNCHANGED pending
     \/ /\ pending[k] = None
        /\ pending' = [pending EXCEPT ![k] = c]
        /\ Goto(c, "dial")
  /\ UNCHANGED <<stage, watchers, unpublished, end, deferred, events>>

\* performConnect up to the raw connection, which the other kit accepts in
\* handleIncoming: refused when its pre-handshake setups are at capacity.
Dial(c) ==
  LET k == Dialer(c) IN
  /\ At(c, "dial")
  /\ \/ /\ IsActive(k)
        /\ stage[Other(k)] # "drained"
        /\ Goto(c, "setup")
        /\ \/ /\ end' = [end EXCEPT ![c] = [x \in Kits |-> "raw"]]
              /\ UNCHANGED events
           \/ /\ Event("busy")
              /\ end' = [end EXCEPT ![c] = [x \in Kits |-> IF x = k THEN "raw" ELSE "closed"]]
     \/ /\ ~IsActive(k) \/ stage[Other(k)] = "drained"
        /\ Fails(c, "failed")
        /\ UNCHANGED <<end, events>>
     \/ /\ Event("dial fails") \/ Event("cancel")
        /\ Fails(c, "failed")
        /\ UNCHANGED end
  /\ UNCHANGED <<stage, store, watchers, unpublished, deferred>>

\* runTrackedSessionSetup hands the raw connection to the setup registry,
\* which takes none once it is sealed; the dialer checks the gate first.
EnterSetup(c, k) ==
  /\ end[c][k] = "raw"
  /\ IF stage[k] \in (IF IsIncoming(c, k) THEN {"running", "stopping"} ELSE {"running"})
       THEN SetEnd(c, k, "setup") /\ UNCHANGED caller
       ELSE SetupFails(c, k, "failed")
  /\ UNCHANGED <<stage, store, watchers, unpublished, deferred, events>>

\* runHandshake and the start of the session; an end that the peer has closed,
\* a timeout and a refused authorization fail the setup.
Handshake(c, k) ==
  /\ end[c][k] = "setup"
  /\ \/ /\ end[c][Other(k)] \in {"setup", "started", "cut", "live", "detached"}
        /\ SetEnd(c, k, "started")
        /\ UNCHANGED <<caller, events>>
     \/ /\ end[c][Other(k)] = "closed"
        /\ SetupFails(c, k, "failed")
        /\ UNCHANGED events
     \/ /\ Event("handshake fails")
        /\ SetupFails(c, k, "failed")
     \/ /\ Event("rejected")
        /\ SetupFails(c, k, "rejected")
  /\ UNCHANGED <<stage, store, watchers, unpublished, deferred>>

\* The setup child is cancelled: by shutdown, or with the caller of connect.
CancelSetup(c, k) ==
  /\ end[c][k] \in {"setup", "started", "cut"}
  /\ \/ stage[k] \in {"sealed", "drained"} /\ UNCHANGED events
     \/ ~IsIncoming(c, k) /\ Event("cancel")
  /\ SetupFails(c, k, "failed")
  /\ UNCHANGED <<stage, store, watchers, unpublished, deferred>>

-----------------------------------------------------------------------------

\* The dialer goes on to deliver session s, its own or the winner.
Delivers(c, k, s) ==
  IF IsIncoming(c, k) THEN UNCHANGED caller
  ELSE caller' = [caller EXCEPT ![c].pc = "deliver", ![c].on = s]

\* RegisterOutcome.Accepted or Replaced: the store takes the session, the loser
\* is left to closeDetachedSession, and the watcher of the winner starts.
Admit(c, k) ==
  LET e == byPeer[k] IN
  /\ byPeer' = [byPeer EXCEPT ![k] = c]
  /\ sessions' = [sessions EXCEPT ![k] = (@ \ {e}) \cup {c}]
  /\ watchers' = [watchers EXCEPT ![k] = @ \cup {c}]
  /\ end' = [x \in Attempts |-> [end[x] EXCEPT ![k] =
               CASE x = c -> IF @ = "started" THEN "live" ELSE "closed"
                 [] x = e /\ @ = "live" -> "detached"
                 [] OTHER -> @]]
  /\ Delivers(c, k, c)
  /\ \/ UNCHANGED <<unpublished, events>>
     \/ IsIncoming(c, k) /\ Event("unpublished") /\ unpublished' = unpublished \cup {c}

\* RegisterOutcome.Rejected: the existing session wins.
Reject(c, k) ==
  /\ Detach(c, k)
  /\ Delivers(c, k, byPeer[k])
  /\ UNCHANGED <<byPeer, sessions, watchers, unpublished, events>>

\* Fault: each kit keeps the session it dialed.
KeepsOutgoing(c, k) == Dialer(byPeer[k]) # Dialer(c) /\ ~IsIncoming(c, k)

\* The tie-break: the smaller id keeps its outgoing session and the larger its
\* incoming one, and a session of the same direction is never replaced.
NewWins(c, k) ==
  /\ Dialer(byPeer[k]) # Dialer(c)
  /\ IF k = "smaller" THEN ~IsIncoming(c, k) ELSE IsIncoming(c, k)

\* setupSession's commit under the lifecycle gate, with tryRegister.
Commit(c, k) ==
  /\ end[c][k] \in {"started", "cut"}
  /\ \/ /\ ~IsActive(k)
        /\ SetupFails(c, k, "failed")
        /\ UNCHANGED <<byPeer, sessions, watchers, unpublished, events>>
     \/ /\ IsActive(k)
        /\ \/ ActiveIn(k) /\ IF NewWins(c, k) THEN Admit(c, k) ELSE Reject(c, k)
           \/ ~ActiveIn(k) /\ Admit(c, k)
           \/ /\ ~ActiveIn(k) /\ IsIncoming(c, k) /\ Event("at capacity")
              /\ Detach(c, k)
              /\ UNCHANGED <<byPeer, sessions, watchers, unpublished, caller>>
  /\ UNCHANGED <<stage, pending, deferred>>

\* setupSession takes back an incoming session that could not be published.
Unpublish(c) ==
  LET k == Other(Dialer(c)) IN
  /\ c \in unpublished
  /\ unpublished' = unpublished \ {c}
  /\ RemoveIfMatches(k, c)
  /\ Detach(c, k)
  /\ UNCHANGED <<stage, pending, watchers, deferred, caller, events>>

-----------------------------------------------------------------------------

\* performConnect has the session: it returns it, or the kit was stopped and
\* what was committed is rolled back, or the caller was cancelled and only a
\* session of its own is.
Deliver(c) ==
  LET k == Dialer(c) IN
  /\ At(c, "deliver")
  /\ \/ /\ IsActive(k)
        /\ Goto(c, "end")
        /\ UNCHANGED events
     \/ /\ ~IsActive(k)
        /\ Goto(c, "rollback")
        /\ UNCHANGED events
     \/ /\ Event("cancel")
        /\ IF caller[c].on = c THEN Goto(c, "rollback") ELSE Fails(c, "failed")
  /\ UNCHANGED <<stage, store, watchers, unpublished, end, deferred>>

\* rollbackCommittedOutgoingSession.
Rollback(c) ==
  LET k == Dialer(c) IN
  /\ At(c, "rollback")
  /\ RemoveIfMatches(k, caller[c].on)
  /\ Detach(caller[c].on, k)
  /\ Fails(c, "failed")
  /\ UNCHANGED <<stage, pending, watchers, unpublished, deferred, events>>

\* Fault: a connector that failed leaves its slot to the next caller.
EndPendingOnSuccess(c) ==
  /\ At(c, "end")
  /\ pending' = [pending EXCEPT ![Dialer(c)] = IF caller[c].out = "completed" THEN None ELSE @]
  /\ Goto(c, "complete")
  /\ UNCHANGED <<stage, byPeer, sessions, watchers, unpublished, end, deferred, events>>

\* endPending, in performConnect's finally.
EndPending(c) ==
  LET k == Dialer(c) IN
  /\ At(c, "end")
  /\ pending' = [pending EXCEPT ![k] = IF @ = c THEN None ELSE @]
  /\ Goto(c, "complete")
  /\ UNCHANGED <<stage, byPeer, sessions, watchers, unpublished, end, deferred, events>>

\* The deferred is completed last; shutdown may have failed it already.
Complete(c) ==
  /\ At(c, "complete")
  /\ deferred' = [deferred EXCEPT ![c] = IF @ = "open" THEN caller[c].out ELSE @]
  /\ Goto(c, IF caller[c].out = "completed" THEN "returned" ELSE "failed")
  /\ UNCHANGED <<stage, store, watchers, unpublished, end, events>>

\* await of a joined deferred: a caller with a fingerprint of its own goes
\* round once more when the attempt it joined was refused authorization.
Joined(c) ==
  /\ At(c, "join")
  /\ \/ /\ deferred[caller[c].on] = "completed"
        /\ Goto(c, "check")
        /\ UNCHANGED events
     \/ /\ deferred[caller[c].on] = "rejected" /\ caller[c].again
        /\ caller' = [caller EXCEPT ![c].pc = "gate", ![c].again = FALSE]
        /\ UNCHANGED events
     \/ /\ \/ deferred[caller[c].on] = "failed"
           \/ deferred[caller[c].on] = "rejected" /\ ~caller[c].again
        /\ Goto(c, "failed")
        /\ UNCHANGED events
     \/ /\ Event("cancel")
        /\ Goto(c, "failed")
  /\ UNCHANGED <<stage, store, watchers, unpublished, end, deferred>>

\* requireActiveLifecycle.
Check(c) ==
  /\ At(c, "check")
  /\ Goto(c, IF IsActive(Dialer(c)) THEN "returned" ELSE "failed")
  /\ UNCHANGED <<stage, store, watchers, unpublished, end, deferred, events>>

-----------------------------------------------------------------------------

\* closeDetachedSession, or the close of a session that shutdown collected.
CloseDetached(c, k) ==
  /\ end[c][k] = "detached"
  /\ SetEnd(c, k, "closed")
  /\ UNCHANGED <<stage, store, watchers, unpublished, deferred, caller, events>>

\* The application closes a session, or its connection is lost.
SessionEnds(c, k) ==
  /\ end[c][k] = "live"
  /\ Event("session ends")
  /\ SetEnd(c, k, "closed")
  /\ UNCHANGED <<stage, store, watchers, unpublished, deferred, caller>>

\* The CLOSE of the other end arrives, maybe before the session is committed.
PeerClosed(c, k) ==
  /\ end[c][Other(k)] = "closed"
  /\ end[c][k] \in {"started", "live", "detached"}
  /\ SetEnd(c, k, IF end[c][k] = "started" THEN "cut" ELSE "closed")
  /\ UNCHANGED <<stage, store, watchers, unpublished, deferred, caller, events>>

\* watchForTerminal.
Watch(c, k) ==
  /\ c \in watchers[k]
  /\ end[c][k] = "closed"
  /\ watchers' = [watchers EXCEPT ![k] = @ \ {c}]
  /\ RemoveIfMatches(k, c)
  /\ UNCHANGED <<stage, pending, unpublished, end, deferred, caller, events>>

\* P2pKit.stop: the gate closes, then the setup registry, then the store is
\* drained.  The setups that Seal cancels are awaited for a bounded time only.
Stop(k) ==
  /\ stage[k] = "running"
  /\ Event("stop")
  /\ stage' = [stage EXCEPT ![k] = "stopping"]
  /\ UNCHANGED <<store, watchers, unpublished, end, deferred, caller>>

Seal(k) ==
  /\ stage[k] = "stopping"
  /\ stage' = [stage EXCEPT ![k] = "sealed"]
  /\ UNCHANGED <<store, watchers, unpublished, end, deferred, caller, events>>

DrainForShutdown(k) ==
  /\ stage[k] = "sealed"
  /\ stage' = [stage EXCEPT ![k] = "drained"]
  /\ end' = [c \in Attempts |-> [end[c] EXCEPT ![k] =
               IF c \in sessions[k] \cup {byPeer[k]} /\ @ = "live" THEN "detached" ELSE @]]
  /\ byPeer' = [byPeer EXCEPT ![k] = None]
  /\ sessions' = [sessions EXCEPT ![k] = {}]
  /\ pending' = [pending EXCEPT ![k] = None]
  /\ deferred' = [c \in Attempts |->
                    IF c = pending[k] /\ deferred[c] = "open" THEN "failed" ELSE deferred[c]]
  /\ UNCHANGED <<watchers, unpublished, caller, events>>

-----------------------------------------------------------------------------

CallStep(c) ==
  \/ Connect(c) \/ JoinExisting(c) \/ StartOrJoin(c) \/ Dial(c)
  \/ Deliver(c) \/ Rollback(c) \/ EndPending(c) \/ Complete(c) \/ Joined(c) \/ Check(c)

EndStep(c, k) ==
  \/ EnterSetup(c, k) \/ Handshake(c, k) \/ CancelSetup(c, k) \/ Commit(c, k)
  \/ CloseDetached(c, k) \/ PeerClosed(c, k) \/ SessionEnds(c, k) \/ Watch(c, k)

Next ==
  \/ \E c \in Attempts : CallStep(c) \/ Unpublish(c)
  \/ \E c \in Attempts, k \in Kits : EndStep(c, k)
  \/ \E k \in Kits : Stop(k) \/ Seal(k) \/ DrainForShutdown(k)

Spec == Init /\ [][Next]_vars

-----------------------------------------------------------------------------

\* Nothing is under way: no call, no setup, no close, no watcher.
Quiescent ==
  /\ \A c \in Attempts : caller[c].pc \in {"idle", "returned", "failed"}
  /\ \A c \in Attempts, k \in Kits :
        /\ end[c][k] \in {"none", "live", "closed"}
        /\ end[c][k] = "live" => end[c][Other(k)] = "live"
        /\ end[c][k] = "closed" => c \notin watchers[k]
  /\ unpublished = {}

\* Two kits that connect to each other in any order end with the same
\* connection: both registered and published it and nothing else, and when
\* nothing failed the simultaneous open leaves one (tryRegister's tie-break and
\* the closing of the loser at both ends).
Converges ==
  Quiescent /\ (\A k \in Kits : IsActive(k)) =>
     /\ byPeer["smaller"] = byPeer["larger"]
     /\ \A k \in Kits : sessions[k] = {byPeer[k]} \ {None}
     /\ events = 0 /\ (\E c \in Attempts : caller[c].pc # "idle") => byPeer["smaller"] # None

\* A live session is the one its kit has registered and published: not the
\* watcher of a session it replaced, nor a late rollback, nor shutdown while its
\* setup commits, leaves one running that no call can find and nobody closes
\* (removeIfMatches, the lifecycle gate around tryRegister, drainForShutdown).
LiveRegistered ==
  \A c \in Attempts, k \in Kits :
     end[c][k] = "live" => byPeer[k] = c /\ c \in sessions[k] /\ stage[k] # "drained"

\* Nobody waits on an attempt that is over: the pending slot names an attempt
\* whose result is still open, and a caller that joined an open attempt waits on
\* a connector that is still in its transaction, whatever cancelled, refused or
\* stopped it; so a second round never rejoins the attempt that failed
\* (performConnect's finally: endPending before complete; drainForShutdown).
JoinersOwned ==
  /\ \A k \in Kits : pending[k] # None => deferred[pending[k]] = "open"
  /\ \A c \in Attempts :
        At(c, "join") /\ deferred[caller[c].on] = "open" =>
           caller[caller[c].on].pc \in {"dial", "setup", "deliver", "rollback", "end", "complete"}

=============================================================================
