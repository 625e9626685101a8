------------------------ MODULE SessionManagerProofs ------------------------
(***************************************************************************)
(* Theorems about two kits that open sessions to each other, for every set *)
(* of connect calls and every choice and number of events.                 *)
(***************************************************************************)
EXTENDS SessionManager, TLAPS

Ends == {"none", "raw", "setup", "started", "cut", "live", "detached", "closed"}
Transaction == {"dial", "setup", "deliver", "rollback", "end"}
Calls == Transaction \cup {"idle", "gate", "ask", "check", "join", "complete", "returned", "failed"}
Fresh == {"idle", "gate", "ask", "join"}
Outs == {"completed", "failed", "rejected"}
Caller == [pc : Calls, on : Attempts \cup {None}, out : Outs, again : BOOLEAN]

SessionType ==
  /\ stage \in [Kits -> {"running", "stopping", "sealed", "drained"}]
  /\ byPeer \in [Kits -> Attempts \cup {None}] /\ pending \in [Kits -> Attempts \cup {None}]
  /\ sessions \in [Kits -> SUBSET Attempts] /\ watchers \in [Kits -> SUBSET Attempts]
  /\ unpublished \subseteq Attempts
  /\ end \in [Attempts -> [Kits -> Ends]]
  /\ deferred \in [Attempts -> Outs \cup {"open"}]
  /\ caller \in [Attempts -> Caller]
  /\ events \in Nat

\* The store publishes what it has registered, and a session that ends while
\* it is registered is watched.
Registered ==
  \A k \in Kits :
    /\ sessions[k] = {byPeer[k]} \ {None}
    /\ byPeer[k] # None => byPeer[k] \in watchers[k] /\ end[byPeer[k]][k] \in {"live", "closed"}

\* The pending slot of a kit names a connector of that kit in its transaction,
\* and no result is announced for a call that has not been a connector.
PendingOwned ==
  /\ \A k \in Kits : pending[k] # None =>
       Dialer(pending[k]) = k /\ caller[pending[k]].pc \in Transaction
  /\ \A c \in Attempts : /\ At(c, "join") => caller[c].on \in Attempts
                         /\ caller[c].pc \in Fresh => deferred[c] = "open"

\* A call that has not been a connector has no connection.
Undialed ==
  \A c \in Attempts : caller[c].pc \in Fresh \cup {"dial"} => \A k \in Kits : end[c][k] = "none"

Dialed(c) == caller[c].pc = "dial" \/ end[c][Dialer(c)] # "none"

\* The connections that kit k dials run into nothing: there is at most one, it
\* does not close, and its connector holds the slot until it is live.
Smooth(k) ==
  /\ \A c \in Attempts : Dialer(c) = k =>
       /\ \A x \in Kits : end[c][x] \in {"none", "raw", "setup", "started", "live"}
       /\ Dialed(c) => pending[k] = c \/ end[c][k] = "live"
       /\ caller[c].pc \in {"deliver", "end", "complete"} => end[c][k] = "live"
  /\ \A c, d \in Attempts : Dialer(c) = k /\ Dialer(d) = k /\ Dialed(c) /\ Dialed(d) => c = d

\* As long as nothing fails and nobody stops, the connections of the smaller
\* kit, which win the tie-break, are smooth, and without any so are the others.
Calm ==
  /\ unpublished = {} /\ \A k \in Kits : stage[k] = "running"
  /\ \A c \in Attempts :
       /\ end[c]["smaller"] = "none" <=> end[c]["larger"] = "none"
       /\ caller[c].pc \notin {"gate", "rollback"}
       /\ caller[c].out # "rejected" /\ deferred[c] # "rejected"
  /\ (\E c \in Attempts : caller[c].pc \notin {"idle", "ask"}) => \E d \in Attempts : Dialed(d)
  /\ Smooth("smaller")
  /\ (\A m \in Attempts : Dialer(m) = "smaller" => ~Dialed(m)) => Smooth("larger")

Uneventful == events = 0 => Calm

SessionInv ==
  /\ SessionType /\ Registered /\ PendingOwned /\ Undialed /\ Uneventful
  /\ LiveRegistered /\ JoinersOwned

-----------------------------------------------------------------------------
(* What the steps of the transactions assign.                              *)

LEMMA KitsFacts ==
  /\ \A k \in Kits : Other(k) \in Kits /\ Other(k) # k /\ Other(Other(k)) = k
  /\ \A c \in Attempts : Dialer(c) \in Kits /\ c # None
  /\ "smaller" \in Kits /\ "larger" \in Kits /\ \A k \in Kits : k = "smaller" \/ k = "larger"
BY AttemptsDisjoint DEF Kits, Other, Dialer, Attempts

LEMMA GotoFields ==
  ASSUME SessionType, NEW c \in Attempts, NEW pc \in Calls, Goto(c, pc)
  PROVE  /\ caller' \in [Attempts -> Caller]
         /\ \A d \in Attempts : d # c => caller'[d] = caller[d]
         /\ caller'[c].pc = pc /\ caller'[c].on = caller[c].on /\ caller'[c].out = caller[c].out
BY DEF SessionType, Goto, Caller

LEMMA FailsFields ==
  ASSUME SessionType, NEW c \in Attempts, NEW out \in Outs, Fails(c, out)
  PROVE  /\ caller' \in [Attempts -> Caller]
         /\ \A d \in Attempts : d # c => caller'[d] = caller[d]
         /\ caller'[c].pc = "end" /\ caller'[c].on = caller[c].on /\ caller'[c].out = out
BY DEF SessionType, Fails, Caller, Calls, Transaction

LEMMA SetEndFields ==
  ASSUME SessionType, NEW c \in Attempts, NEW k \in Kits, NEW s \in Ends, SetEnd(c, k, s)
  PROVE  /\ end' \in [Attempts -> [Kits -> Ends]]
         /\ \A d \in Attempts, x \in Kits : d # c \/ x # k => end'[d][x] = end[d][x]
         /\ end'[c][k] = s
BY DEF SessionType, SetEnd

LEMMA DetachFields ==
  ASSUME SessionType, NEW c \in Attempts \cup {None}, NEW k \in Kits, Detach(c, k)
  PROVE  /\ end' \in [Attempts -> [Kits -> Ends]]
         /\ \A d \in Attempts, x \in Kits : d # c \/ x # k => end'[d][x] = end[d][x]
         /\ c \in Attempts => \/ end[c][k] \in {"started", "live"} /\ end'[c][k] = "detached"
                              \/ end[c][k] = "cut" /\ end'[c][k] = "closed"
                              \/ end[c][k] \notin {"started", "live", "cut"} /\ end'[c][k] = end[c][k]
<1> DEFINE new(s) == CASE s \in {"started", "live"} -> "detached" [] s = "cut" -> "closed" [] OTHER -> s
<1>1. end \in [Attempts -> [Kits -> Ends]]
  BY DEF SessionType
<1>2. end' = [end EXCEPT ![c][k] = new(end[c][k])]
  BY DEF Detach
<1>3. \A s \in Ends : /\ new(s) \in Ends
                      /\ s \in {"started", "live"} => new(s) = "detached"
                      /\ s = "cut" => new(s) = "closed"
                      /\ s \notin {"started", "live", "cut"} => new(s) = s
  BY DEF Ends
<1> HIDE DEF new
<1>4. ASSUME c \in Attempts
      PROVE  /\ end' \in [Attempts -> [Kits -> Ends]]
             /\ \A d \in Attempts, x \in Kits : d # c \/ x # k => end'[d][x] = end[d][x]
             /\ end'[c][k] = new(end[c][k]) /\ end[c][k] \in Ends
  <2>1. end[c][k] \in Ends /\ new(end[c][k]) \in Ends
    BY <1>1, <1>3, <1>4
  <2> QED
    BY <1>1, <1>2, <1>4, <2>1
<1>5. ASSUME c = None
      PROVE  end' = end
  <2>1. c \notin Attempts
    BY <1>5, KitsFacts
  <2> QED
    BY <1>1, <1>2, <2>1
<1> QED
  BY <1>1, <1>3, <1>4, <1>5, KitsFacts

LEMMA RemoveFacts ==
  ASSUME SessionType, Registered, NEW c \in Attempts \cup {None}, NEW k \in Kits, RemoveIfMatches(k, c)
  PROVE  /\ byPeer' \in [Kits -> Attempts \cup {None}] /\ sessions' \in [Kits -> SUBSET Attempts]
         /\ \A x \in Kits : x # k => byPeer'[x] = byPeer[x] /\ sessions'[x] = sessions[x]
         /\ byPeer[k] = c => byPeer'[k] = None
         /\ byPeer[k] # c => byPeer'[k] = byPeer[k]
         /\ \A x \in Kits : sessions'[x] = {byPeer'[x]} \ {None}
BY DEF SessionType, Registered, RemoveIfMatches

-----------------------------------------------------------------------------
(* What keeps each part of the invariant.                                  *)

LEMMA StoreKept ==
  ASSUME SessionType, Registered, LiveRegistered, UNCHANGED <<byPeer, sessions>>,
         \A k \in Kits : /\ watchers[k] \subseteq watchers'[k]
                         /\ stage'[k] = "drained" => stage[k] = "drained",
         \A c \in Attempts, k \in Kits :
            /\ end'[c][k] = "live" => end[c][k] = "live"
            /\ end[c][k] \in {"live", "closed"} => end'[c][k] \in {"live", "closed"}
  PROVE  Registered' /\ LiveRegistered'
BY DEF SessionType, Registered, LiveRegistered

\* A call stays in its transaction, and joins nothing new.
Steps(c) ==
  /\ caller[c].pc \in Transaction => caller'[c].pc \in Transaction
  /\ caller[c].pc = "complete" => caller'[c].pc \in Transaction \cup {"complete"}
  /\ caller'[c].pc = "join" => caller[c].pc = "join" /\ caller'[c].on = caller[c].on
  /\ caller'[c].pc \in Fresh => caller[c].pc \in Fresh

LEMMA CallsKept ==
  ASSUME SessionType, PendingOwned, JoinersOwned, UNCHANGED <<pending, deferred>>,
         \A c \in Attempts : Steps(c)
  PROVE  PendingOwned' /\ JoinersOwned'
<1>1. PendingOwned'
  BY KitsFacts DEF SessionType, PendingOwned, Steps, At
<1>2. JoinersOwned'
  BY KitsFacts DEF SessionType, PendingOwned, JoinersOwned, Steps, At, Transaction
<1> QED
  BY <1>1, <1>2

LEMMA SmoothKept ==
  ASSUME SessionType, NEW k \in Kits, Smooth(k),
         \A c \in Attempts : Dialer(c) = k =>
           /\ Dialed(c)' => Dialed(c)
           /\ \A x \in Kits : end'[c][x] = end[c][x] \/ end'[c][x] \in {"raw", "setup", "started", "live"}
           /\ end[c][k] = "live" => end'[c][k] = "live"
           /\ pending[k] = c => pending'[k] = c \/ end'[c][k] = "live"
           /\ caller'[c].pc \in {"deliver", "end", "complete"} =>
                caller[c].pc \in {"deliver", "end", "complete"} \/ end'[c][k] = "live"
  PROVE  Smooth(k)'
BY DEF Smooth

\* A step that dials nothing new.
LEMMA CalmSteps ==
  ASSUME SessionType, Calm, unpublished' = {}, UNCHANGED stage,
         \A c \in Attempts :
           /\ Dialed(c)' <=> Dialed(c)
           /\ end'[c]["smaller"] = "none" <=> end'[c]["larger"] = "none"
           /\ caller'[c].pc \notin {"gate", "rollback"}
           /\ caller'[c].out # "rejected" /\ deferred'[c] # "rejected"
           /\ \/ caller'[c].pc \in {"idle", "ask"} \/ caller[c].pc \notin {"idle", "ask"}
              \/ \E d \in Attempts : Dialed(d),
         Smooth("smaller")',
         Smooth("larger") /\ (\A m \in Attempts : Dialer(m) = "smaller" => ~Dialed(m)) => Smooth("larger")'
  PROVE  Calm'
<1>1. (\E c \in Attempts : caller'[c].pc \notin {"idle", "ask"}) => \E d \in Attempts : Dialed(d)'
  BY DEF Calm
<1>2. (\A m \in Attempts : Dialer(m) = "smaller" => ~Dialed(m)') => Smooth("larger")'
  BY DEF Calm
<1> QED
  BY <1>1, <1>2 DEF Calm

LEMMA CalmKept ==
  ASSUME SessionType, Calm, unpublished' = {}, UNCHANGED stage,
         \A c \in Attempts :
           /\ \A k \in Kits : end'[c][k] = "none" <=> end[c][k] = "none"
           /\ caller'[c].pc = "dial" <=> caller[c].pc = "dial"
           /\ caller'[c].pc \notin {"gate", "rollback"}
           /\ caller'[c].out # "rejected" /\ deferred'[c] # "rejected"
           /\ \/ caller'[c].pc \in {"idle", "ask"} \/ caller[c].pc \notin {"idle", "ask"}
              \/ \E d \in Attempts : Dialed(d),
         Smooth("smaller")',
         Smooth("larger") /\ (\A m \in Attempts : Dialer(m) = "smaller" => ~Dialed(m)) => Smooth("larger")'
  PROVE  Calm'
<1>1. \A c \in Attempts : Dialed(c)' <=> Dialed(c)
  BY KitsFacts DEF Dialed
<1>2. \A c \in Attempts : end'[c]["smaller"] = "none" <=> end'[c]["larger"] = "none"
  BY KitsFacts DEF Calm
<1> QED
  BY <1>1, <1>2, CalmSteps

-----------------------------------------------------------------------------
(* The steps of a call and the steps of one end of a connection.           *)

\* As far as connection c is concerned, nothing has gone wrong in a calm run.
Calmly(c) == Dialer(c) = "smaller" \/ \A m \in Attempts : Dialer(m) = "smaller" => ~Dialed(m)

LEMMA CallOnly ==
  ASSUME SessionInv, NEW c \in Attempts,
         UNCHANGED <<stage, store, watchers, unpublished, end, deferred>>,
         events' \in Nat, events' = 0 => events = 0,
         caller' \in [Attempts -> Caller], \A d \in Attempts : d # c => caller'[d] = caller[d],
         Steps(c), caller'[c].pc = "dial" => caller[c].pc = "dial",
         events' = 0 =>
           /\ caller[c].pc # "dial" /\ caller'[c].pc \notin {"gate", "rollback"}
           /\ caller'[c].out = caller[c].out
           /\ \/ caller'[c].pc \in {"idle", "ask"} \/ caller[c].pc \notin {"idle", "ask"}
              \/ \E d \in Attempts : Dialed(d)
           /\ caller'[c].pc \in {"deliver", "end", "complete"} => caller[c].pc \in {"deliver", "end", "complete"}
  PROVE  SessionInv'
<1>1. SessionType'
  BY DEF SessionInv, SessionType, store
<1>2. Registered' /\ LiveRegistered'
  BY StoreKept DEF SessionInv, store
<1>3. \A d \in Attempts : Steps(d)
  BY DEF Steps
<1>4. PendingOwned' /\ JoinersOwned'
  BY <1>3, CallsKept DEF SessionInv, store
<1>5. Undialed'
  BY DEF SessionInv, Undialed, Steps
<1>6. ASSUME events' = 0
      PROVE  Calm'
  <2>1. Calm /\ unpublished' = {}
    BY <1>6 DEF SessionInv, Uneventful, Calm
  <2>2. \A k \in Kits : Smooth(k) => Smooth(k)'
    <3> SUFFICES ASSUME NEW k \in Kits, Smooth(k)
                 PROVE  Smooth(k)'
      OBVIOUS
    <3>1. \A d \in Attempts : /\ Dialed(d)' => Dialed(d)
                              /\ caller'[d].pc \in {"deliver", "end", "complete"} =>
                                   caller[d].pc \in {"deliver", "end", "complete"}
      BY <1>6 DEF Dialed
    <3>2. \A d \in Attempts, x \in Kits : end'[d][x] = end[d][x]
      OBVIOUS
    <3>3. pending' = pending
      BY DEF store
    <3> QED
      BY <3>1, <3>2, <3>3, SmoothKept DEF SessionInv
  <2>3. \A d \in Attempts :
           /\ caller'[d].pc = "dial" <=> caller[d].pc = "dial"
           /\ caller'[d].pc \notin {"gate", "rollback"}
           /\ caller'[d].out # "rejected" /\ deferred'[d] # "rejected"
           /\ \/ caller'[d].pc \in {"idle", "ask"} \/ caller[d].pc \notin {"idle", "ask"}
              \/ \E x \in Attempts : Dialed(x)
    BY <1>6, <2>1 DEF Calm
  <2>4. Smooth("smaller")' /\ (Smooth("larger") => Smooth("larger")')
    BY <2>1, <2>2, KitsFacts DEF Calm
  <2>5. \A d \in Attempts, k \in Kits : end'[d][k] = "none" <=> end[d][k] = "none"
    OBVIOUS
  <2> QED
    BY <2>1, <2>3, <2>4, <2>5, CalmKept DEF SessionInv
<1> QED
  BY <1>1, <1>2, <1>4, <1>5, <1>6 DEF SessionInv, Uneventful

LEMMA EndOnly ==
  ASSUME SessionInv, NEW c \in Attempts, NEW k \in Kits,
         UNCHANGED <<stage, store, watchers, unpublished, deferred>>,
         events' \in Nat, events' = 0 => events = 0,
         caller' \in [Attempts -> Caller], \A d \in Attempts : d # c => caller'[d] = caller[d],
         \/ caller'[c] = caller[c]
         \/ /\ caller'[c].pc \in {"end", "deliver"}
            /\ events' = 0 => caller'[c].out \in {caller[c].out, "failed"},
         end' \in [Attempts -> [Kits -> Ends]],
         \A d \in Attempts, x \in Kits : d # c \/ x # k => end'[d][x] = end[d][x],
         end[c][k] # "none", end'[c][k] \notin {"none", "live"},
         end[c][k] \in {"live", "closed"} => end'[c][k] = "closed",
         events' = 0 /\ Calmly(c) => /\ caller'[c] = caller[c] /\ end[c][k] # "live"
                                     /\ end'[c][k] \in {"setup", "started"}
  PROVE  SessionInv'
<1>1. SessionType'
  BY DEF SessionInv, SessionType, store
<1>2. Registered' /\ LiveRegistered'
  <2>1. \A d \in Attempts, x \in Kits :
            /\ end'[d][x] = "live" => end[d][x] = "live"
            /\ end[d][x] \in {"live", "closed"} => end'[d][x] \in {"live", "closed"}
    OBVIOUS
  <2> QED
    BY <2>1, StoreKept DEF SessionInv, store
<1>3. caller[c].pc \notin Fresh \cup {"dial"}
  BY DEF SessionInv, Undialed
<1>4. PendingOwned' /\ JoinersOwned'
  <2>1. \A d \in Attempts : Steps(d)
    BY <1>3 DEF Steps, Transaction, Fresh
  <2> QED
    BY <2>1, CallsKept DEF SessionInv, store
<1>5. Undialed'
  BY <1>3 DEF SessionInv, Undialed, Fresh
<1>6. ASSUME events' = 0
      PROVE  Calm'
  <2>1. Calm /\ unpublished' = {}
    BY <1>6 DEF SessionInv, Uneventful, Calm
  <2>2. \A d \in Attempts : /\ caller'[d].pc = "dial" <=> caller[d].pc = "dial"
                            /\ \A x \in Kits : end'[d][x] = "none" <=> end[d][x] = "none"
    BY <1>3
  <2>3. \A d \in Attempts : Dialed(d)' <=> Dialed(d)
    BY <2>2, KitsFacts DEF Dialed
  <2>4. ASSUME NEW y \in Kits, Smooth(y), y = Dialer(c) => Calmly(c)
        PROVE  Smooth(y)'
    <3>1. \A d \in Attempts : Dialer(d) = y =>
            /\ \A x \in Kits : end'[d][x] = end[d][x] \/ end'[d][x] \in {"raw", "setup", "started", "live"}
            /\ end[d][y] = "live" => end'[d][y] = "live"
            /\ caller'[d].pc \in {"deliver", "end", "complete"} =>
                 caller[d].pc \in {"deliver", "end", "complete"}
      BY <1>6, <2>4
    <3>2. pending' = pending
      BY DEF store
    <3> QED
      BY <2>3, <2>4, <3>1, <3>2, SmoothKept DEF SessionInv
  <2>5. Smooth("smaller")'
    BY <2>1, <2>4, KitsFacts DEF Calm, Calmly
  <2>6. Smooth("larger") /\ (\A m \in Attempts : Dialer(m) = "smaller" => ~Dialed(m)) => Smooth("larger")'
    BY <2>4, KitsFacts DEF Calmly
  <2>7. \A d \in Attempts :
           /\ caller'[d].pc \notin {"gate", "rollback"}
           /\ caller'[d].out # "rejected" /\ deferred'[d] # "rejected"
           /\ \/ caller'[d].pc \in {"idle", "ask"} \/ caller[d].pc \notin {"idle", "ask"}
              \/ \E x \in Attempts : Dialed(x)
    BY <1>3, <1>6, <2>1 DEF Calm, Fresh
  <2> QED
    BY <2>1, <2>2, <2>5, <2>6, <2>7, CalmKept DEF SessionInv
<1> QED
  BY <1>1, <1>2, <1>4, <1>5, <1>6 DEF SessionInv, Uneventful

-----------------------------------------------------------------------------
(* One lemma per action.                                                   *)

LEMMA EventFacts ==
  ASSUME SessionType, NEW e, Event(e)
  PROVE  events' \in Nat /\ events' # 0
BY DEF SessionType, Event

LEMMA ConnectKeeps ==
  ASSUME SessionInv, NEW c \in Attempts, Connect(c)
  PROVE  SessionInv'
<1> DEFINE pc == IF IsActive(Dialer(c)) THEN "ask" ELSE "failed"
<1>1. SessionType /\ pc \in Calls /\ Goto(c, pc) /\ caller[c].pc \in {"idle", "gate"}
  BY DEF SessionInv, Connect, Calls, At
<1>2. UNCHANGED <<stage, store, watchers, unpublished, end, deferred>> /\ events' = events
  BY DEF Connect
<1>3. /\ caller' \in [Attempts -> Caller] /\ \A d \in Attempts : d # c => caller'[d] = caller[d]
      /\ caller'[c].pc = pc /\ caller'[c].out = caller[c].out
  BY <1>1, GotoFields
<1>4. Steps(c)
  BY <1>1, <1>3 DEF Steps, Transaction, Fresh
<1>5. events' = 0 => pc = "ask"
  BY <1>2, KitsFacts DEF SessionInv, Uneventful, Calm, IsActive
<1>6. events' \in Nat
  BY <1>1, <1>2 DEF SessionType
<1> QED
  BY <1>1, <1>2, <1>3, <1>4, <1>5, <1>6, CallOnly

LEMMA ActiveDialed ==
  ASSUME SessionType, Calm, NEW k \in Kits, ActiveIn(k)
  PROVE  byPeer[k] \in Attempts /\ end[byPeer[k]][k] = "live" /\ Dialed(byPeer[k])
<1>1. byPeer[k] \in Attempts /\ end[byPeer[k]][k] = "live"
  BY DEF SessionType, ActiveIn
<1>2. end[byPeer[k]][Dialer(byPeer[k])] # "none"
  BY <1>1, KitsFacts DEF Calm
<1> QED
  BY <1>1, <1>2 DEF Dialed

LEMMA JoinExistingKeeps ==
  ASSUME SessionInv, NEW c \in Attempts, JoinExisting(c)
  PROVE  SessionInv'
<1>1. SessionType /\ "check" \in Calls /\ Goto(c, "check") /\ caller[c].pc = "ask" /\ ActiveIn(Dialer(c))
  BY DEF SessionInv, JoinExisting, Calls, At
<1>2. UNCHANGED <<stage, store, watchers, unpublished, end, deferred>> /\ events' = events
  BY DEF JoinExisting
<1>3. /\ caller' \in [Attempts -> Caller] /\ \A d \in Attempts : d # c => caller'[d] = caller[d]
      /\ caller'[c].pc = "check" /\ caller'[c].out = caller[c].out
  BY <1>1, GotoFields
<1>4. Steps(c)
  BY <1>1, <1>3 DEF Steps, Transaction, Fresh
<1>5. events' = 0 => \E d \in Attempts : Dialed(d)
  BY <1>1, <1>2, KitsFacts, ActiveDialed DEF SessionInv, Uneventful
<1>6. events' \in Nat
  BY <1>1, <1>2 DEF SessionType
<1> QED
  BY <1>1, <1>2, <1>3, <1>4, <1>5, <1>6, CallOnly

LEMMA DeliverKeeps ==
  ASSUME SessionInv, NEW c \in Attempts, Deliver(c)
  PROVE  SessionInv'
<1>1. SessionType /\ {"end", "rollback"} \subseteq Calls /\ "failed" \in Outs /\ caller[c].pc = "deliver"
  BY DEF SessionInv, Deliver, Calls, Transaction, Outs, At
<1>2. UNCHANGED <<stage, store, watchers, unpublished, end, deferred>>
  BY DEF Deliver
<1>3. \/ IsActive(Dialer(c)) /\ Goto(c, "end") /\ events' = events
      \/ ~IsActive(Dialer(c)) /\ Goto(c, "rollback") /\ events' = events
      \/ Event("cancel") /\ (Goto(c, "rollback") \/ Fails(c, "failed"))
  BY DEF Deliver
<1>4. events' \in Nat /\ (events' = 0 => events = 0)
  BY <1>1, <1>3, EventFacts DEF SessionType
<1>5. /\ caller' \in [Attempts -> Caller] /\ \A d \in Attempts : d # c => caller'[d] = caller[d]
      /\ caller'[c].pc \in {"end", "rollback"}
  BY <1>1, <1>3, GotoFields, FailsFields
<1>6. events' = 0 => caller'[c].pc = "end" /\ caller'[c].out = caller[c].out
  <2>1. events' = 0 => IsActive(Dialer(c))
    BY <1>4, KitsFacts DEF SessionInv, Uneventful, Calm, IsActive
  <2> QED
    BY <1>1, <1>3, <2>1, GotoFields, EventFacts
<1>7. Steps(c)
  BY <1>1, <1>5 DEF Steps, Transaction, Fresh
<1> QED
  BY <1>1, <1>2, <1>4, <1>5, <1>6, <1>7, CallOnly

LEMMA JoinedKeeps ==
  ASSUME SessionInv, NEW c \in Attempts, Joined(c)
  PROVE  SessionInv'
<1>1. SessionType /\ {"check", "gate", "failed"} \subseteq Calls /\ caller[c].pc = "join"
  BY DEF SessionInv, Joined, Calls, At
<1>2. UNCHANGED <<stage, store, watchers, unpublished, end, deferred>>
  BY DEF Joined
<1>3. \/ Goto(c, "check") /\ events' = events
      \/ /\ deferred[caller[c].on] = "rejected" /\ events' = events
         /\ caller' = [caller EXCEPT ![c].pc = "gate", ![c].again = FALSE]
      \/ Goto(c, "failed") /\ events' = events
      \/ Event("cancel") /\ Goto(c, "failed")
  BY DEF Joined
<1>4. events' \in Nat /\ (events' = 0 => events = 0)
  BY <1>1, <1>3, EventFacts DEF SessionType
<1>5. ASSUME caller' = [caller EXCEPT ![c].pc = "gate", ![c].again = FALSE]
      PROVE  /\ caller' \in [Attempts -> Caller] /\ \A d \in Attempts : d # c => caller'[d] = caller[d]
             /\ caller'[c].pc = "gate" /\ caller'[c].out = caller[c].out
  BY <1>1, <1>5, ZenonT(40) DEF SessionType, Caller
<1>6. /\ caller' \in [Attempts -> Caller] /\ \A d \in Attempts : d # c => caller'[d] = caller[d]
      /\ caller'[c].pc \in {"check", "gate", "failed"} /\ caller'[c].out = caller[c].out
  BY <1>1, <1>3, <1>5, GotoFields
<1>7. events' = 0 => caller'[c].pc # "gate"
  <2>1. caller[c].on \in Attempts
    BY DEF SessionInv, PendingOwned, Joined
  <2>2. events' = 0 => deferred[caller[c].on] # "rejected"
    BY <1>4, <2>1 DEF SessionInv, Uneventful, Calm
  <2> QED
    BY <1>1, <1>3, <2>2, GotoFields
<1>8. Steps(c)
  BY <1>1, <1>6 DEF Steps, Transaction, Fresh
<1> QED
  BY <1>1, <1>2, <1>4, <1>6, <1>7, <1>8, CallOnly

LEMMA CheckKeeps ==
  ASSUME SessionInv, NEW c \in Attempts, Check(c)
  PROVE  SessionInv'
<1> DEFINE pc == IF IsActive(Dialer(c)) THEN "returned" ELSE "failed"
<1>1. SessionType /\ pc \in Calls /\ Goto(c, pc) /\ caller[c].pc = "check"
  BY DEF SessionInv, Check, Calls, At
<1>2. UNCHANGED <<stage, store, watchers, unpublished, end, deferred>> /\ events' = events
  BY DEF Check
<1>3. /\ caller' \in [Attempts -> Caller] /\ \A d \in Attempts : d # c => caller'[d] = caller[d]
      /\ caller'[c].pc = pc /\ caller'[c].out = caller[c].out
  BY <1>1, GotoFields
<1>4. Steps(c)
  BY <1>1, <1>3 DEF Steps, Transaction, Fresh
<1>5. events' \in Nat
  BY <1>1, <1>2 DEF SessionType
<1> QED
  BY <1>1, <1>2, <1>3, <1>4, <1>5, CallOnly

\* What a calm run knows of a connection on which nothing may have gone wrong.
LEMMA CalmlySmooth ==
  ASSUME SessionInv, events = 0, NEW c \in Attempts, Calmly(c)
  PROVE  /\ Smooth(Dialer(c)) /\ \A k \in Kits : stage[k] = "running"
         /\ \A k \in Kits : end[c][k] \in {"none", "raw", "setup", "started", "live"}
<1>1. Calm
  BY DEF SessionInv, Uneventful
<1>2. Smooth(Dialer(c))
  BY <1>1, KitsFacts DEF Calm, Calmly
<1> QED
  BY <1>1, <1>2 DEF Calm, Smooth

LEMMA SetupFailsFields ==
  ASSUME SessionType, NEW c \in Attempts, NEW k \in Kits, NEW out \in Outs, SetupFails(c, k, out)
  PROVE  /\ caller' \in [Attempts -> Caller]
         /\ \A d \in Attempts : d # c => caller'[d] = caller[d]
         /\ caller'[c] = caller[c] \/ (caller'[c].pc = "end" /\ caller'[c].out = out)
         /\ end' \in [Attempts -> [Kits -> Ends]]
         /\ \A d \in Attempts, x \in Kits : d # c \/ x # k => end'[d][x] = end[d][x]
         /\ end'[c][k] = "closed"
<1>1. "closed" \in Ends /\ SetEnd(c, k, "closed") /\ (UNCHANGED caller \/ Fails(c, out))
  BY DEF SetupFails, Ends
<1> QED
  BY <1>1, SetEndFields, FailsFields DEF SessionType

LEMMA EnterSetupKeeps ==
  ASSUME SessionInv, NEW c \in Attempts, NEW k \in Kits, EnterSetup(c, k)
  PROVE  SessionInv'
<1>1. SessionType /\ "setup" \in Ends /\ "failed" \in Outs /\ end[c][k] = "raw"
  BY DEF SessionInv, EnterSetup, Ends, Outs
<1>2. UNCHANGED <<stage, store, watchers, unpublished, deferred>> /\ events' = events /\ events' \in Nat
  BY <1>1 DEF EnterSetup, SessionType
<1>3. \/ SetEnd(c, k, "setup") /\ caller' = caller
      \/ stage[k] # "running" /\ SetupFails(c, k, "failed")
  BY DEF EnterSetup
<1>4. events' = 0 /\ Calmly(c) => SetEnd(c, k, "setup") /\ caller' = caller
  BY <1>2, <1>3, CalmlySmooth
<1>5. ASSUME SetEnd(c, k, "setup"), caller' = caller
      PROVE  SessionInv'
  <2>1. caller' \in [Attempts -> Caller]
    BY <1>1, <1>5 DEF SessionType
  <2> QED
    BY <1>1, <1>2, <1>5, <2>1, SetEndFields, EndOnly
<1>6. ASSUME SetupFails(c, k, "failed"), ~(events' = 0 /\ Calmly(c))
      PROVE  SessionInv'
  BY <1>1, <1>2, <1>6, SetupFailsFields, EndOnly
<1> QED
  BY <1>3, <1>4, <1>5, <1>6

LEMMA HandshakeKeeps ==
  ASSUME SessionInv, NEW c \in Attempts, NEW k \in Kits, Handshake(c, k)
  PROVE  SessionInv'
<1>1. SessionType /\ "started" \in Ends /\ {"failed", "rejected"} \subseteq Outs /\ end[c][k] = "setup"
  BY DEF SessionInv, Handshake, Ends, Outs
<1>2. UNCHANGED <<stage, store, watchers, unpublished, deferred>>
  BY DEF Handshake
<1>3. \/ SetEnd(c, k, "started") /\ caller' = caller /\ events' = events
      \/ end[c][Other(k)] = "closed" /\ SetupFails(c, k, "failed") /\ events' = events
      \/ Event("handshake fails") /\ SetupFails(c, k, "failed")
      \/ Event("rejected") /\ SetupFails(c, k, "rejected")
  BY DEF Handshake
<1>4. events' \in Nat /\ (events' = 0 => events = 0)
  BY <1>1, <1>3, EventFacts DEF SessionType
<1>5. ASSUME SetEnd(c, k, "started"), caller' = caller
      PROVE  SessionInv'
  <2>1. caller' \in [Attempts -> Caller]
    BY <1>1, <1>5 DEF SessionType
  <2> QED
    BY <1>1, <1>2, <1>4, <1>5, <2>1, SetEndFields, EndOnly
<1>6. ASSUME SetupFails(c, k, "failed"), ~(events' = 0 /\ Calmly(c))
      PROVE  SessionInv'
  BY <1>1, <1>2, <1>4, <1>6, SetupFailsFields, EndOnly
<1>7. ASSUME SetupFails(c, k, "rejected"), events' # 0
      PROVE  SessionInv'
  BY <1>1, <1>2, <1>4, <1>7, SetupFailsFields, EndOnly
<1>8. end[c][Other(k)] = "closed" => ~(events' = 0 /\ Calmly(c))
  BY <1>4, CalmlySmooth, KitsFacts
<1> QED
  BY <1>1, <1>3, <1>5, <1>6, <1>7, <1>8, EventFacts

LEMMA CancelSetupKeeps ==
  ASSUME SessionInv, NEW c \in Attempts, NEW k \in Kits, CancelSetup(c, k)
  PROVE  SessionInv'
<1>1. SessionType /\ "failed" \in Outs /\ end[c][k] \in {"setup", "started", "cut"} /\ SetupFails(c, k, "failed")
  BY DEF SessionInv, CancelSetup, Outs
<1>2. UNCHANGED <<stage, store, watchers, unpublished, deferred>>
  BY DEF CancelSetup
<1>3. (stage[k] # "running" /\ events' = events) \/ Event("cancel")
  BY DEF CancelSetup
<1>4. events' \in Nat /\ (events' = 0 => events = 0)
  BY <1>1, <1>3, EventFacts DEF SessionType
<1>5. ~(events' = 0 /\ Calmly(c))
  BY <1>1, <1>3, <1>4, EventFacts, CalmlySmooth
<1> QED
  BY <1>1, <1>2, <1>4, <1>5, SetupFailsFields, EndOnly

LEMMA CloseDetachedKeeps ==
  ASSUME SessionInv, NEW c \in Attempts, NEW k \in Kits, CloseDetached(c, k)
  PROVE  SessionInv'
<1>1. SessionType /\ "closed" \in Ends /\ end[c][k] = "detached" /\ SetEnd(c, k, "closed")
  BY DEF SessionInv, CloseDetached, Ends
<1>2. UNCHANGED <<stage, store, watchers, unpublished, deferred>> /\ caller' = caller /\ events' = events
  BY DEF CloseDetached
<1>3. events' \in Nat /\ caller' \in [Attempts -> Caller]
  BY <1>1, <1>2 DEF SessionType
<1>4. ~(events' = 0 /\ Calmly(c))
  BY <1>1, <1>2, CalmlySmooth
<1> QED
  BY <1>1, <1>2, <1>3, <1>4, SetEndFields, EndOnly

LEMMA SessionEndsKeeps ==
  ASSUME SessionInv, NEW c \in Attempts, NEW k \in Kits, SessionEnds(c, k)
  PROVE  SessionInv'
<1>1. SessionType /\ "closed" \in Ends /\ end[c][k] = "live" /\ SetEnd(c, k, "closed") /\ Event("session ends")
  BY DEF SessionInv, SessionEnds, Ends
<1>2. UNCHANGED <<stage, store, watchers, unpublished, deferred>> /\ caller' = caller
  BY DEF SessionEnds
<1>3. events' \in Nat /\ events' # 0 /\ caller' \in [Attempts -> Caller]
  BY <1>1, <1>2, EventFacts DEF SessionType
<1>4. /\ end' \in [Attempts -> [Kits -> Ends]] /\ end'[c][k] = "closed"
      /\ \A d \in Attempts, x \in Kits : d # c \/ x # k => end'[d][x] = end[d][x]
  BY <1>1, SetEndFields
<1> QED
  BY <1>1, <1>2, <1>3, <1>4, EndOnly

LEMMA PeerClosedKeeps ==
  ASSUME SessionInv, NEW c \in Attempts, NEW k \in Kits, PeerClosed(c, k)
  PROVE  SessionInv'
<1> DEFINE s == IF end[c][k] = "started" THEN "cut" ELSE "closed"
<1>1. /\ SessionType /\ s \in Ends /\ SetEnd(c, k, s)
      /\ end[c][k] \in {"started", "live", "detached"} /\ end[c][Other(k)] = "closed"
  BY DEF SessionInv, PeerClosed, Ends
<1>2. UNCHANGED <<stage, store, watchers, unpublished, deferred>> /\ caller' = caller /\ events' = events
  BY DEF PeerClosed
<1>3. events' \in Nat /\ caller' \in [Attempts -> Caller]
  BY <1>1, <1>2 DEF SessionType
<1>4. ~(events' = 0 /\ Calmly(c))
  BY <1>1, <1>2, CalmlySmooth, KitsFacts
<1> QED
  BY <1>1, <1>2, <1>3, <1>4, SetEndFields, EndOnly

\* The calls, the slot and the results are as before.
LEMMA DeliversFields ==
  ASSUME SessionType, NEW c \in Attempts, NEW k \in Kits, NEW s \in Attempts \cup {None}, Delivers(c, k, s)
  PROVE  /\ caller' \in [Attempts -> Caller]
         /\ \A d \in Attempts : d # c => caller'[d] = caller[d]
         /\ caller'[c] = caller[c] \/ (caller'[c].pc = "deliver" /\ caller'[c].out = caller[c].out)
         /\ k # Dialer(c) => caller'[c] = caller[c]
<1>1. CASE IsIncoming(c, k)
  BY <1>1 DEF Delivers, SessionType
<1>2. CASE ~IsIncoming(c, k)
  <2>1. caller' = [caller EXCEPT ![c].pc = "deliver", ![c].on = s] /\ "deliver" \in Calls /\ k = Dialer(c)
    BY <1>2 DEF Delivers, IsIncoming, Calls, Transaction
  <2> QED
    BY <2>1, ZenonT(40) DEF SessionType, Caller
<1> QED
  BY <1>1, <1>2

\* The tie-break never turns a connection of the smaller kit away, nor the only
\* connection there is.
LEMMA CalmWins ==
  ASSUME SessionInv, events = 0, NEW c \in Attempts, NEW k \in Kits, Calmly(c),
         end[c][k] \in {"started", "cut"}, ActiveIn(k)
  PROVE  NewWins(c, k) /\ Dialer(c) = "smaller" /\ Dialer(byPeer[k]) = "larger"
<1> DEFINE e == byPeer[k]
<1>1. SessionType /\ Calm
  BY DEF SessionInv, Uneventful
<1>2. e \in Attempts /\ end[e][k] = "live" /\ Dialed(e)
  BY <1>1, ActiveDialed
<1>3. Dialed(c)
  BY <1>1, KitsFacts DEF Dialed, Calm
<1>4. Dialer(e) # Dialer(c)
  BY <1>2, <1>3, CalmlySmooth DEF Smooth
<1>5. Dialer(c) = "smaller"
  BY <1>2, <1>4, KitsFacts DEF Calmly
<1>6. Dialer(e) = "larger"
  BY <1>2, <1>4, <1>5, KitsFacts
<1> QED
  BY <1>4, <1>5, <1>6, KitsFacts DEF NewWins, IsIncoming

LEMMA DetachKeeps ==
  ASSUME SessionInv, NEW c \in Attempts, NEW k \in Kits, Detach(c, k), end[c][k] \in {"started", "cut"},
         UNCHANGED <<stage, store, watchers, unpublished, deferred>>,
         events' \in Nat, events' = 0 => events = 0,
         NEW s \in Attempts \cup {None}, Delivers(c, k, s) \/ caller' = caller,
         ~(events' = 0 /\ Calmly(c))
  PROVE  SessionInv'
<1>1. SessionType
  BY DEF SessionInv
<1>2. /\ caller' \in [Attempts -> Caller] /\ \A d \in Attempts : d # c => caller'[d] = caller[d]
      /\ caller'[c] = caller[c] \/ (caller'[c].pc = "deliver" /\ caller'[c].out = caller[c].out)
  <2>1. CASE caller' = caller
    BY <1>1, <2>1 DEF SessionType
  <2> QED
    BY <1>1, <2>1, DeliversFields
<1>3. /\ end' \in [Attempts -> [Kits -> Ends]]
      /\ \A d \in Attempts, x \in Kits : d # c \/ x # k => end'[d][x] = end[d][x]
      /\ end'[c][k] \in {"detached", "closed"}
  BY <1>1, DetachFields
<1> QED
  BY <1>2, <1>3, EndOnly

LEMMA AdmitFields ==
  ASSUME SessionInv, NEW c \in Attempts, NEW k \in Kits, Admit(c, k), end[c][k] \in {"started", "cut"}
  PROVE  /\ byPeer' \in [Kits -> Attempts \cup {None}] /\ sessions' \in [Kits -> SUBSET Attempts]
         /\ watchers' \in [Kits -> SUBSET Attempts]
         /\ byPeer'[k] = c /\ sessions'[k] = {c} /\ c \in watchers'[k]
         /\ \A x \in Kits : watchers[x] \subseteq watchers'[x]
         /\ \A x \in Kits : x # k => byPeer'[x] = byPeer[x] /\ sessions'[x] = sessions[x]
         /\ end' \in [Attempts -> [Kits -> Ends]]
         /\ \A d \in Attempts, x \in Kits : x # k => end'[d][x] = end[d][x]
         /\ \A d \in Attempts : d \notin {c, byPeer[k]} => end'[d][k] = end[d][k]
         /\ end[c][k] = "started" => end'[c][k] = "live"
         /\ end[c][k] = "cut" => end'[c][k] = "closed"
         /\ byPeer[k] \in Attempts => \/ end[byPeer[k]][k] = "live" /\ end'[byPeer[k]][k] = "detached"
                                      \/ end[byPeer[k]][k] # "live" /\ end'[byPeer[k]][k] = end[byPeer[k]][k]
<1> DEFINE e == byPeer[k]
<1>1. SessionType /\ Registered
  BY DEF SessionInv
<1>2. sessions[k] = {e} \ {None} /\ e # c
  BY <1>1, KitsFacts DEF Registered, SessionType
<1>3. /\ byPeer' = [byPeer EXCEPT ![k] = c]
      /\ sessions' = [sessions EXCEPT ![k] = (sessions[k] \ {e}) \cup {c}]
      /\ watchers' = [watchers EXCEPT ![k] = watchers[k] \cup {c}]
  BY DEF Admit
<1>4. /\ byPeer' \in [Kits -> Attempts \cup {None}] /\ watchers' \in [Kits -> SUBSET Attempts]
      /\ byPeer'[k] = c /\ c \in watchers'[k] /\ \A x \in Kits : watchers[x] \subseteq watchers'[x]
      /\ \A x \in Kits : x # k => byPeer'[x] = byPeer[x]
  BY <1>1, <1>3 DEF SessionType
<1>5. (sessions[k] \ {e}) \cup {c} = {c}
  BY <1>2
<1>6. /\ sessions' \in [Kits -> SUBSET Attempts] /\ sessions'[k] = {c}
      /\ \A x \in Kits : x # k => sessions'[x] = sessions[x]
  BY <1>1, <1>3, <1>5 DEF SessionType
<1> DEFINE new(x, s) == CASE x = c -> IF s = "started" THEN "live" ELSE "closed"
                          [] x = e /\ s = "live" -> "detached"
                          [] OTHER -> s
<1>7. end' = [x \in Attempts |-> [end[x] EXCEPT ![k] = new(x, end[x][k])]]
  BY DEF Admit
<1>8. \A x \in Attempts, s \in Ends :
         /\ new(x, s) \in Ends /\ (x \notin {c, e} => new(x, s) = s)
         /\ x = c => new(x, s) = IF s = "started" THEN "live" ELSE "closed"
         /\ x = e => new(x, s) = IF s = "live" THEN "detached" ELSE s
  BY <1>2 DEF Ends
<1> HIDE DEF new
<1>9. /\ end' \in [Attempts -> [Kits -> Ends]]
      /\ \A d \in Attempts, x \in Kits : x # k => end'[d][x] = end[d][x]
      /\ \A d \in Attempts : end'[d][k] = new(d, end[d][k]) /\ end[d][k] \in Ends
  BY <1>1, <1>7, <1>8 DEF SessionType
<1> QED
  BY <1>4, <1>6, <1>8, <1>9

LEMMA AdmitKeeps ==
  ASSUME SessionInv, NEW c \in Attempts, NEW k \in Kits, Admit(c, k), end[c][k] \in {"started", "cut"},
         IsActive(k), ActiveIn(k) => NewWins(c, k), UNCHANGED <<stage, pending, deferred>>
  PROVE  SessionInv'
<1> DEFINE e == byPeer[k]
<1>1. SessionType /\ Registered /\ LiveRegistered /\ e \in Attempts \cup {None} /\ e # c
  BY KitsFacts DEF SessionInv, SessionType, Registered
<1>2. /\ caller' \in [Attempts -> Caller] /\ \A d \in Attempts : d # c => caller'[d] = caller[d]
      /\ caller'[c] = caller[c] \/ (caller'[c].pc = "deliver" /\ caller'[c].out = caller[c].out)
      /\ k # Dialer(c) => caller'[c] = caller[c]
  BY <1>1, DeliversFields DEF Admit
<1>3. \/ unpublished' = unpublished /\ events' = events
      \/ Event("unpublished") /\ unpublished' = unpublished \cup {c}
  BY DEF Admit
<1>4. unpublished' \subseteq Attempts /\ events' \in Nat /\ (events' = 0 => events = 0 /\ unpublished' = unpublished)
  BY <1>1, <1>3, EventFacts DEF SessionType
<1>5. SessionType'
  BY <1>1, <1>2, <1>4, AdmitFields DEF SessionType
<1>6. Registered'
  <2>1. \A x \in Kits : x # k => sessions'[x] = {byPeer'[x]} \ {None}
    BY <1>1, AdmitFields DEF Registered
  <2>2. sessions'[k] = {byPeer'[k]} \ {None} /\ byPeer'[k] = c /\ c \in watchers'[k] /\ end'[c][k] \in {"live", "closed"}
    BY AdmitFields, KitsFacts
  <2>3. ASSUME NEW x \in Kits, x # k, byPeer'[x] # None
        PROVE  byPeer'[x] \in watchers'[x] /\ end'[byPeer'[x]][x] \in {"live", "closed"}
    <3>1. byPeer'[x] = byPeer[x] /\ byPeer[x] \in Attempts
      BY <1>1, <2>3, AdmitFields DEF SessionType
    <3>2. byPeer[x] \in watchers[x] /\ end[byPeer[x]][x] \in {"live", "closed"}
      BY <1>1, <2>3, <3>1 DEF Registered
    <3>3. watchers[x] \subseteq watchers'[x] /\ end'[byPeer[x]][x] = end[byPeer[x]][x]
      BY <2>3, <3>1, AdmitFields
    <3> QED
      BY <3>1, <3>2, <3>3
  <2> QED
    BY <2>1, <2>2, <2>3 DEF Registered
<1>7. LiveRegistered'
  <2> SUFFICES ASSUME NEW d \in Attempts, NEW x \in Kits, end'[d][x] = "live"
               PROVE  byPeer'[x] = d /\ d \in sessions'[x] /\ stage'[x] # "drained"
    BY DEF LiveRegistered
  <2>1. CASE x # k
    <3>1. end[d][x] = "live"
      BY <2>1, AdmitFields
    <3>2. byPeer[x] = d /\ d \in sessions[x] /\ stage[x] # "drained"
      BY <1>1, <3>1 DEF LiveRegistered
    <3> QED
      BY <2>1, <3>2, AdmitFields
  <2>2. CASE x = k
    <3>1. ASSUME d # c
          PROVE  FALSE
      <4>1. CASE d = e
        BY <2>2, <4>1, AdmitFields
      <4>2. CASE d # e
        <5>1. end[d][k] = "live"
          BY <2>2, <3>1, <4>2, AdmitFields
        <5> QED
          BY <1>1, <4>2, <5>1 DEF LiveRegistered
      <4> QED
        BY <4>1, <4>2
    <3>2. byPeer'[k] = c /\ c \in sessions'[k]
      BY AdmitFields
    <3> QED
      BY <2>2, <3>1, <3>2 DEF IsActive
  <2> QED
    BY <2>1, <2>2
<1>8. caller[c].pc \notin Fresh \cup {"dial"}
  BY DEF SessionInv, Undialed
<1>9. PendingOwned' /\ JoinersOwned'
  <2>1. \A d \in Attempts : Steps(d)
    BY <1>2, <1>8 DEF Steps, Transaction, Fresh
  <2> QED
    BY <1>1, <2>1, CallsKept DEF SessionInv
<1>10. \A d \in Attempts, x \in Kits : end'[d][x] = "none" <=> end[d][x] = "none"
  BY <1>1, AdmitFields
<1>11. Undialed'
  BY <1>2, <1>8, <1>10 DEF SessionInv, Undialed, Fresh
<1>12. ASSUME events' = 0
       PROVE  Calm'
  <2>1. Calm /\ unpublished' = {} /\ events = 0
    BY <1>4, <1>12 DEF SessionInv, Uneventful, Calm
  <2>2. \A d \in Attempts : caller'[d].pc = "dial" <=> caller[d].pc = "dial"
    BY <1>2, <1>8
  <2>3. \A d \in Attempts : Dialed(d)' <=> Dialed(d)
    BY <1>10, <2>2, KitsFacts DEF Dialed
  <2>4. ASSUME NEW y \in Kits, Smooth(y), y = Dialer(c) => Calmly(c),
               e # None /\ end[e][k] = "live" => Dialer(e) # y
        PROVE  Smooth(y)'
    <3>1. ASSUME Dialer(c) = y
          PROVE  /\ end[c][k] # "live" /\ end'[c][k] = "live"
                 /\ caller'[c].pc \in {"deliver", "end", "complete"} =>
                      caller[c].pc \in {"deliver", "end", "complete"} \/ end'[c][y] = "live"
      <4>1. end[c][k] = "started"
        BY <2>1, <2>4, <3>1, CalmlySmooth
      <4> QED
        BY <1>2, <3>1, <4>1, AdmitFields
    <3>2. ASSUME NEW d \in Attempts, Dialer(d) = y, d # c
          PROVE  /\ \A x \in Kits : end'[d][x] = end[d][x]
                 /\ caller'[d] = caller[d]
      <4>1. d # e \/ end[e][k] # "live"
        BY <1>1, <2>4, <3>2, KitsFacts
      <4>2. end'[d][k] = end[d][k]
        BY <3>2, <4>1, AdmitFields
      <4> QED
        BY <1>2, <3>2, <4>2, AdmitFields
    <3>3. \A x \in Kits : x # k => end'[c][x] = end[c][x]
      BY AdmitFields
    <3>4. \A d \in Attempts : Dialer(d) = y =>
            /\ \A x \in Kits : end'[d][x] = end[d][x] \/ end'[d][x] \in {"raw", "setup", "started", "live"}
            /\ end[d][y] = "live" => end'[d][y] = "live"
            /\ caller'[d].pc \in {"deliver", "end", "complete"} =>
                 caller[d].pc \in {"deliver", "end", "complete"} \/ end'[d][y] = "live"
      BY <3>1, <3>2, <3>3
    <3> QED
      BY <1>1, <2>3, <2>4, <3>4, SmoothKept
  <2>5. e # None /\ end[e][k] = "live" => ActiveIn(k) /\ Dialer(e) = "larger" /\ Dialer(c) = "smaller"
    <3> SUFFICES ASSUME e # None /\ end[e][k] = "live"
                 PROVE  Dialer(e) = "larger" /\ Dialer(c) = "smaller"
      BY DEF ActiveIn
    <3>1. NewWins(c, k) /\ e \in Attempts
      BY <1>1 DEF ActiveIn
    <3> QED
      BY <3>1, KitsFacts DEF NewWins, IsIncoming
  <2>6. Smooth("smaller")'
    BY <2>1, <2>4, <2>5, KitsFacts DEF Calm, Calmly
  <2>7. Dialed(c)
    BY <2>1, KitsFacts DEF Dialed, Calm
  <2>8. Smooth("larger") /\ (\A m \in Attempts : Dialer(m) = "smaller" => ~Dialed(m)) => Smooth("larger")'
    BY <2>4, <2>5, <2>7, KitsFacts DEF Calmly
  <2>9. \A d \in Attempts :
           /\ caller'[d].pc \notin {"gate", "rollback"}
           /\ caller'[d].out # "rejected" /\ deferred'[d] # "rejected"
           /\ \/ caller'[d].pc \in {"idle", "ask"} \/ caller[d].pc \notin {"idle", "ask"}
              \/ \E x \in Attempts : Dialed(x)
    BY <1>2, <2>1, <2>7 DEF Calm
  <2> QED
    BY <1>1, <1>10, <2>1, <2>2, <2>6, <2>8, <2>9, CalmKept
<1> QED
  BY <1>5, <1>6, <1>7, <1>9, <1>11, <1>12 DEF SessionInv, Uneventful

LEMMA CommitKeeps ==
  ASSUME SessionInv, NEW c \in Attempts, NEW k \in Kits, Commit(c, k)
  PROVE  SessionInv'
<1>1. SessionType /\ "failed" \in Outs /\ end[c][k] \in {"started", "cut"} /\ UNCHANGED <<stage, pending, deferred>>
  BY DEF SessionInv, Commit, Outs
<1>2. byPeer[k] \in Attempts \cup {None} /\ events \in Nat
  BY <1>1 DEF SessionType
<1>3. ASSUME ~IsActive(k), SetupFails(c, k, "failed"),
             UNCHANGED <<byPeer, sessions, watchers, unpublished, events>>
      PROVE  SessionInv'
  <2>1. ~(events' = 0 /\ Calmly(c))
    BY <1>3, CalmlySmooth DEF IsActive
  <2>2. UNCHANGED <<stage, store, watchers, unpublished, deferred>> /\ events' \in Nat /\ events' = events
    BY <1>1, <1>2, <1>3 DEF store
  <2> QED
    BY <1>1, <1>3, <2>1, <2>2, SetupFailsFields, EndOnly
<1>4. ASSUME ActiveIn(k), ~NewWins(c, k), Reject(c, k)
      PROVE  SessionInv'
  <2>1. UNCHANGED <<stage, store, watchers, unpublished, deferred>> /\ events' \in Nat /\ events' = events
    BY <1>1, <1>2, <1>4 DEF store, Reject
  <2>2. ~(events' = 0 /\ Calmly(c))
    BY <1>1, <1>4, <2>1, CalmWins
  <2>3. Detach(c, k) /\ Delivers(c, k, byPeer[k])
    BY <1>4 DEF Reject
  <2> QED
    BY <1>1, <1>2, <2>1, <2>2, <2>3, DetachKeeps
<1>5. ASSUME Event("at capacity"), Detach(c, k), UNCHANGED <<byPeer, sessions, watchers, unpublished, caller>>
      PROVE  SessionInv'
  <2>1. UNCHANGED <<stage, store, watchers, unpublished, deferred>> /\ events' \in Nat /\ events' # 0
    BY <1>1, <1>5, EventFacts DEF store
  <2>2. ~(events' = 0 /\ Calmly(c)) /\ caller' = caller
    BY <1>5, <2>1
  <2> QED
    BY <1>1, <1>2, <1>5, <2>1, <2>2, DetachKeeps
<1>6. \/ /\ ~IsActive(k) /\ SetupFails(c, k, "failed")
         /\ UNCHANGED <<byPeer, sessions, watchers, unpublished, events>>
      \/ IsActive(k) /\ ActiveIn(k) /\ NewWins(c, k) /\ Admit(c, k)
      \/ ActiveIn(k) /\ ~NewWins(c, k) /\ Reject(c, k)
      \/ IsActive(k) /\ ~ActiveIn(k) /\ Admit(c, k)
      \/ /\ Event("at capacity") /\ Detach(c, k)
         /\ UNCHANGED <<byPeer, sessions, watchers, unpublished, caller>>
  BY DEF Commit
<1> QED
  BY <1>1, <1>3, <1>4, <1>5, <1>6, AdmitKeeps

\* The slot of the kit is free or taken, and it has no live session: its
\* terminal entry is evicted.
LEMMA StartOrJoinKeeps ==
  ASSUME SessionInv, NEW c \in Attempts, StartOrJoin(c)
  PROVE  SessionInv'
<1> DEFINE k == Dialer(c)
           joins == caller' = [caller EXCEPT ![c].pc = "join", ![c].on = pending[k]]
           dials == pending' = [pending EXCEPT ![k] = c]
<1>1. /\ SessionType /\ Registered /\ LiveRegistered /\ k \in Kits /\ caller[c].pc = "ask" /\ ~ActiveIn(k)
      /\ PendingOwned /\ JoinersOwned /\ Undialed
  BY KitsFacts DEF SessionInv, StartOrJoin, At
<1>2. UNCHANGED <<stage, watchers, unpublished, end, deferred, events>>
  BY DEF StartOrJoin
<1>3. /\ byPeer' \in [Kits -> Attempts \cup {None}] /\ sessions' \in [Kits -> SUBSET Attempts]
      /\ byPeer'[k] = None /\ sessions'[k] = {}
      /\ \A x \in Kits : x # k => byPeer'[x] = byPeer[x] /\ sessions'[x] = sessions[x]
  <2>1. sessions[k] \ {byPeer[k]} = {}
    BY <1>1 DEF Registered
  <2>2. byPeer' = [byPeer EXCEPT ![k] = None] /\ sessions' = [sessions EXCEPT ![k] = sessions[k] \ {byPeer[k]}]
    BY DEF StartOrJoin
  <2> QED
    BY <1>1, <2>1, <2>2 DEF SessionType
<1>4. \A d \in Attempts : end[d][k] # "live"
  BY <1>1, KitsFacts DEF LiveRegistered, ActiveIn
<1>5. Registered' /\ LiveRegistered'
  <2>1. Registered'
    BY <1>1, <1>2, <1>3 DEF Registered
  <2>2. LiveRegistered'
    BY <1>1, <1>2, <1>3, <1>4 DEF LiveRegistered
  <2> QED
    BY <2>1, <2>2
<1>6. ASSUME pending[k] # None, joins, pending' = pending
      PROVE  SessionInv'
  <2>1. pending[k] \in Attempts /\ "join" \in Calls
    BY <1>1, <1>6 DEF SessionType, Calls
  <2>2. /\ caller' \in [Attempts -> Caller] /\ \A d \in Attempts : d # c => caller'[d] = caller[d]
        /\ caller'[c].pc = "join" /\ caller'[c].on = pending[k] /\ caller'[c].out = caller[c].out
    BY <1>1, <1>6, <2>1 DEF SessionType, Caller
  <2>3. SessionType'
    BY <1>1, <1>2, <1>3, <1>6, <2>2 DEF SessionType
  <2>4. caller[pending[k]].pc \in Transaction /\ pending[k] # c
    BY <1>1, <1>6 DEF PendingOwned, Transaction
  <2>5. PendingOwned'
    <3>1. \A x \in Kits : pending[x] # None => pending[x] # c /\ pending[x] \in Attempts
      BY <1>1 DEF PendingOwned, SessionType, Transaction
    <3>2. \A x \in Kits : pending[x] # None => Dialer(pending[x]) = x /\ caller'[pending[x]].pc \in Transaction
      BY <1>1, <2>2, <3>1 DEF PendingOwned
    <3>3. \A d \in Attempts : /\ caller'[d].pc = "join" => caller'[d].on \in Attempts
                              /\ caller'[d].pc \in Fresh => deferred[d] = "open"
      BY <1>1, <2>1, <2>2 DEF PendingOwned, Fresh, At
    <3> QED
      BY <1>2, <1>6, <3>2, <3>3 DEF PendingOwned, At
  <2>6. JoinersOwned'
    <3>1. ASSUME NEW d \in Attempts, caller'[d].pc = "join", deferred[caller'[d].on] = "open"
          PROVE  caller'[caller'[d].on].pc \in Transaction \cup {"complete"}
      <4>1. CASE d = c
        BY <2>1, <2>2, <2>4, <4>1
      <4>2. CASE d # c
        <5>1. caller'[d] = caller[d] /\ caller[d].on \in Attempts
          BY <1>1, <2>2, <3>1, <4>2 DEF PendingOwned, At
        <5>2. caller[caller[d].on].pc \in Transaction \cup {"complete"}
          BY <1>1, <3>1, <5>1 DEF JoinersOwned, At, Transaction
        <5>3. caller[d].on # c
          BY <1>1, <5>2 DEF Transaction
        <5> QED
          BY <2>2, <5>1, <5>2, <5>3
      <4> QED
        BY <4>1, <4>2
    <3>2. \A x \in Kits : pending[x] # None => deferred[pending[x]] = "open"
      BY <1>1 DEF JoinersOwned
    <3> QED
      BY <1>2, <1>6, <3>1, <3>2 DEF JoinersOwned, At, Transaction
  <2>7. Undialed'
    BY <1>1, <1>2, <2>2 DEF Undialed, Fresh
  <2>8. ASSUME events' = 0
        PROVE  Calm'
    <3>1. Calm
      BY <1>2, <2>8 DEF SessionInv, Uneventful
    <3>2. \E d \in Attempts : Dialed(d)
      BY <2>1, <2>4, <3>1 DEF Calm, Transaction
    <3>3. \A d \in Attempts : caller'[d].pc = "dial" <=> caller[d].pc = "dial"
      BY <1>1, <2>2
    <3>4. \A d \in Attempts : Dialed(d)' <=> Dialed(d)
      BY <1>2, <3>3 DEF Dialed
    <3>5. \A d \in Attempts : caller'[d].pc \in {"deliver", "end", "complete"} =>
                                 caller[d].pc \in {"deliver", "end", "complete"}
      BY <1>1, <2>2
    <3>6. \A y \in Kits : Smooth(y) => Smooth(y)'
      BY <1>1, <1>2, <1>6, <3>4, <3>5, SmoothKept
    <3>7. Smooth("smaller")' /\ (Smooth("larger") => Smooth("larger")')
      BY <3>1, <3>6, KitsFacts DEF Calm
    <3>8. \A d \in Attempts : /\ caller'[d].pc \notin {"gate", "rollback"}
                              /\ caller'[d].out # "rejected" /\ deferred'[d] # "rejected"
      BY <1>2, <2>2, <3>1 DEF Calm
    <3>9. unpublished' = {} /\ stage' = stage /\ \A d \in Attempts, x \in Kits : end'[d][x] = end[d][x]
      BY <1>2, <3>1 DEF Calm
    <3> QED
      BY <1>1, <3>1, <3>2, <3>3, <3>7, <3>8, <3>9, CalmKept
  <2> QED
    BY <1>5, <2>3, <2>5, <2>6, <2>7, <2>8 DEF SessionInv, Uneventful
<1>7. ASSUME pending[k] = None, dials, Goto(c, "dial")
      PROVE  SessionInv'
  <2>1. "dial" \in Calls
    BY DEF Calls, Transaction
  <2>2. /\ caller' \in [Attempts -> Caller] /\ \A d \in Attempts : d # c => caller'[d] = caller[d]
        /\ caller'[c].pc = "dial" /\ caller'[c].out = caller[c].out
    BY <1>1, <1>7, <2>1, GotoFields
  <2>3. /\ pending' \in [Kits -> Attempts \cup {None}] /\ pending'[k] = c
        /\ \A x \in Kits : x # k => pending'[x] = pending[x]
    BY <1>1, <1>7 DEF SessionType
  <2>4. SessionType'
    BY <1>1, <1>2, <1>3, <2>2, <2>3 DEF SessionType
  <2>5. PendingOwned'
    <3>1. \A x \in Kits : x # k /\ pending[x] # None => pending[x] # c /\ pending[x] \in Attempts
      BY <1>1 DEF PendingOwned, SessionType
    <3>2. \A x \in Kits : pending'[x] # None => Dialer(pending'[x]) = x /\ caller'[pending'[x]].pc \in Transaction
      BY <1>1, <2>2, <2>3, <3>1 DEF PendingOwned, Transaction
    <3>3. \A d \in Attempts : /\ caller'[d].pc = "join" => caller'[d].on \in Attempts
                              /\ caller'[d].pc \in Fresh => deferred[d] = "open"
      BY <1>1, <2>2 DEF PendingOwned, Fresh, At
    <3> QED
      BY <1>2, <3>2, <3>3 DEF PendingOwned, At
  <2>6. JoinersOwned'
    <3>1. deferred[c] = "open"
      BY <1>1 DEF PendingOwned, Fresh
    <3>2. \A x \in Kits : pending'[x] # None => deferred[pending'[x]] = "open"
      BY <1>1, <2>3, <3>1 DEF JoinersOwned
    <3>3. ASSUME NEW d \in Attempts, caller'[d].pc = "join", deferred[caller'[d].on] = "open"
          PROVE  caller'[caller'[d].on].pc \in Transaction \cup {"complete"}
      <4>1. d # c /\ caller'[d] = caller[d]
        BY <2>2, <3>3
      <4>2. caller[d].on \in Attempts
        BY <1>1, <3>3, <4>1 DEF PendingOwned, At
      <4>3. caller[caller[d].on].pc \in Transaction \cup {"complete"}
        BY <1>1, <3>3, <4>1 DEF JoinersOwned, At, Transaction
      <4> QED
        BY <2>2, <4>1, <4>2, <4>3 DEF Transaction
    <3> QED
      BY <1>2, <3>2, <3>3 DEF JoinersOwned, At, Transaction
  <2>7. Undialed'
    BY <1>1, <1>2, <2>2 DEF Undialed, Fresh
  <2>8. ASSUME events' = 0
        PROVE  Calm'
    <3>1. Calm
      BY <1>2, <2>8 DEF SessionInv, Uneventful
    <3>2. Dialed(c)' /\ \A d \in Attempts : d # c => (Dialed(d)' <=> Dialed(d))
      BY <1>2, <2>2 DEF Dialed
    <3>3. Smooth(k) => Smooth(k)'
      <4> SUFFICES ASSUME Smooth(k)
                   PROVE  Smooth(k)'
        OBVIOUS
      <4>1. \A d \in Attempts : Dialer(d) = k /\ Dialed(d)' => d = c
        BY <1>1, <1>4, <1>7, <3>2, KitsFacts DEF Smooth
      <4>2. \A d \in Attempts : caller'[d].pc \in {"deliver", "end", "complete"} => caller'[d] = caller[d]
        BY <2>2
      <4> QED
        BY <1>2, <2>3, <4>1, <4>2 DEF Smooth
    <3>4. \A y \in Kits : y # k /\ Smooth(y) => Smooth(y)'
      <4> SUFFICES ASSUME NEW y \in Kits, y # k, Smooth(y)
                   PROVE  Smooth(y)'
        OBVIOUS
      <4>1. \A d \in Attempts : Dialer(d) = y => (Dialed(d)' => Dialed(d)) /\ caller'[d] = caller[d]
        BY <2>2, <3>2
      <4> QED
        BY <1>1, <1>2, <2>3, <4>1, SmoothKept
    <3>5. Smooth("smaller")'
      BY <3>1, <3>3, <3>4, KitsFacts DEF Calm
    <3>6. (\A m \in Attempts : Dialer(m) = "smaller" => ~Dialed(m)') => Smooth("larger")'
      <4> SUFFICES ASSUME \A m \in Attempts : Dialer(m) = "smaller" => ~Dialed(m)'
                   PROVE  Smooth("larger")'
        OBVIOUS
      <4>1. \A m \in Attempts : Dialer(m) = "smaller" => ~Dialed(m)
        BY <3>2
      <4> QED
        BY <3>1, <3>3, <3>4, <4>1, KitsFacts DEF Calm
    <3>7. \A d \in Attempts : /\ caller'[d].pc \notin {"gate", "rollback"}
                              /\ caller'[d].out # "rejected" /\ deferred'[d] # "rejected"
      BY <1>2, <2>2, <3>1 DEF Calm
    <3> QED
      BY <1>2, <3>1, <3>2, <3>5, <3>6, <3>7 DEF Calm
  <2> QED
    BY <1>5, <2>4, <2>5, <2>6, <2>7, <2>8 DEF SessionInv, Uneventful
<1>8. (pending[k] # None /\ joins /\ pending' = pending) \/ (pending[k] = None /\ dials /\ Goto(c, "dial"))
  BY DEF StartOrJoin
<1> QED
  BY <1>6, <1>7, <1>8

LEMMA DialKeeps ==
  ASSUME SessionInv, NEW c \in Attempts, Dial(c)
  PROVE  SessionInv'
<1> DEFINE k == Dialer(c)
<1>1. /\ SessionType /\ "setup" \in Calls /\ "failed" \in Outs /\ caller[c].pc = "dial"
      /\ k \in Kits /\ Undialed
  BY KitsFacts DEF SessionInv, Dial, Calls, Transaction, Outs, At
<1>2. UNCHANGED <<stage, store, watchers, unpublished, deferred>>
  BY DEF Dial
<1>3. ASSUME Fails(c, "failed"), end' = end, events' \in Nat, events' # 0 \/ ~IsActive(k) \/ stage[Other(k)] = "drained",
             events' = 0 => events = 0
      PROVE  SessionInv'
  <2>1. /\ caller' \in [Attempts -> Caller] /\ \A d \in Attempts : d # c => caller'[d] = caller[d]
        /\ caller'[c].pc = "end"
    BY <1>1, <1>3, FailsFields
  <2>2. Steps(c)
    BY <1>1, <2>1 DEF Steps, Transaction, Fresh
  <2>3. events' # 0
    BY <1>1, <1>3, KitsFacts DEF SessionInv, Uneventful, Calm, IsActive
  <2> QED
    BY <1>2, <1>3, <2>1, <2>2, <2>3, CallOnly
<1>4. ASSUME Goto(c, "setup"), events' \in Nat, events' = 0 => events = 0,
             \/ end' = [end EXCEPT ![c] = [x \in Kits |-> "raw"]]
             \/ end' = [end EXCEPT ![c] = [x \in Kits |-> IF x = k THEN "raw" ELSE "closed"]] /\ events' # 0
      PROVE  SessionInv'
  <2>1. /\ caller' \in [Attempts -> Caller] /\ \A d \in Attempts : d # c => caller'[d] = caller[d]
        /\ caller'[c].pc = "setup" /\ caller'[c].out = caller[c].out
    BY <1>1, <1>4, GotoFields
  <2>2. /\ end' \in [Attempts -> [Kits -> Ends]] /\ \A d \in Attempts : d # c => end'[d] = end[d]
        /\ \A x \in Kits : end'[c][x] \in {"raw", "closed"} /\ (events' = 0 => end'[c][x] = "raw")
    BY <1>1, <1>4 DEF SessionType, Ends
  <2>3. \A x \in Kits : end[c][x] = "none"
    BY <1>1 DEF Undialed
  <2>4. SessionType'
    BY <1>1, <1>2, <1>4, <2>1, <2>2 DEF SessionType, store
  <2>5. Registered' /\ LiveRegistered'
    BY <1>2, <2>2, <2>3, StoreKept DEF SessionInv, store
  <2>6. \A d \in Attempts : Steps(d)
    BY <1>1, <2>1 DEF Steps, Transaction, Fresh
  <2>7. PendingOwned' /\ JoinersOwned'
    BY <1>2, <2>6, CallsKept DEF SessionInv, store
  <2>8. Undialed'
    BY <1>1, <2>1, <2>2 DEF Undialed, Fresh
  <2>9. ASSUME events' = 0
        PROVE  Calm'
    <3>1. Calm
      BY <1>4, <2>9 DEF SessionInv, Uneventful
    <3>2. \A d \in Attempts : Dialed(d)' <=> Dialed(d)
      BY <1>1, <2>1, <2>2, <2>9 DEF Dialed
    <3>3. \A d \in Attempts : end'[d]["smaller"] = "none" <=> end'[d]["larger"] = "none"
      BY <2>2, <2>9, <3>1, KitsFacts DEF Calm
    <3>4. \A y \in Kits : Smooth(y) => Smooth(y)'
      <4> SUFFICES ASSUME NEW y \in Kits, Smooth(y)
                   PROVE  Smooth(y)'
        OBVIOUS
      <4>1. \A d \in Attempts :
              /\ \A x \in Kits : end'[d][x] = end[d][x] \/ end'[d][x] \in {"raw", "setup", "started", "live"}
              /\ end[d][y] = "live" => end'[d][y] = "live"
              /\ caller'[d].pc \in {"deliver", "end", "complete"} => caller[d].pc \in {"deliver", "end", "complete"}
        BY <2>1, <2>2, <2>3, <2>9
      <4>2. pending' = pending
        BY <1>2 DEF store
      <4> QED
        BY <1>1, <3>2, <4>1, <4>2, SmoothKept
    <3>5. Smooth("smaller")' /\ (Smooth("larger") => Smooth("larger")')
      BY <3>1, <3>4, KitsFacts DEF Calm
    <3>6. \A d \in Attempts :
            /\ caller'[d].pc \notin {"gate", "rollback"}
            /\ caller'[d].out # "rejected" /\ deferred'[d] # "rejected"
            /\ caller'[d].pc \in {"idle", "ask"} \/ caller[d].pc \notin {"idle", "ask"}
      BY <1>1, <1>2, <2>1, <3>1 DEF Calm
    <3>7. unpublished' = {} /\ stage' = stage
      BY <1>2, <3>1 DEF Calm
    <3> QED
      BY <1>1, <3>1, <3>2, <3>3, <3>5, <3>6, <3>7, CalmSteps
  <2> QED
    BY <2>4, <2>5, <2>7, <2>8, <2>9 DEF SessionInv, Uneventful
<1>5. \/ /\ Goto(c, "setup")
         /\ \/ end' = [end EXCEPT ![c] = [x \in Kits |-> "raw"]] /\ events' = events
            \/ /\ Event("busy")
               /\ end' = [end EXCEPT ![c] = [x \in Kits |-> IF x = k THEN "raw" ELSE "closed"]]
      \/ (~IsActive(k) \/ stage[Other(k)] = "drained") /\ Fails(c, "failed") /\ end' = end /\ events' = events
      \/ (Event("dial fails") \/ Event("cancel")) /\ Fails(c, "failed") /\ end' = end
  BY DEF Dial
<1>6. events \in Nat
  BY <1>1 DEF SessionType
<1> QED
  BY <1>1, <1>3, <1>4, <1>5, <1>6, EventFacts

\* The entry of the peer goes with the session it names, which is not live.
LEMMA RemoveKeeps ==
  ASSUME SessionType, Registered, LiveRegistered, NEW s \in Attempts \cup {None}, NEW k \in Kits,
         RemoveIfMatches(k, s), UNCHANGED stage,
         \A d \in Attempts, x \in Kits : d # s \/ x # k =>
            end'[d][x] = end[d][x] /\ (d \in watchers[x] => d \in watchers'[x]),
         s \in Attempts => end'[s][k] # "live"
  PROVE  Registered' /\ LiveRegistered'
<1>1. /\ \A x \in Kits : x # k => byPeer'[x] = byPeer[x] /\ sessions'[x] = sessions[x]
      /\ byPeer[k] = s => byPeer'[k] = None
      /\ byPeer[k] # s => byPeer'[k] = byPeer[k]
      /\ \A x \in Kits : sessions'[x] = {byPeer'[x]} \ {None}
  BY RemoveFacts
<1>2. ASSUME NEW x \in Kits, byPeer'[x] # None
      PROVE  byPeer'[x] \in watchers'[x] /\ end'[byPeer'[x]][x] \in {"live", "closed"}
  <2>1. byPeer'[x] = byPeer[x] /\ byPeer[x] \in Attempts /\ (byPeer[x] # s \/ x # k)
    BY <1>1, <1>2 DEF SessionType
  <2>2. byPeer[x] \in watchers[x] /\ end[byPeer[x]][x] \in {"live", "closed"}
    BY <1>2, <2>1 DEF Registered
  <2> QED
    BY <2>1, <2>2
<1>3. ASSUME NEW d \in Attempts, NEW x \in Kits, end'[d][x] = "live"
      PROVE  byPeer'[x] = d /\ d \in sessions'[x] /\ stage'[x] # "drained"
  <2>1. (d # s \/ x # k) /\ end[d][x] = "live"
    BY <1>3
  <2>2. byPeer[x] = d /\ stage[x] # "drained"
    BY <2>1 DEF LiveRegistered
  <2>3. byPeer'[x] = d
    BY <1>1, <2>1, <2>2
  <2> QED
    BY <1>1, <2>2, <2>3, KitsFacts
<1> QED
  BY <1>1, <1>2, <1>3 DEF Registered, LiveRegistered

LEMMA UnpublishKeeps ==
  ASSUME SessionInv, NEW c \in Attempts, Unpublish(c)
  PROVE  SessionInv'
<1> DEFINE k == Other(Dialer(c))
<1>1. /\ SessionType /\ Registered /\ LiveRegistered /\ k \in Kits /\ c \in Attempts \cup {None}
      /\ c \in unpublished /\ unpublished' = unpublished \ {c} /\ RemoveIfMatches(k, c) /\ Detach(c, k)
  BY KitsFacts DEF SessionInv, Unpublish
<1>2. UNCHANGED <<stage, pending, watchers, deferred, caller, events>>
  BY DEF Unpublish
<1>3. /\ end' \in [Attempts -> [Kits -> Ends]] /\ end'[c][k] # "live"
      /\ \A d \in Attempts, x \in Kits : d # c \/ x # k => end'[d][x] = end[d][x]
      /\ end'[c][k] = "none" <=> end[c][k] = "none"
  BY <1>1, DetachFields
<1>4. SessionType'
  BY <1>1, <1>2, <1>3, RemoveFacts DEF SessionType
<1>5. Registered' /\ LiveRegistered'
  BY <1>1, <1>2, <1>3, RemoveKeeps
<1>6. PendingOwned' /\ JoinersOwned'
  <2>1. \A d \in Attempts : Steps(d)
    BY <1>2 DEF Steps
  <2> QED
    BY <1>1, <1>2, <2>1, CallsKept DEF SessionInv
<1>7. Undialed'
  BY <1>2, <1>3 DEF SessionInv, Undialed
<1>8. events' # 0
  BY <1>1, <1>2 DEF SessionInv, Uneventful, Calm
<1> QED
  BY <1>4, <1>5, <1>6, <1>7, <1>8 DEF SessionInv, Uneventful

LEMMA RollbackKeeps ==
  ASSUME SessionInv, NEW c \in Attempts, Rollback(c)
  PROVE  SessionInv'
<1> DEFINE k == Dialer(c)
           s == caller[c].on
<1>1. /\ SessionType /\ Registered /\ LiveRegistered /\ k \in Kits /\ caller[c].pc = "rollback"
      /\ RemoveIfMatches(k, s) /\ Detach(s, k) /\ Fails(c, "failed") /\ "failed" \in Outs
  BY KitsFacts DEF SessionInv, Rollback, At, Outs
<1>2. UNCHANGED <<stage, pending, watchers, unpublished, deferred, events>>
  BY DEF Rollback
<1>3. s \in Attempts \cup {None}
  BY <1>1 DEF SessionType, Caller
<1>4. /\ end' \in [Attempts -> [Kits -> Ends]] /\ (s \in Attempts => end'[s][k] # "live")
      /\ \A d \in Attempts, x \in Kits : d # s \/ x # k => end'[d][x] = end[d][x]
      /\ s \in Attempts => (end'[s][k] = "none" <=> end[s][k] = "none")
  BY <1>1, <1>3, DetachFields
<1>5. /\ caller' \in [Attempts -> Caller] /\ \A d \in Attempts : d # c => caller'[d] = caller[d]
      /\ caller'[c].pc = "end"
  BY <1>1, FailsFields
<1>6. SessionType'
  BY <1>1, <1>2, <1>3, <1>4, <1>5, RemoveFacts DEF SessionType
<1>7. Registered' /\ LiveRegistered'
  BY <1>1, <1>2, <1>3, <1>4, RemoveKeeps
<1>8. PendingOwned' /\ JoinersOwned'
  <2>1. \A d \in Attempts : Steps(d)
    BY <1>1, <1>5 DEF Steps, Transaction, Fresh
  <2> QED
    BY <1>1, <1>2, <2>1, CallsKept DEF SessionInv
<1>9. Undialed'
  BY <1>4, <1>5 DEF SessionInv, Undialed, Fresh
<1>10. events' # 0
  BY <1>1, <1>2 DEF SessionInv, Uneventful, Calm
<1> QED
  BY <1>6, <1>7, <1>8, <1>9, <1>10 DEF SessionInv, Uneventful

LEMMA WatchKeeps ==
  ASSUME SessionInv, NEW c \in Attempts, NEW k \in Kits, Watch(c, k)
  PROVE  SessionInv'
<1>1. /\ SessionType /\ Registered /\ LiveRegistered /\ end[c][k] = "closed" /\ RemoveIfMatches(k, c)
      /\ watchers' = [watchers EXCEPT ![k] = watchers[k] \ {c}]
  BY DEF SessionInv, Watch
<1>2. UNCHANGED <<stage, pending, unpublished, end, deferred, caller, events>>
  BY DEF Watch
<1>3. watchers' \in [Kits -> SUBSET Attempts] /\ \A d, x : (d # c \/ x # k) /\ x \in Kits /\ d \in watchers[x] => d \in watchers'[x]
  BY <1>1 DEF SessionType
<1>4. SessionType'
  BY <1>1, <1>2, <1>3, RemoveFacts DEF SessionType
<1>5. Registered' /\ LiveRegistered'
  BY <1>1, <1>2, <1>3, RemoveKeeps
<1>6. PendingOwned' /\ JoinersOwned' /\ Undialed' /\ Uneventful'
  BY <1>2 DEF SessionInv, PendingOwned, JoinersOwned, Undialed, Uneventful, Calm, Smooth, Dialed, At
<1> QED
  BY <1>4, <1>5, <1>6 DEF SessionInv

LEMMA EndPendingKeeps ==
  ASSUME SessionInv, NEW c \in Attempts, EndPending(c)
  PROVE  SessionInv'
<1> DEFINE k == Dialer(c)
<1>1. /\ SessionType /\ k \in Kits /\ caller[c].pc = "end" /\ Goto(c, "complete") /\ "complete" \in Calls
      /\ PendingOwned /\ JoinersOwned /\ Undialed
  BY KitsFacts DEF SessionInv, EndPending, At, Calls
<1>2. UNCHANGED <<stage, byPeer, sessions, watchers, unpublished, end, deferred, events>>
  BY DEF EndPending
<1>3. /\ pending' \in [Kits -> Attempts \cup {None}] /\ \A x \in Kits : x # k => pending'[x] = pending[x]
      /\ pending'[k] = IF pending[k] = c THEN None ELSE pending[k]
  <2>1. pending' = [pending EXCEPT ![k] = IF pending[k] = c THEN None ELSE pending[k]]
    BY DEF EndPending
  <2> QED
    BY <1>1, <2>1 DEF SessionType
<1>4. /\ caller' \in [Attempts -> Caller] /\ \A d \in Attempts : d # c => caller'[d] = caller[d]
      /\ caller'[c].pc = "complete" /\ caller'[c].out = caller[c].out
  BY <1>1, GotoFields
<1>5. SessionType'
  BY <1>1, <1>2, <1>3, <1>4 DEF SessionType
<1>6. Registered' /\ LiveRegistered'
  BY <1>2, StoreKept DEF SessionInv
<1>7. \A x \in Kits : pending'[x] # None => pending'[x] = pending[x] /\ pending[x] # c /\ pending[x] \in Attempts
  BY <1>1, <1>3 DEF PendingOwned, SessionType
<1>8. PendingOwned'
  <2>1. \A x \in Kits : pending'[x] # None => Dialer(pending'[x]) = x /\ caller'[pending'[x]].pc \in Transaction
    BY <1>1, <1>4, <1>7 DEF PendingOwned
  <2>2. \A d \in Attempts : /\ caller'[d].pc = "join" => caller'[d].on \in Attempts
                            /\ caller'[d].pc \in Fresh => deferred[d] = "open"
    BY <1>1, <1>4 DEF PendingOwned, Fresh, At
  <2> QED
    BY <1>2, <2>1, <2>2 DEF PendingOwned, At
<1>9. JoinersOwned'
  <2>1. \A x \in Kits : pending'[x] # None => deferred[pending'[x]] = "open"
    BY <1>1, <1>7 DEF JoinersOwned
  <2>2. ASSUME NEW d \in Attempts, caller'[d].pc = "join", deferred[caller'[d].on] = "open"
        PROVE  caller'[caller'[d].on].pc \in Transaction \cup {"complete"}
    <3>1. caller'[d] = caller[d] /\ caller[d].on \in Attempts
      BY <1>1, <1>4, <2>2 DEF PendingOwned, At
    <3>2. caller[caller[d].on].pc \in Transaction \cup {"complete"}
      BY <1>1, <2>2, <3>1 DEF JoinersOwned, At, Transaction
    <3> QED
      BY <1>4, <3>1, <3>2
  <2> QED
    BY <1>2, <2>1, <2>2 DEF JoinersOwned, At, Transaction
<1>10. Undialed'
  BY <1>1, <1>2, <1>4 DEF Undialed, Fresh
<1>11. ASSUME events' = 0
       PROVE  Calm'
  <2>1. Calm
    BY <1>2, <1>11 DEF SessionInv, Uneventful
  <2>2. \A d \in Attempts : caller'[d].pc = "dial" <=> caller[d].pc = "dial"
    BY <1>1, <1>4
  <2>3. \A d \in Attempts : Dialed(d)' <=> Dialed(d)
    BY <1>2, <2>2 DEF Dialed
  <2>4. \A y \in Kits : Smooth(y) => Smooth(y)'
    <3> SUFFICES ASSUME NEW y \in Kits, Smooth(y)
                 PROVE  Smooth(y)'
      OBVIOUS
    <3>1. \A d \in Attempts : caller'[d].pc \in {"deliver", "end", "complete"} =>
                                 caller[d].pc \in {"deliver", "end", "complete"}
      BY <1>1, <1>4
    <3>2. y = k => end[c][y] = "live"
      BY <1>1 DEF Smooth
    <3>3. \A d \in Attempts : Dialer(d) = y /\ pending[y] = d => pending'[y] = d \/ end'[d][y] = "live"
      BY <1>2, <1>3, <3>2
    <3> QED
      BY <1>1, <1>2, <2>3, <3>1, <3>3, SmoothKept
  <2>5. Smooth("smaller")' /\ (Smooth("larger") => Smooth("larger")')
    BY <2>1, <2>4, KitsFacts DEF Calm
  <2>6. \A d \in Attempts :
          /\ caller'[d].pc \notin {"gate", "rollback"}
          /\ caller'[d].out # "rejected" /\ deferred'[d] # "rejected"
          /\ caller'[d].pc \in {"idle", "ask"} \/ caller[d].pc \notin {"idle", "ask"}
    BY <1>1, <1>2, <1>4, <2>1 DEF Calm
  <2>7. unpublished' = {} /\ stage' = stage /\ \A d \in Attempts, x \in Kits : end'[d][x] = end[d][x]
    BY <1>2, <2>1 DEF Calm
  <2> QED
    BY <1>1, <2>1, <2>2, <2>5, <2>6, <2>7, CalmKept
<1> QED
  BY <1>5, <1>6, <1>8, <1>9, <1>10, <1>11 DEF SessionInv, Uneventful

LEMMA CompleteKeeps ==
  ASSUME SessionInv, NEW c \in Attempts, Complete(c)
  PROVE  SessionInv'
<1> DEFINE pc == IF caller[c].out = "completed" THEN "returned" ELSE "failed"
<1>1. /\ SessionType /\ caller[c].pc = "complete" /\ Goto(c, pc) /\ pc \in Calls
      /\ PendingOwned /\ JoinersOwned /\ Undialed
  BY DEF SessionInv, Complete, At, Calls
<1>2. UNCHANGED <<stage, store, watchers, unpublished, end, events>>
  BY DEF Complete
<1>3. caller[c].out \in Outs
  BY <1>1 DEF SessionType, Caller
<1>4. /\ deferred' \in [Attempts -> Outs \cup {"open"}] /\ \A d \in Attempts : d # c => deferred'[d] = deferred[d]
      /\ deferred'[c] # "open" /\ deferred'[c] \in {deferred[c], caller[c].out}
  <2>1. deferred' = [deferred EXCEPT ![c] = IF deferred[c] = "open" THEN caller[c].out ELSE deferred[c]]
    BY DEF Complete
  <2> QED
    BY <1>1, <1>3, <2>1 DEF SessionType, Outs
<1>5. /\ caller' \in [Attempts -> Caller] /\ \A d \in Attempts : d # c => caller'[d] = caller[d]
      /\ caller'[c].pc \in {"returned", "failed"} /\ caller'[c].out = caller[c].out
  BY <1>1, GotoFields
<1>6. SessionType'
  BY <1>1, <1>2, <1>4, <1>5 DEF SessionType, store
<1>7. Registered' /\ LiveRegistered'
  BY <1>2, StoreKept DEF SessionInv, store
<1>8. pending' = pending /\ \A x \in Kits : pending[x] # None => pending[x] # c /\ pending[x] \in Attempts
  BY <1>1, <1>2 DEF PendingOwned, SessionType, store, Transaction
<1>9. PendingOwned'
  <2>1. \A x \in Kits : pending[x] # None => Dialer(pending[x]) = x /\ caller'[pending[x]].pc \in Transaction
    BY <1>1, <1>5, <1>8 DEF PendingOwned
  <2>2. \A d \in Attempts : /\ caller'[d].pc = "join" => caller'[d].on \in Attempts
                            /\ caller'[d].pc \in Fresh => deferred'[d] = "open"
    BY <1>1, <1>4, <1>5 DEF PendingOwned, Fresh, At
  <2> QED
    BY <1>8, <2>1, <2>2 DEF PendingOwned, At
<1>10. JoinersOwned'
  <2>1. \A x \in Kits : pending[x] # None => deferred'[pending[x]] = "open"
    BY <1>1, <1>4, <1>8 DEF JoinersOwned
  <2>2. ASSUME NEW d \in Attempts, caller'[d].pc = "join", deferred'[caller'[d].on] = "open"
        PROVE  caller'[caller'[d].on].pc \in Transaction \cup {"complete"}
    <3>1. caller'[d] = caller[d] /\ caller[d].on \in Attempts
      BY <1>1, <1>5, <2>2 DEF PendingOwned, At
    <3>2. caller[d].on # c /\ deferred[caller[d].on] = "open"
      BY <1>4, <2>2, <3>1
    <3>3. caller[caller[d].on].pc \in Transaction \cup {"complete"}
      BY <1>1, <2>2, <3>1, <3>2 DEF JoinersOwned, At, Transaction
    <3> QED
      BY <1>5, <3>1, <3>2, <3>3
  <2> QED
    BY <1>8, <2>1, <2>2 DEF JoinersOwned, At, Transaction
<1>11. Undialed'
  BY <1>1, <1>2, <1>5 DEF Undialed, Fresh
<1>12. ASSUME events' = 0
       PROVE  Calm'
  <2>1. Calm
    BY <1>2, <1>12 DEF SessionInv, Uneventful
  <2>2. \A d \in Attempts : caller'[d].pc = "dial" <=> caller[d].pc = "dial"
    BY <1>1, <1>5
  <2>3. \A d \in Attempts : Dialed(d)' <=> Dialed(d)
    BY <1>2, <2>2 DEF Dialed
  <2>4. \A y \in Kits : Smooth(y) => Smooth(y)'
    <3>1. \A d \in Attempts : caller'[d].pc \in {"deliver", "end", "complete"} =>
                                 caller[d].pc \in {"deliver", "end", "complete"}
      BY <1>5
    <3> QED
      BY <1>1, <1>2, <1>8, <2>3, <3>1, SmoothKept
  <2>5. Smooth("smaller")' /\ (Smooth("larger") => Smooth("larger")')
    BY <2>1, <2>4, KitsFacts DEF Calm
  <2>6. \A d \in Attempts :
          /\ caller'[d].pc \notin {"gate", "rollback"}
          /\ caller'[d].out # "rejected" /\ deferred'[d] # "rejected"
          /\ caller'[d].pc \in {"idle", "ask"} \/ caller[d].pc \notin {"idle", "ask"}
    BY <1>1, <1>4, <1>5, <2>1 DEF Calm
  <2>7. unpublished' = {} /\ stage' = stage /\ \A d \in Attempts, x \in Kits : end'[d][x] = end[d][x]
    BY <1>2, <2>1 DEF Calm
  <2> QED
    BY <1>1, <2>1, <2>2, <2>5, <2>6, <2>7, CalmKept
<1> QED
  BY <1>6, <1>7, <1>9, <1>10, <1>11, <1>12 DEF SessionInv, Uneventful

\* Stop and Seal move the stage of the kit and nothing the store knows.
LEMMA StageKeeps ==
  ASSUME SessionInv, NEW k \in Kits, NEW s \in {"stopping", "sealed"},
         stage' = [stage EXCEPT ![k] = s], events' \in Nat, events' # 0,
         UNCHANGED <<store, watchers, unpublished, end, deferred, caller>>
  PROVE  SessionInv'
<1>1. SessionType'
  BY DEF SessionInv, SessionType, store
<1>2. Registered' /\ LiveRegistered'
  <2>1. \A x \in Kits : stage'[x] = "drained" => stage[x] = "drained"
    BY DEF SessionInv, SessionType
  <2> QED
    BY <2>1, StoreKept DEF SessionInv, store
<1>3. PendingOwned' /\ JoinersOwned' /\ Undialed'
  BY DEF SessionInv, PendingOwned, JoinersOwned, Undialed, At, store
<1> QED
  BY <1>1, <1>2, <1>3 DEF SessionInv, Uneventful

LEMMA StopKeeps ==
  ASSUME SessionInv, NEW k \in Kits, Stop(k)
  PROVE  SessionInv'
<1>1. events' \in Nat /\ events' # 0
  BY EventFacts DEF SessionInv, Stop
<1> QED
  BY <1>1, StageKeeps DEF Stop

LEMMA SealKeeps ==
  ASSUME SessionInv, NEW k \in Kits, Seal(k)
  PROVE  SessionInv'
<1>1. events' = events /\ stage[k] = "stopping"
  BY DEF Seal
<1>2. events' \in Nat /\ events' # 0
  BY <1>1 DEF SessionInv, SessionType, Uneventful, Calm
<1> QED
  BY <1>2, StageKeeps DEF Seal

LEMMA DrainKeeps ==
  ASSUME SessionInv, NEW k \in Kits, DrainForShutdown(k)
  PROVE  SessionInv'
<1>1. /\ SessionType /\ Registered /\ LiveRegistered /\ PendingOwned /\ JoinersOwned /\ Undialed
      /\ stage[k] = "sealed" /\ stage' = [stage EXCEPT ![k] = "drained"]
      /\ UNCHANGED <<watchers, unpublished, caller, events>>
  BY DEF SessionInv, DrainForShutdown
<1>2. /\ byPeer' \in [Kits -> Attempts \cup {None}] /\ sessions' \in [Kits -> SUBSET Attempts]
      /\ pending' \in [Kits -> Attempts \cup {None}]
      /\ byPeer'[k] = None /\ sessions'[k] = {} /\ pending'[k] = None
      /\ \A x \in Kits : x # k => byPeer'[x] = byPeer[x] /\ sessions'[x] = sessions[x] /\ pending'[x] = pending[x]
  BY <1>1 DEF DrainForShutdown, SessionType
<1>3. /\ stage' \in [Kits -> {"running", "stopping", "sealed", "drained"}]
      /\ \A x \in Kits : x # k => stage'[x] = stage[x]
  BY <1>1 DEF SessionType
<1>4. /\ deferred' \in [Attempts -> Outs \cup {"open"}]
      /\ \A c \in Attempts : /\ c # pending[k] => deferred'[c] = deferred[c]
                             /\ deferred'[c] = "open" => deferred[c] = "open"
  <2>1. deferred' = [c \in Attempts |-> IF c = pending[k] /\ deferred[c] = "open" THEN "failed" ELSE deferred[c]]
    BY DEF DrainForShutdown
  <2> QED
    BY <1>1, <2>1 DEF SessionType, Outs
<1>5. /\ end' \in [Attempts -> [Kits -> Ends]]
      /\ \A c \in Attempts, x \in Kits : x # k => end'[c][x] = end[c][x]
      /\ \A c \in Attempts : end'[c][k] # "live" /\ (end'[c][k] = "none" <=> end[c][k] = "none")
  <2> DEFINE new(c, s) == IF c \in sessions[k] \cup {byPeer[k]} /\ s = "live" THEN "detached" ELSE s
  <2>1. end' = [c \in Attempts |-> [end[c] EXCEPT ![k] = new(c, end[c][k])]]
    BY DEF DrainForShutdown
  <2>2. \A c \in Attempts : /\ new(c, end[c][k]) \in Ends /\ new(c, end[c][k]) # "live"
                            /\ new(c, end[c][k]) = "none" <=> end[c][k] = "none"
    BY <1>1 DEF SessionType, Ends, LiveRegistered
  <2> HIDE DEF new
  <2> QED
    BY <1>1, <2>1, <2>2 DEF SessionType
<1>6. SessionType'
  BY <1>1, <1>2, <1>3, <1>4, <1>5 DEF SessionType
<1>7. Registered'
  <2>1. ASSUME NEW x \in Kits, x # k, byPeer'[x] # None
        PROVE  byPeer'[x] \in watchers'[x] /\ end'[byPeer'[x]][x] \in {"live", "closed"}
    <3>1. byPeer'[x] = byPeer[x] /\ byPeer[x] \in Attempts
      BY <1>1, <1>2, <2>1 DEF SessionType
    <3> QED
      BY <1>1, <1>5, <2>1, <3>1 DEF Registered
  <2> QED
    BY <1>1, <1>2, <2>1 DEF Registered
<1>8. LiveRegistered'
  BY <1>1, <1>2, <1>3, <1>5 DEF LiveRegistered
<1>9. \A x \in Kits : pending'[x] # None => x # k /\ pending'[x] = pending[x] /\ pending[x] # pending[k]
  BY <1>1, <1>2 DEF PendingOwned
<1>10. \A c \in Attempts : caller[c].pc \in Fresh => deferred'[c] = "open"
  BY <1>1, <1>4, KitsFacts DEF PendingOwned, Fresh, Transaction
<1>11. PendingOwned'
  BY <1>1, <1>9, <1>10 DEF PendingOwned, At
<1>12. JoinersOwned'
  <2>1. \A x \in Kits : pending'[x] # None => deferred'[pending'[x]] = "open"
    BY <1>1, <1>4, <1>9 DEF JoinersOwned, SessionType
  <2>2. \A c \in Attempts : At(c, "join") /\ deferred'[caller[c].on] = "open" => deferred[caller[c].on] = "open"
    BY <1>1, <1>4 DEF PendingOwned
  <2> QED
    BY <1>1, <2>1, <2>2 DEF JoinersOwned, At
<1>13. Undialed'
  BY <1>1, <1>5 DEF Undialed
<1>14. events' # 0
  BY <1>1 DEF SessionInv, Uneventful, Calm
<1> QED
  BY <1>6, <1>7, <1>8, <1>11, <1>12, <1>13, <1>14 DEF SessionInv, Uneventful

-----------------------------------------------------------------------------

LEMMA SessionInvHolds == Spec => []SessionInv
<1>1. Init => SessionInv
  <2> SUFFICES ASSUME Init
               PROVE  SessionInv
    OBVIOUS
  <2>1. /\ stage = [k \in Kits |-> "running"] /\ byPeer = [k \in Kits |-> None]
        /\ sessions = [k \in Kits |-> {}] /\ pending = [k \in Kits |-> None] /\ watchers = [k \in Kits |-> {}]
        /\ unpublished = {} /\ end = [c \in Attempts |-> [k \in Kits |-> "none"]]
        /\ deferred = [c \in Attempts |-> "open"] /\ events = 0
    BY DEF Init
  <2>2. \A c \in Attempts : caller[c].pc = "idle" /\ caller[c].on = None /\ caller[c].out = "completed"
    BY DEF Init
  <2>3. caller \in [Attempts -> Caller]
    BY DEF Init, Caller, Calls, Outs
  <2>4. SessionType
    BY <2>1, <2>3 DEF SessionType, Ends
  <2>5. Registered /\ LiveRegistered
    BY <2>1 DEF Registered, LiveRegistered
  <2>6. PendingOwned /\ JoinersOwned /\ Undialed
    BY <2>1, <2>2 DEF PendingOwned, JoinersOwned, Undialed, At
  <2>7. \A c \in Attempts : ~Dialed(c)
    BY <2>1, <2>2, KitsFacts DEF Dialed
  <2>8. \A k \in Kits : Smooth(k)
    BY <2>1, <2>2, <2>7 DEF Smooth
  <2>9. Uneventful
    BY <2>1, <2>2, <2>8, KitsFacts DEF Uneventful, Calm
  <2> QED
    BY <2>4, <2>5, <2>6, <2>9 DEF SessionInv
<1>2. SessionInv /\ [Next]_vars => SessionInv'
  <2> SUFFICES ASSUME SessionInv, [Next]_vars
               PROVE  SessionInv'
    OBVIOUS
  <2>1. CASE \E c \in Attempts : CallStep(c) \/ Unpublish(c)
    <3> PICK c \in Attempts : CallStep(c) \/ Unpublish(c)
      BY <2>1
    <3> QED
      BY ConnectKeeps, JoinExistingKeeps, StartOrJoinKeeps, DialKeeps, DeliverKeeps, RollbackKeeps,
         EndPendingKeeps, CompleteKeeps, JoinedKeeps, CheckKeeps, UnpublishKeeps DEF CallStep
  <2>2. CASE \E c \in Attempts, k \in Kits : EndStep(c, k)
    <3> PICK c \in Attempts, k \in Kits : EndStep(c, k)
      BY <2>2
    <3> QED
      BY EnterSetupKeeps, HandshakeKeeps, CancelSetupKeeps, CommitKeeps, CloseDetachedKeeps,
         PeerClosedKeeps, SessionEndsKeeps, WatchKeeps DEF EndStep
  <2>3. CASE \E k \in Kits : Stop(k) \/ Seal(k) \/ DrainForShutdown(k)
    BY <2>3, StopKeeps, SealKeeps, DrainKeeps
  <2>4. CASE UNCHANGED vars
    BY <2>4 DEF SessionInv, SessionType, Registered, PendingOwned, Undialed, Uneventful, Calm, Smooth,
                Dialed, LiveRegistered, JoinersOwned, At, ActiveIn, vars, store
  <2> QED
    BY <2>1, <2>2, <2>3, <2>4 DEF Next
<1> QED
  BY <1>1, <1>2, PTL DEF Spec

\* A quiet pair of running kits agrees.
LEMMA QuietAgrees ==
  ASSUME SessionInv
  PROVE  Converges
<1> SUFFICES ASSUME Quiescent, \A k \in Kits : IsActive(k)
             PROVE  /\ byPeer["smaller"] = byPeer["larger"]
                    /\ \A k \in Kits : sessions[k] = {byPeer[k]} \ {None}
                    /\ events = 0 /\ (\E c \in Attempts : caller[c].pc # "idle") => byPeer["smaller"] # None
  BY DEF Converges
<1>1. SessionType /\ Registered /\ LiveRegistered /\ PendingOwned /\ Uneventful
  BY DEF SessionInv
\* A registered session is watched, so in the quiet it is live, and so is its
\* other end, which the other kit therefore has registered.
<1>2. ASSUME NEW k \in Kits, byPeer[k] # None
      PROVE  byPeer[Other(k)] = byPeer[k]
  <2>1. byPeer[k] \in Attempts /\ byPeer[k] \in watchers[k] /\ end[byPeer[k]][k] \in {"live", "closed"}
    BY <1>1, <1>2 DEF SessionType, Registered
  <2>2. end[byPeer[k]][k] = "live" /\ end[byPeer[k]][Other(k)] = "live"
    BY <2>1 DEF Quiescent
  <2> QED
    BY <1>1, <2>1, <2>2, KitsFacts DEF LiveRegistered
<1>3. byPeer["smaller"] = byPeer["larger"]
  BY <1>2, KitsFacts DEF Other
<1>4. \A k \in Kits : sessions[k] = {byPeer[k]} \ {None}
  BY <1>1 DEF Registered
<1>5. ASSUME events = 0, NEW c \in Attempts, caller[c].pc # "idle"
      PROVE  byPeer["smaller"] # None
  <2>1. Calm
    BY <1>1, <1>5 DEF Uneventful
  <2>2. \E d \in Attempts : Dialed(d)
    BY <1>5, <2>1 DEF Calm, Quiescent
  <2>3. PICK d \in Attempts : Dialed(d) /\ Calmly(d)
    BY <2>2, KitsFacts DEF Calmly
  <2>4. \A k \in Kits : pending[k] = None
    <3> SUFFICES ASSUME NEW k \in Kits, pending[k] # None
                 PROVE  FALSE
      OBVIOUS
    <3>1. pending[k] \in Attempts /\ caller[pending[k]].pc \in Transaction
      BY <1>1 DEF SessionType, PendingOwned
    <3> QED
      BY <3>1 DEF Quiescent, Transaction
  <2>5. Smooth(Dialer(d)) /\ Dialer(d) \in Kits
    BY <1>5, <2>3, CalmlySmooth, KitsFacts
  <2>6. end[d][Dialer(d)] = "live"
    BY <2>3, <2>4, <2>5, KitsFacts DEF Smooth
  <2>7. byPeer[Dialer(d)] = d
    BY <1>1, <2>5, <2>6 DEF LiveRegistered
  <2> QED
    BY <1>3, <2>5, <2>7, KitsFacts
<1> QED
  BY <1>3, <1>4, <1>5

\* Two kits that connect to each other in any order, with any number of calls
\* and whatever fails, end with the same connection, registered and published
\* at both; when nothing failed there is one (tryRegister's tie-break).
THEOREM SessionConverges == Spec => []Converges
BY SessionInvHolds, QuietAgrees, PTL

\* A live session is the one its kit has registered and published, through
\* replacement, rollback, the watcher and shutdown.
THEOREM SessionLiveRegistered == Spec => []LiveRegistered
<1>1. SessionInv => LiveRegistered
  BY DEF SessionInv
<1> QED
  BY <1>1, SessionInvHolds, PTL

\* Nobody waits on an attempt that is over: the slot names an open attempt, and
\* who joined an open attempt waits on a connector still in its transaction.
THEOREM SessionJoinersOwned == Spec => []JoinersOwned
<1>1. SessionInv => JoinersOwned
  BY DEF SessionInv
<1> QED
  BY <1>1, SessionInvHolds, PTL
=============================================================================
