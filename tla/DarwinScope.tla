----------------------------- MODULE DarwinScope -----------------------------
(* DarwinScope of scripts/audit_processes.py: PosixScope on macOS.  There is  *)
(* no pidfd, and the system hides the environment of restricted executables,  *)
(* so a process is owned by its marker, by a pipe it inherited, or by descent *)
(* from an owned lifetime as the kernel remembers it.  A process that gives   *)
(* none of these proofs is not thereby foreign: it stays unclassified, and    *)
(* the drain cannot succeed.  Signals need a fresh audit token.               *)
(*                                                                            *)
(* Start times are the kernel's unique ids, and os[p].marked is the truth     *)
(* that the scope tries to find out: p descends from the leader.  The         *)
(* identity of a process of this user is assumed to be readable.              *)
EXTENDS AuditProcesses

VARIABLES
  kin,      \* kernel: unique id -> [parent, env, pipe, session] of a running process
  gate,     \* the exec gate in front of the leader
  history,  \* self.identity_history: unique id -> its parent when last read
  unsent,   \* active_drain["pending"]: lifetimes no token was found for
  token     \* the lifetime the acquired audit token names

darwinVars == <<kin, gate, history, unsent, token>>

Reaper == 0               \* launchd
Self == MaxStarts + 1     \* the controller, which is in its own baseline
Outsider == [parent |-> Reaper, env |-> FALSE, pipe |-> FALSE, session |-> "same"]

DarwinInit ==
  /\ kin = [u \in 1 .. MaxStarts |-> Outsider]
  /\ gate = "none" /\ unsent = {} /\ token = NoKey
  /\ history = [u \in {k[2] : k \in baseline} |-> Reaper]

Of(k) == kin[k[2]]
Gone(u) == u # Self /\ \A p \in Pids : os[p].start # u \/ ~os[p].run
Denied == denials < MaxDenials /\ denials' = denials + 1
Allowed == UNCHANGED denials

-----------------------------------------------------------------------------
(* The operating system.                                                      *)

\* The gate program neither forks nor executes before it is released.
Gated(p) == Key(p) = leader /\ gate # "released"

DarwinFork(p, q) ==
  /\ ~Gated(p) /\ Fork(p, q)
  /\ kin' = [kin EXCEPT ![starts + 1] = [kin[os[p].start] EXCEPT !.parent = os[p].start]]
  /\ UNCHANGED <<gate, history, unsent, token>>

\* Services of launchd may live in an audit session of their own.
DarwinForeign(q) ==
  /\ StartForeign(q)
  /\ \/ \E s \in {"same", "other"} : kin' = [kin EXCEPT ![starts + 1] = [Outsider EXCEPT !.session = s]]
     \/ \E p \in Pids : /\ os[p].run /\ ~os[p].marked
                        /\ kin' = [kin EXCEPT ![starts + 1] = [Outsider EXCEPT !.parent = os[p].start]]
  /\ UNCHANGED <<gate, history, unsent, token>>

DarwinExit(p) ==
  /\ Exit(p) /\ kin' = [kin EXCEPT ![os[p].start] = Outsider]
  /\ UNCHANGED <<gate, history, unsent, token>>

\* A restricted program hides the environment, some tools close inherited
\* descriptors, and the parent of an orphan may become launchd.  An exec is
\* counted with the refused reads.
Exec(p) ==
  /\ drain.step \notin {"over", "closed"} /\ Denied
  /\ os[p].run /\ os[p].marked /\ ~Gated(p)
  /\ \E e \in BOOLEAN, d \in {FALSE, kin[os[p].start].pipe},
        u \in {kin[os[p].start].parent} \cup IF Gone(kin[os[p].start].parent) THEN {Reaper} ELSE {} :
       kin' = [kin EXCEPT ![os[p].start] = [@ EXCEPT !.env = e, !.pipe = d, !.parent = u]]
  /\ UNCHANGED <<os, starts, forks, slipped, misfired, disc, drain, expired, scopeVars, gate, history,
                 unsent, token>>

-----------------------------------------------------------------------------
(* spawn: the leader waits behind the exec gate until it is bound.            *)

DarwinSpawn(p) ==
  /\ leader = NoKey /\ gate = "none" /\ os[p].start = 0 /\ starts < MaxStarts
  /\ os' = Born(p, TRUE) /\ starts' = starts + 1 /\ leader' = <<p, starts + 1>>
  /\ gate' = "waiting"
  /\ kin' = [kin EXCEPT ![starts + 1] = [parent |-> Self, env |-> TRUE, pipe |-> TRUE, session |-> "same"]]
  /\ UNCHANGED <<forks, slipped, denials, misfired, baseline, known, handles, pending, fatal,
                 disc, drain, expired, history, unsent, token>>

Bound ==
  /\ known' = known \cup {leader}
  /\ history' = [u \in DOMAIN history \cup {leader[2]} |-> IF u = leader[2] THEN Self ELSE history[u]]

\* The gate is ready, its lifetime, pipe and token are bound, then it is told
\* to go.  On any error the release pipe is closed instead, and it ends.
BindLeader ==
  /\ gate = "waiting"
  /\ \/ Alive(leader) /\ Allowed /\ gate' = "released" /\ Bound
     \/ Alive(leader) /\ Denied /\ gate' = "end of file" /\ (Bound \/ UNCHANGED <<known, history>>)
     \/ ~Alive(leader) /\ Allowed /\ gate' = "end of file" /\ UNCHANGED <<known, history>>
  /\ UNCHANGED <<os, starts, forks, slipped, misfired, baseline, leader, handles, pending, fatal,
                 disc, drain, expired, kin, unsent, token>>

\* The caller looks for descendants while it waits for the leader.
Poll ==
  /\ gate \in {"released", "end of file"} /\ drain.step = "none" /\ disc = NoDiscovery
  /\ Begin("poll", os)
  /\ UNCHANGED <<starts, forks, slipped, denials, misfired, drain, expired, scopeVars, darwinVars>>

PollReturns ==
  /\ Discovered("poll") /\ EndDiscovery
  /\ UNCHANGED <<starts, forks, slipped, denials, misfired, drain, expired, scopeVars, darwinVars>>

-----------------------------------------------------------------------------
(* discover: the proofs of ownership.                                         *)

\* _remember_identity: the whole census is remembered before any parentage of
\* it is interpreted.
Remembered ==
  LET read == {os[p].start : p \in {q \in disc.pids : os[q].start # 0}} IN
  [u \in DOMAIN history \cup read |-> IF u \in read THEN kin[u].parent ELSE history[u]]

DarwinIdentify ==
  /\ Identify /\ history' = Remembered
  /\ UNCHANGED <<kin, gate, unsent, token>>

\* _observe reads the environment of exactly the lifetime k: it is there
\* before and after, with one exec version, or the read does not count.
DarwinInspect(k) ==
  /\ disc.step = "classify" /\ k \in disc.todo
  /\ \/ ~Alive(k) /\ Resolved(k)
     \/ /\ Alive(k) /\ UNCHANGED pending
        /\ disc' = [disc EXCEPT !.opening = k, !.step = IF Of(k).env THEN "open" ELSE "prove"]
  /\ UNCHANGED <<slipped, misfired, drain, expired, osVars, baseline, leader, known, handles, fatal,
                 darwinVars>>

DarwinInspectFails(k) == InspectFails(k) /\ UNCHANGED darwinVars

\* _parent_proof: the chain of parents as they were read, up to an owned or a
\* baseline lifetime.  launchd is the parent of anybody's orphans.
Lineage(k) ==
  LET owned == {o[2] : o \in known}
      foreign == {Self} \cup {o[2] : o \in baseline}
      from[u \in 1 .. MaxStarts] ==
        LET up == history[u] IN
        IF up = Reaper \/ up \notin DOMAIN history \cup {Self} THEN "unknown"
        ELSE IF up \in owned THEN "owned"
        ELSE IF up \in foreign THEN "foreign"
        ELSE from[up]
  IN  from[k[2]]

HasPipe(k) == Of(k).pipe

\* A different audit session excludes a lifetime; the same one proves nothing.
ForeignSession(k) == Of(k).session = "other"

\* _discovery_failed: unclassified until it ends or a later census proves it.
Unclassified(k) ==
  /\ pending' = pending \cup {k}
  /\ disc' = [disc EXCEPT !.step = "classify", !.todo = @ \ {k}, !.opening = NoKey]

OwnershipProof ==
  /\ disc.step = "prove"
  /\ LET k == disc.opening IN
     \/ ~Alive(k) /\ Allowed /\ Resolved(k)
     \/ /\ Alive(k) /\ Allowed /\ (HasPipe(k) \/ Lineage(k) = "owned")
        /\ disc' = [disc EXCEPT !.step = "open"] /\ UNCHANGED pending
     \/ /\ Alive(k) /\ Allowed /\ ~HasPipe(k)
        /\ \/ Lineage(k) = "foreign"
           \/ Lineage(k) = "unknown" /\ ForeignSession(k)
        /\ Resolved(k)
     \/ /\ Alive(k) /\ Allowed /\ ~HasPipe(k) /\ Lineage(k) = "unknown" /\ ~ForeignSession(k)
        /\ Unclassified(k)
     \/ Alive(k) /\ Denied /\ Unclassified(k)
  /\ UNCHANGED <<os, starts, forks, slipped, misfired, drain, expired, baseline, leader, known,
                 handles, fatal, darwinVars>>

\* _acquire: the token is a real one of the lifetime.  Without one discover()
\* raises, and with it the drain; a caller that only polled goes on to drain.
AcquireToken ==
  /\ disc.step = "open"
  /\ LET k == disc.opening IN
     \/ Alive(k) /\ Allowed /\ known' = known \cup {k} /\ Resolved(k) /\ UNCHANGED drain
     \/ ~Alive(k) /\ Allowed /\ Resolved(k) /\ UNCHANGED <<known, drain>>
     \/ /\ Alive(k) /\ Denied /\ disc' = NoDiscovery
        /\ drain' = IF disc.for = "poll" THEN drain ELSE Return("failed")
        /\ UNCHANGED <<pending, known>>
  /\ UNCHANGED <<os, starts, forks, slipped, misfired, expired, baseline, leader, handles, fatal,
                 darwinVars>>

-----------------------------------------------------------------------------
(* drain: one loop per signal.                                                *)

\* Between two censuses drain() has no other state than this; the caller may
\* start it at any time after spawn.
DarwinSample ==
  /\ gate \in {"released", "end of file"} /\ disc = NoDiscovery
  /\ drain.step \in {"none", "ready"} /\ InTime
  /\ Begin("sample", os)
  /\ drain' = [drain EXCEPT !.step = "ready"]
  /\ slipped' = IF drain.quiet = 0 THEN 0 ELSE slipped
  /\ UNCHANGED <<starts, forks, denials, misfired, expired, scopeVars, darwinVars>>

\* _reconcile_drain_signals: only an observed end settles an owned lifetime
\* that could not be signalled.
Reconciled == {k \in unsent : Alive(k)}

\* A drain that is retired is still refused when it returns after its end.
DarwinSampleReturns ==
  /\ Discovered("sample")
  /\ drain.route = "bounded" => InTime
  /\ unsent' = Reconciled
  /\ \/ /\ Quiet /\ Reconciled = {} /\ EndDiscovery
        /\ drain' \in IF Enough(drain.quiet + 1)
                     THEN {Return("drained")} \cup IF drain.route = "bounded" THEN {Return("failed")} ELSE {}
                     ELSE {[drain EXCEPT !.quiet = @ + 1, !.live = FALSE]}
     \/ /\ ~(Quiet /\ Reconciled = {}) /\ InTime /\ Begin("signal", os)
        /\ drain' = [drain EXCEPT !.quiet = 0, !.live = Census # {}, !.step = "signal"]
     \/ /\ ~(Quiet /\ Reconciled = {}) /\ ~InTime /\ EndDiscovery
        /\ drain' = [drain EXCEPT !.quiet = 0, !.live = Census # {}]
  /\ UNCHANGED <<slipped, misfired, expired, starts, forks, denials, scopeVars, kin, gate, history, token>>

DarwinSignalReturns ==
  /\ SignalReturns /\ unsent' = Reconciled
  /\ UNCHANGED <<kin, gate, history, token>>

\* _send, first half: a fresh token of the lifetime, which may have ended; an
\* exhausted observation is kept until the lifetime is signalled or ends.
FreshToken(k) ==
  /\ drain.step = "signal" /\ disc = NoDiscovery /\ token = NoKey
  /\ k \in drain.send /\ InTime
  /\ \/ Alive(k) /\ Allowed /\ token' = k /\ UNCHANGED <<drain, unsent>>
     \/ /\ ~Alive(k) /\ Allowed /\ unsent' = Reconciled /\ UNCHANGED token
        /\ drain' = [drain EXCEPT !.send = @ \ {k}]
     \/ /\ Alive(k) /\ Denied /\ unsent' = unsent \cup {k} /\ UNCHANGED token
        /\ drain' = [drain EXCEPT !.send = @ \ {k}]
  /\ UNCHANGED <<os, starts, forks, slipped, misfired, disc, expired, scopeVars, kin, gate, history>>

\* _send, second half: the token reaches its lifetime or nobody.
DarwinSend ==
  /\ token # NoKey /\ Signalled(token, token) /\ token' = NoKey
  /\ unsent' = IF Alive(token) THEN unsent \ {token} ELSE Reconciled
  /\ kin' = IF os'[token[1]].run THEN kin ELSE [kin EXCEPT ![token[2]] = Outsider]
  /\ UNCHANGED <<gate, history>>

\* An exec in between made the token stale, or the kernel refuses the signal,
\* which ends the drain.
SendFails ==
  /\ token # NoKey /\ Alive(token) /\ (drain.route = "bounded" => InTime)
  /\ token' = NoKey
  /\ \/ /\ Allowed /\ unsent' = Reconciled
        /\ drain' = [drain EXCEPT !.send = @ \ {token}]
     \/ Denied /\ drain' = Return("failed") /\ UNCHANGED unsent
  /\ UNCHANGED <<os, starts, forks, slipped, misfired, disc, expired, scopeVars, kin, gate, history>>

\* Without a deadline the round only stops sending when its phase is over.
RoundDone ==
  /\ drain.step = "signal" /\ disc = NoDiscovery /\ token = NoKey
  /\ drain.send = {} \/ (drain.route = "plain" /\ ~InTime)
  /\ drain' = [drain EXCEPT !.step = "ready", !.send = {}]
  /\ UNCHANGED <<slipped, misfired, disc, expired, osVars, scopeVars, darwinVars>>

\* The end of a phase.  There is no late discovery: after KILL the answer is
\* the last census accepted, and an empty one that was not quiet is an error.
DarwinPhaseOver ==
  /\ ~InTime
  /\ \/ drain.step = "ready" /\ disc = NoDiscovery
     \/ /\ drain.route = "bounded" /\ drain.step \in {"ready", "signal"}
        /\ disc = NoDiscovery \/ Discovered(disc.for)
  /\ drain' = IF drain.phase = "term"
              THEN [drain EXCEPT !.phase = "kill", !.step = "ready", !.quiet = 0, !.send = {}]
              ELSE Return(IF drain.live /\ unsent = {} THEN "survivors" ELSE "failed")
  /\ token' = NoKey /\ EndDiscovery
  /\ UNCHANGED <<slipped, misfired, expired, starts, forks, denials, scopeVars,
                 kin, gate, history, unsent>>

-----------------------------------------------------------------------------
DarwinNext ==
  \/ \E p, q \in Pids : DarwinFork(p, q)
  \/ \E p \in Pids : DarwinForeign(p) \/ DarwinExit(p) \/ Exec(p) \/ DarwinSpawn(p)
  \/ BindLeader \/ Poll \/ PollReturns
  \/ DarwinIdentify \/ OwnershipProof \/ AcquireToken
  \/ \E k \in disc.todo : DarwinInspect(k) \/ DarwinInspectFails(k)
  \/ DarwinSample \/ DarwinSampleReturns \/ DarwinSignalReturns
  \/ \E k \in drain.send : FreshToken(k)
  \/ DarwinSend \/ SendFails \/ RoundDone \/ DarwinPhaseOver
  \/ (Expire \/ Close) /\ UNCHANGED darwinVars
=============================================================================
