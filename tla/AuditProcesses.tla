--------------------------- MODULE AuditProcesses ---------------------------
(* The identity-scoped process owner of scripts/audit_processes.py          *)
(* (PosixScope as specialised by LinuxScope).  A scope remembers the        *)
(* processes that existed before it (baseline), spawns one leader whose     *)
(* environment carries the invocation marker, finds the descendants that    *)
(* inherited the marker by reading /proc, keeps a pidfd for each, and       *)
(* drains them with TERM and then KILL.                                     *)
(*                                                                          *)
(* The operating system runs concurrently: processes fork, exit and reuse   *)
(* pids between any two reads of one discovery.  A process is <<pid, start  *)
(* time>>, the key LinuxScope._key uses.                                    *)
EXTENDS Naturals, FiniteSets

CONSTANTS
  Pids,           \* process ids of the machine (the controller's excluded)
  MaxStarts,      \* bound: processes ever started
  MaxForks,       \* bound: forks of marked processes
  MaxDenials,     \* bound: environment reads the kernel refuses
  QuietRequired,  \* empty samples drain asks for (3 in the code)
  Routes          \* the drains checked: "bounded" (deadline=...), "plain"

ASSUME ProcessAssumption ==
  /\ QuietRequired \in Nat \ {0}
  /\ Routes \subseteq {"bounded", "plain"}

VARIABLES
  os,        \* pid -> [start, run, marked]; start = 0 when the pid is free
  starts,    \* start times handed out so far
  forks,     \* forks of marked processes
  slipped,   \* forks of marked processes since the current quiet run began
  denials,   \* refused environment reads
  misfired,  \* a signal reached a process without the marker
  baseline,  \* keys seen when the scope was constructed
  leader,    \* key of the spawned process, NoKey before spawn
  known,     \* self.known: keys of the owned processes
  handles,   \* self.handles: key -> the process its pidfd is bound to
  pending,   \* self.pending_discoveries: keys whose inspection was denied
  fatal,     \* a discovery error that nothing can reconcile
  disc,      \* the discovery in progress
  drain,     \* the drain in progress
  expired    \* drain phases whose absolute end has passed

osVars == <<os, starts, forks, denials>>
scopeVars == <<baseline, leader, known, handles, pending, fatal>>
vars == <<os, starts, forks, slipped, denials, misfired, baseline, leader,
          known, handles, pending, fatal, disc, drain, expired>>

NoKey == <<0, 0>>
Free == [start |-> 0, run |-> FALSE, marked |-> FALSE]
Key(p) == <<p, os[p].start>>
Alive(k) == k # NoKey /\ Key(k[1]) = k /\ os[k[1]].run
LiveOwned == {p \in DOMAIN os : os[p].run /\ os[p].marked}

\* disc.for names the caller that gets the list of live processes.
NoDiscovery == [step |-> "none", for |-> "none", pids |-> {}, todo |-> {},
                opening |-> NoKey, target |-> NoKey]
\* drain.need: quiet_required of the backend; drain.live: the last timely census had
\* processes; drain.send: the keys still to signal.
NoDrain == [route |-> "none", need |-> QuietRequired, step |-> "none", phase |-> "term",
            quiet |-> 0, live |-> FALSE, send |-> {}, result |-> "none"]

TypeOK ==
  /\ \A p \in Pids : os[p].start \in 0 .. MaxStarts
  /\ known \subseteq Pids \X (1 .. MaxStarts)
  /\ pending \subseteq Pids \X (1 .. MaxStarts)
  /\ DOMAIN handles \subseteq known
  /\ slipped <= forks
  /\ drain.step \in {"none", "first", "ready", "signal", "last", "over", "closed"}
  /\ drain.result \in {"none", "drained", "empty at last", "survivors", "failed"}
  /\ expired \subseteq {"term", "kill"}

-----------------------------------------------------------------------------
(* The operating system.                                                    *)

\* LinuxScope.__init__: every process the census sees becomes baseline.
Init ==
  /\ \E B \in SUBSET Pids :
       /\ B # Pids
       /\ Cardinality(B) <= 1
       /\ os = [p \in Pids |-> IF p \in B
                               THEN [start |-> 1, run |-> TRUE, marked |-> FALSE]
                               ELSE Free]
       /\ baseline = {<<p, 1>> : p \in B}
  /\ starts = 1 /\ forks = 0 /\ slipped = 0 /\ denials = 0
  /\ misfired = FALSE
  /\ leader = NoKey /\ known = {} /\ handles = <<>> /\ pending = {}
  /\ fatal = FALSE
  /\ disc = NoDiscovery
  /\ \E r \in Routes : drain = [NoDrain EXCEPT !.route = r]
  /\ expired = {}

Born(q, m) == [os EXCEPT ![q] = [start |-> starts + 1, run |-> TRUE, marked |-> m]]

\* A descendant forks; the child's environment carries the marker as well.
Fork(p, q) ==
  /\ drain.step \notin {"over", "closed"}
  /\ os[p].run /\ os[p].marked /\ os[q].start = 0
  /\ starts < MaxStarts /\ forks < MaxForks
  /\ os' = Born(q, TRUE)
  /\ starts' = starts + 1 /\ forks' = forks + 1 /\ slipped' = slipped + 1
  /\ UNCHANGED <<denials, misfired, disc, drain, expired, scopeVars>>

\* An unrelated program of the same user starts, possibly on a reused pid.
StartForeign(q) ==
  /\ drain.step \notin {"over", "closed"}
  /\ os[q].start = 0 /\ starts < MaxStarts
  /\ os' = Born(q, FALSE)
  /\ starts' = starts + 1
  /\ UNCHANGED <<forks, slipped, denials, misfired, disc, drain, expired, scopeVars>>

\* What remains of p after it ends: our own child stays a zombie until polled.
Ended(p) == IF Key(p) = leader THEN [os[p] EXCEPT !.run = FALSE] ELSE Free

Exit(p) ==
  /\ drain.step \notin {"over", "closed"}
  /\ os[p].run
  /\ os' = [os EXCEPT ![p] = Ended(p)]
  /\ UNCHANGED <<starts, forks, slipped, denials, misfired, disc, drain, expired,
                 scopeVars>>

-----------------------------------------------------------------------------
(* discover(): reap, enumerate, identify, classify, recheck.                *)

\* leader.poll() reaps our zombie.
Reaped(o) ==
  IF leader # NoKey /\ o[leader[1]].start = leader[2] /\ ~o[leader[1]].run
  THEN [o EXCEPT ![leader[1]] = Free] ELSE o

\* The pids of table o are listed, and the unresolved ones added to them: a
\* missing entry is no evidence of exit.
Begin(for, o) ==
  /\ os' = Reaped(o)
  /\ disc' = [NoDiscovery EXCEPT !.step = "identify", !.for = for,
                !.pids = {p \in Pids : Reaped(o)[p].start # 0} \cup {k[1] : k \in pending}]

\* The identities of the listed pids are read; pending lifetimes that ended,
\* stopped running or were replaced are resolved.
Identify ==
  /\ disc.step = "identify"
  /\ pending' = {k \in pending : Alive(k)}
  /\ disc' = [disc EXCEPT !.step = "classify",
                !.todo = {Key(p) : p \in {q \in disc.pids : os[q].run}}
                         \ (baseline \cup known)]
  /\ UNCHANGED <<slipped, misfired, drain, expired, osVars, baseline, leader,
                 known, handles, fatal>>

\* _discovery_resolved: the lifetime is accounted for.
Resolved(k) ==
  /\ pending' = pending \ {k}
  /\ disc' = [disc EXCEPT !.step = "classify", !.todo = @ \ {k},
                          !.opening = NoKey, !.target = NoKey]

\* _inspect_environment reads the environment of whoever holds the pid now.
Inspect(k) ==
  /\ disc.step = "classify" /\ k \in disc.todo
  /\ \/ /\ os[k[1]].start = 0 \/ ~os[k[1]].marked   \* gone, or unmarked
        /\ Resolved(k)
     \/ /\ os[k[1]].start # 0 /\ os[k[1]].marked    \* proof of ownership
        /\ disc' = [disc EXCEPT !.step = "open", !.opening = k]
        /\ UNCHANGED pending
  /\ UNCHANGED <<slipped, misfired, drain, expired, osVars, baseline, leader,
                 known, handles, fatal>>

\* A refused or malformed environment: the lifetime is read again, and unless
\* it ended it stays pending (refused) or fatal (malformed).
InspectFails(k) ==
  /\ disc.step = "classify" /\ k \in disc.todo
  /\ os[k[1]].start # 0 /\ denials < MaxDenials
  /\ denials' = denials + 1
  /\ IF ~Alive(k)
     THEN Resolved(k) /\ UNCHANGED fatal
     ELSE /\ disc' = [disc EXCEPT !.todo = @ \ {k}]
          /\ \/ pending' = pending \cup {k} /\ UNCHANGED fatal
             \/ fatal' = TRUE /\ UNCHANGED pending
  /\ UNCHANGED <<os, starts, forks, slipped, misfired, drain, expired, baseline,
                 leader, known, handles>>

\* _acquire, first half: pidfd_open binds to the process that has the pid.
PidfdOpen ==
  /\ disc.step = "open"
  /\ IF os[disc.opening[1]].start = 0
     THEN Resolved(disc.opening)
     ELSE /\ disc' = [disc EXCEPT !.step = "recheck",
                                  !.target = Key(disc.opening[1])]
          /\ UNCHANGED pending
  /\ UNCHANGED <<slipped, misfired, drain, expired, osVars, baseline, leader,
                 known, handles, fatal>>

Bind(k, t) == [x \in DOMAIN handles \cup {k} |-> IF x = k THEN t ELSE handles[x]]

\* _acquire, second half: only the lifetime that was identified is registered;
\* otherwise the descriptor is closed and the lifetime has ended.
Recheck ==
  /\ disc.step = "recheck"
  /\ IF Alive(disc.opening)
     THEN /\ known' = known \cup {disc.opening}
          /\ handles' = Bind(disc.opening, disc.target)
     ELSE UNCHANGED <<known, handles>>
  /\ Resolved(disc.opening)
  /\ UNCHANGED <<slipped, misfired, drain, expired, osVars, baseline, leader, fatal>>

\* KNOWN_RECHECK: the census discover() returns.
Census == {k \in known : Alive(k)}
Discovered(for) == disc.step = "classify" /\ disc.todo = {} /\ disc.for = for
EndDiscovery == disc' = NoDiscovery /\ UNCHANGED os

-----------------------------------------------------------------------------
(* spawn(), signal_all(), drain() and close().                              *)

Spawn(p) ==
  /\ leader = NoKey /\ disc = NoDiscovery
  /\ os[p].start = 0 /\ starts < MaxStarts
  /\ starts' = starts + 1
  /\ leader' = <<p, starts + 1>>
  /\ Begin("spawn", Born(p, TRUE))
  /\ UNCHANGED <<forks, slipped, denials, misfired, baseline, known, handles,
                 pending, fatal, drain, expired>>

\* The caller polls the leader or cancels, and then drains the scope.
SpawnReturns ==
  /\ Discovered("spawn")
  /\ drain' = [drain EXCEPT !.step = IF drain.route = "plain" THEN "first" ELSE "ready"]
  /\ EndDiscovery
  /\ UNCHANGED <<slipped, misfired, expired, starts, forks, denials, scopeVars>>

\* Time reaches the fixed end of the current phase.
Expire ==
  /\ drain.step \in {"ready", "signal"} /\ drain.phase \notin expired
  /\ expired' = expired \cup {drain.phase}
  /\ UNCHANGED <<slipped, misfired, disc, drain, osVars, scopeVars>>

InTime == drain.phase \notin expired
Return(r) == [drain EXCEPT !.step = "over", !.result = r]

\* One iteration of a drain loop samples the scope while its phase lasts; the
\* plain drain also takes one sample before its loops.
Sample ==
  /\ disc = NoDiscovery
  /\ \/ drain.step = "ready" /\ InTime
     \/ drain.step = "first"
  /\ Begin("sample", os)
  /\ slipped' = IF drain.quiet = 0 THEN 0 ELSE slipped
  /\ UNCHANGED <<starts, forks, denials, misfired, drain, expired, scopeVars>>

Quiet == Census = {} /\ pending = {} /\ ~fatal

\* Fault: one empty sample is enough.
EnoughAtOnce(n) == n >= 1

Enough(n) == n >= drain.need

\* The sample returns: a quiet one is counted, after another one signal_all
\* runs (the plain drain signals only processes it has seen).
SampleReturns ==
  /\ Discovered("sample")
  /\ drain.route = "bounded" => InTime
  /\ IF drain.step = "ready" /\ Quiet
     THEN /\ drain' = IF Enough(drain.quiet + 1) THEN Return("drained")
                      ELSE [drain EXCEPT !.quiet = @ + 1, !.live = FALSE]
          /\ EndDiscovery
     ELSE IF drain.route = "plain" /\ Census = {}
     THEN /\ drain' = [drain EXCEPT !.quiet = 0, !.step = "ready"]
          /\ EndDiscovery
     ELSE /\ drain' = [drain EXCEPT !.quiet = 0, !.live = Census # {}, !.step = "signal"]
          /\ Begin("signal", os)
  /\ UNCHANGED <<slipped, misfired, expired, starts, forks, denials, scopeVars>>

\* signal_all signals what a discovery of its own returns.
SignalReturns ==
  /\ Discovered("signal")
  /\ drain.route = "bounded" => InTime
  /\ drain' = [drain EXCEPT !.send = Census]
  /\ EndDiscovery
  /\ UNCHANGED <<slipped, misfired, expired, starts, forks, denials, scopeVars>>

\* A signal to process t: KILL ends it, TERM may be handled.
Signalled(k, t) ==
  /\ drain.step = "signal" /\ disc = NoDiscovery /\ k \in drain.send
  /\ drain.route = "bounded" => InTime
  /\ drain' = [drain EXCEPT !.send = @ \ {k}]
  /\ misfired' = (misfired \/ (Alive(t) /\ ~os[t[1]].marked))
  /\ \/ os' = IF Alive(t) THEN [os EXCEPT ![t[1]] = Ended(t[1])] ELSE os
     \/ Alive(t) /\ drain.phase = "term" /\ UNCHANGED os
  /\ UNCHANGED <<starts, forks, slipped, denials, disc, expired, scopeVars>>

\* Fault: the signal goes to the pid instead of the descriptor.
SendToPid(k) == Signalled(k, Key(k[1]))

\* _send: pidfd_send_signal on the descriptor kept for the lifetime.
Send(k) == k \in DOMAIN handles /\ Signalled(k, handles[k])

SignalDone ==
  /\ drain.step = "signal" /\ disc = NoDiscovery /\ drain.send = {}
  /\ drain' = [drain EXCEPT !.step = "ready"]
  /\ UNCHANGED <<slipped, misfired, disc, expired, osVars, scopeVars>>

\* _bounded_drain: a check finds the phase over.  A discovery already entered
\* finishes, but neither its census nor the quiet count survives.
PhaseOver ==
  /\ drain.route = "bounded" /\ drain.step \in {"ready", "signal"} /\ ~InTime
  /\ disc = NoDiscovery \/ Discovered(disc.for)
  /\ drain' = IF drain.phase = "term"
              THEN [drain EXCEPT !.phase = "kill", !.step = "ready", !.quiet = 0, !.send = {}]
              ELSE Return(IF drain.live /\ pending = {} THEN "survivors" ELSE "failed")
  /\ EndDiscovery
  /\ UNCHANGED <<slipped, misfired, expired, starts, forks, denials, scopeVars>>

\* PosixScope.drain without a deadline: KILL follows TERM, and after the second
\* loop one last discovery is returned whatever it finds.
LoopOver ==
  /\ drain.route = "plain" /\ drain.step = "ready" /\ ~InTime /\ disc = NoDiscovery
  /\ IF drain.phase = "term"
     THEN /\ drain' = [drain EXCEPT !.phase = "kill", !.step = "signal", !.quiet = 0]
          /\ Begin("signal", os) /\ UNCHANGED slipped
     ELSE /\ drain' = [drain EXCEPT !.step = "last"]
          /\ Begin("last", os) /\ slipped' = 0
  /\ UNCHANGED <<misfired, expired, starts, forks, denials, scopeVars>>

\* LinuxScope.drain refuses any result while a lifetime is unclassified.
LastReturns ==
  /\ Discovered("last")
  /\ drain' = Return(IF pending # {} THEN "failed"
                     ELSE IF Census = {} THEN "empty at last" ELSE "survivors")
  /\ EndDiscovery
  /\ UNCHANGED <<slipped, misfired, expired, starts, forks, denials, scopeVars>>

\* close() releases every pidfd once.
Close ==
  /\ drain.step = "over"
  /\ drain' = [drain EXCEPT !.step = "closed"]
  /\ handles' = <<>>
  /\ UNCHANGED <<slipped, misfired, disc, expired, osVars, baseline, leader, known,
                 pending, fatal>>

-----------------------------------------------------------------------------
Controller ==
  \/ Identify \/ PidfdOpen \/ Recheck
  \/ \E k \in disc.todo : Inspect(k)
  \/ \E p \in Pids : Spawn(p)
  \/ SpawnReturns \/ Sample \/ SampleReturns \/ SignalReturns \/ SignalDone
  \/ \E k \in drain.send : Send(k)
  \/ PhaseOver \/ LoopOver \/ LastReturns \/ Close

Environment ==
  \/ \E p, q \in Pids : Fork(p, q)
  \/ \E q \in Pids : StartForeign(q)
  \/ \E p \in Pids : Exit(p)
  \/ \E k \in disc.todo : InspectFails(k)

Next == Controller \/ Environment \/ Expire

Spec == Init /\ [][Next]_vars

-----------------------------------------------------------------------------
(* Properties.                                                              *)

\* Signals reach only processes that descend from the leader, however often
\* pids are reused between the census, the pidfd (the token, the poll) and
\* the signal.
SignalsOnlyOwned == ~misfired

\* drain() says "nothing left" only when no descendant runs, unless one
\* forked inside every sample the answer rests on: drain.need of them, or
\* the single last discovery of the plain drain.  (A discovery error the scope
\* reports voids the answer; callers check discoveryErrors.)
DrainTruthful ==
  (LiveOwned # {} /\ ~fatal) =>
    /\ drain.result = "drained" => slipped >= drain.need
    /\ drain.result = "empty at last" => slipped >= 1
=============================================================================
