---------------------------- MODULE ScopeProofs ----------------------------
(***************************************************************************)
(* Theorems about the process scopes of audit_processes.py, for every set  *)
(* of pids and every bound: the Linux scope (AuditProcesses) and the       *)
(* Windows scope (WindowsScope) signal only processes that descend from    *)
(* their leader, and do not report an empty scope while one runs.          *)
(***************************************************************************)
EXTENDS MCAuditProcesses, TLAPS

-----------------------------------------------------------------------------
(* The inductive invariant of the Linux scope.                             *)

Lifetimes == Pids \X (Nat \ {0})
Processes == [start : Nat, run : BOOLEAN, marked : BOOLEAN]
Callers == {"none", "spawn", "poll", "sample", "signal", "last"}
Results == {"none", "drained", "empty at last", "survivors", "failed"}
Discovery == [step : {"none", "identify", "classify", "open", "recheck", "members"},
              for : Callers, pids : SUBSET Pids, todo : SUBSET Lifetimes,
              opening : Lifetimes \cup {NoKey}, target : Lifetimes \cup {NoKey}]
Drain == [route : {"bounded", "plain"}, need : Nat,
          step : {"none", "first", "ready", "signal", "last", "over", "closed"},
          phase : {"term", "kill"}, quiet : Nat, live : BOOLEAN, send : SUBSET Lifetimes,
          result : Results]

ScopeType ==
  /\ os \in [Pids -> Processes]
  /\ starts \in Nat /\ slipped \in Nat
  /\ leader \in Lifetimes \cup {NoKey}
  /\ known \subseteq Lifetimes /\ pending \subseteq Lifetimes /\ baseline \subseteq Lifetimes
  /\ disc \in Discovery /\ drain \in Drain

\* Start times only grow: a lifetime that the scope knows of is never that of
\* a process still to come.
Fresh ==
  /\ \A p \in Pids : os[p].start <= starts /\ (os[p].run => os[p].start # 0)
  /\ \A k \in known \cup baseline \cup disc.todo : k[2] <= starts
  /\ disc.opening[2] <= starts

\* While lifetime k lasts, it is that of a descendant of the leader.
Descends(k) == os[k[1]].start = k[2] => os[k[1]].marked

Owned ==
  /\ \A k \in known : Descends(k)
  /\ \A k \in baseline : os[k[1]].start = k[2] => ~os[k[1]].marked

\* What _acquire relies on between its steps, and what a descriptor names.
Held ==
  /\ disc.step \in {"open", "recheck"} => disc.opening \in Lifetimes /\ Descends(disc.opening)
  /\ disc.step = "recheck" /\ Key(disc.opening[1]) = disc.opening => disc.target = disc.opening
  /\ DOMAIN handles \subseteq known
  /\ \A k \in DOMAIN handles : handles[k] = k

\* The discovery in progress has listed process p, or has it in its books.
Accounted(p) ==
  CASE disc.step = "identify" -> p \in disc.pids
    [] disc.step \in {"classify", "open", "recheck"} -> Key(p) \in known \cup disc.todo \cup pending
    [] OTHER -> TRUE

\* The quiet samples so far; the last discovery of the plain drain starts anew.
Counted == IF drain.step \in {"last", "over", "closed"} THEN 0 ELSE drain.quiet

\* Every quiet sample that a running descendant survived had a fork in it, and
\* one that the present discovery misses was forked during this discovery.
Slips ==
  ~fatal => \A p \in LiveOwned :
              /\ slipped >= Counted
              /\ ~Accounted(p) => slipped >= Counted + 1

Sequenced ==
  /\ drain.step \in {"over", "closed"} => disc.step = "none"
  /\ drain.result # "none" => drain.step \in {"over", "closed"}
  /\ disc.for = "spawn" => drain.step = "none"
  /\ disc.for = "last" => drain.step = "last"
  /\ leader = NoKey => drain.step = "none" /\ drain.quiet = 0 /\ disc.step = "none"

LinuxInv ==
  /\ ScopeType /\ Fresh /\ Owned /\ Held /\ Slips /\ Sequenced
  /\ SignalsOnlyOwned /\ DrainTruthful

-----------------------------------------------------------------------------
(* The records a scope builds.                                             *)

LEMMA NoDiscoveryFields ==
  /\ NoDiscovery \in Discovery
  /\ NoDiscovery.step = "none" /\ NoDiscovery.for = "none"
  /\ NoDiscovery.todo = {} /\ NoDiscovery.opening = NoKey /\ NoKey[2] = 0
BY DEF NoDiscovery, Discovery, Callers, NoKey

LEMMA ResolvedFields ==
  ASSUME ScopeType, NEW k, Resolved(k)
  PROVE  /\ disc' \in Discovery /\ disc'.step = "classify" /\ disc'.for = disc.for
         /\ disc'.todo = disc.todo \ {k} /\ disc'.opening = NoKey /\ NoKey[2] = 0
         /\ pending' = pending \ {k}
BY DEF ScopeType, Resolved, Discovery, NoKey

\* poll() takes away a zombie and nothing else.
LEMMA ReapedFacts ==
  ASSUME ScopeType, NEW o \in [Pids -> Processes]
  PROVE  /\ Reaped(o) \in [Pids -> Processes]
         /\ \A p \in Pids : \/ Reaped(o)[p] = o[p]
                            \/ Reaped(o)[p].start = 0 /\ ~Reaped(o)[p].run /\ ~o[p].run
BY DEF ScopeType, Reaped, Processes, Free, Lifetimes, NoKey

LEMMA BeginFields ==
  ASSUME ScopeType, NEW for \in Callers, NEW o \in [Pids -> Processes], Begin(for, o)
  PROVE  /\ disc' \in Discovery /\ disc'.step = "identify" /\ disc'.for = for
         /\ disc'.pids = {p \in Pids : Reaped(o)[p].start # 0} \cup {k[1] : k \in pending}
         /\ disc'.todo = {} /\ disc'.opening = NoKey /\ NoKey[2] = 0
         /\ os' = Reaped(o)
<1>1. {p \in Pids : Reaped(o)[p].start # 0} \cup {k[1] : k \in pending} \subseteq Pids
  BY DEF ScopeType, Lifetimes
<1> QED
  BY <1>1, NoDiscoveryFields DEF Begin, Discovery

-----------------------------------------------------------------------------
(* How the process table moves.                                            *)

\* From one step to the next a pid keeps its process, loses it, or gets one
\* with a start time that was never used.
Ages(p) ==
  \/ os'[p].start = os[p].start /\ os'[p].marked = os[p].marked /\ (os'[p].run => os[p].run)
  \/ os'[p].start = 0 /\ ~os'[p].run
  \/ os'[p].start = starts + 1 /\ starts' = starts + 1

LEMMA DescendsKept ==
  ASSUME ScopeType, \A p \in Pids : Ages(p),
         NEW k \in Lifetimes, k[2] <= starts, Descends(k)
  PROVE  Descends(k)'
BY DEF Ages, Descends, ScopeType, Lifetimes, Processes

LEMMA OwnedKept ==
  ASSUME ScopeType, Fresh, Owned, \A p \in Pids : Ages(p), UNCHANGED <<known, baseline>>
  PROVE  Owned'
<1>1. \A k \in known : Descends(k)'
  BY DescendsKept DEF Owned, Fresh, ScopeType
<1>2. \A k \in baseline : os'[k[1]].start = k[2] => ~os'[k[1]].marked
  BY DEF Ages, Owned, Fresh, ScopeType, Lifetimes, Processes
<1> QED
  BY <1>1, <1>2 DEF Owned

\* The keys of the scope stay below the clock of start times.
LEMMA FreshKept ==
  ASSUME ScopeType, Fresh, os' \in [Pids -> Processes], \A p \in Pids : Ages(p),
         starts' \in {starts, starts + 1}, \A p \in Pids : os'[p].run => os'[p].start # 0,
         UNCHANGED <<known, baseline>>,
         disc' \in Discovery, disc'.todo \subseteq disc.todo, disc'.opening[2] <= starts
  PROVE  Fresh'
<1>1. disc'.opening[2] \in Nat
  BY DEF Discovery, Lifetimes, NoKey
<1>2. \A p \in Pids : os'[p].start <= starts'
  BY DEF Ages, Fresh, ScopeType, Processes
<1>3. \A k \in known \cup baseline \cup disc.todo : k[2] <= starts'
  BY DEF Fresh, ScopeType, Lifetimes, Discovery
<1> QED
  BY <1>1, <1>2, <1>3 DEF Fresh, ScopeType

\* A step that only works on the books of the discovery.
LEMMA SlipsKept ==
  ASSUME Slips, UNCHANGED <<os, slipped, drain>>, fatal => fatal',
         ~fatal' => \A p \in LiveOwned : Accounted(p) => Accounted(p)'
  PROVE  Slips'
BY DEF Slips, Counted, LiveOwned

LEMMA AnswerKept ==
  ASSUME DrainTruthful, UNCHANGED <<os, slipped, drain>>, fatal => fatal'
  PROVE  DrainTruthful'
BY DEF DrainTruthful, LiveOwned

-----------------------------------------------------------------------------
(* discover().                                                             *)

LEMMA IdentifyStep ==
  ASSUME LinuxInv, Identify
  PROVE  LinuxInv'
<1> DEFINE T == {Key(p) : p \in {q \in disc.pids : os[q].run}} \ (baseline \cup known)
<1> USE DEF LinuxInv
<1>1. T \subseteq Lifetimes /\ \A k \in T : k[2] <= starts
  BY DEF ScopeType, Fresh, Key, Lifetimes, Processes, Discovery
<1>2. /\ disc' \in Discovery /\ disc'.step = "classify" /\ disc'.todo = T
      /\ disc'.for = disc.for /\ disc'.opening = disc.opening
  BY <1>1 DEF ScopeType, Identify, Discovery
<1>3. pending' \subseteq pending /\ \A p \in LiveOwned : Key(p) \in pending => Key(p) \in pending'
  BY DEF Identify, LiveOwned, Alive, Key, Fresh, ScopeType, Processes, NoKey
<1>4. UNCHANGED <<os, starts, slipped, leader, known, baseline, handles, fatal, drain, misfired>>
  BY DEF Identify, osVars
<1>5. ScopeType'
  BY <1>2, <1>3, <1>4 DEF ScopeType
<1>6. Fresh' /\ Owned'
  BY <1>1, <1>2, <1>4 DEF Fresh, Owned, Descends
<1>7. Held'
  BY <1>2, <1>4 DEF Held
<1>8. Slips'
  <2>1. ASSUME NEW p \in LiveOwned, Accounted(p) PROVE Accounted(p)'
    <3>1. p \in disc.pids /\ os[p].run /\ os[p].marked /\ p \in Pids
      BY <2>1 DEF Identify, Accounted, LiveOwned, ScopeType
    <3>2. Key(p) \notin baseline
      BY <3>1 DEF Owned, Key
    <3>3. Key(p) \in T \cup known
      BY <3>1, <3>2
    <3> QED
      BY <1>2, <1>4, <3>3 DEF Accounted, Key
  <2> QED
    BY <1>4, <2>1, SlipsKept
<1>9. Sequenced'
  BY <1>2, <1>4 DEF Sequenced, Identify
<1> QED
  BY <1>4, <1>5, <1>6, <1>7, <1>8, <1>9, AnswerKept DEF SignalsOnlyOwned

\* A lifetime leaves the books when it has ended or is no descendant.
LEMMA ResolvedStep ==
  ASSUME LinuxInv, NEW k \in Lifetimes, disc.step \in {"classify", "open", "recheck"}, Resolved(k),
         \A p \in LiveOwned : Key(p) # k,
         UNCHANGED <<os, starts, slipped, leader, known, baseline, handles, fatal, drain, misfired>>
  PROVE  LinuxInv'
<1> USE DEF LinuxInv
<1>1. /\ disc' \in Discovery /\ disc'.step = "classify" /\ disc'.for = disc.for
      /\ disc'.todo = disc.todo \ {k} /\ disc'.opening[2] = 0
      /\ pending' = pending \ {k}
  BY ResolvedFields
<1>2. ScopeType' /\ Fresh' /\ Owned' /\ Held'
  BY <1>1 DEF ScopeType, Fresh, Owned, Descends, Held
<1>3. Slips'
  <2>1. \A p \in LiveOwned : Accounted(p) => Accounted(p)'
    BY <1>1 DEF Accounted, Key
  <2> QED
    BY <2>1, SlipsKept
<1>4. Sequenced'
  BY <1>1 DEF Sequenced
<1> QED
  BY <1>2, <1>3, <1>4, AnswerKept DEF SignalsOnlyOwned

LEMMA InspectStep ==
  ASSUME LinuxInv, NEW k \in disc.todo, Inspect(k)
  PROVE  LinuxInv'
<1> USE DEF LinuxInv
<1>1. k \in Lifetimes /\ k[1] \in Pids /\ k[2] # 0 /\ k[2] <= starts /\ disc.step = "classify"
  BY DEF ScopeType, Discovery, Lifetimes, Fresh, Inspect
<1>2. UNCHANGED <<os, starts, slipped, leader, known, baseline, handles, fatal, drain, misfired>>
  BY DEF Inspect, osVars
<1>3. CASE (os[k[1]].start = 0 \/ ~os[k[1]].marked) /\ Resolved(k)
  <2>1. \A p \in LiveOwned : Key(p) # k
    BY <1>1, <1>3 DEF LiveOwned, Key, Lifetimes
  <2> QED
    BY <1>1, <1>2, <1>3, <2>1, ResolvedStep
<1>4. CASE /\ os[k[1]].start # 0 /\ os[k[1]].marked /\ UNCHANGED pending
           /\ disc' = [disc EXCEPT !.step = "open", !.opening = k]
  <2>1. /\ disc' \in Discovery /\ disc'.step = "open" /\ disc'.for = disc.for
        /\ disc'.todo = disc.todo /\ disc'.opening = k
    BY <1>1, <1>4 DEF ScopeType, Discovery
  <2>2. ScopeType' /\ Fresh' /\ Owned'
    BY <1>1, <1>2, <1>4, <2>1 DEF ScopeType, Fresh, Owned, Descends
  <2>3. Held'
    BY <1>1, <1>2, <1>4, <2>1 DEF Held, Descends
  <2>4. \A p \in LiveOwned : Accounted(p) => Accounted(p)'
    BY <1>1, <1>2, <1>4, <2>1 DEF Accounted, Key
  <2>5. Slips'
    BY <1>2, <2>4, SlipsKept
  <2>6. Sequenced'
    BY <1>1, <1>2, <2>1 DEF Sequenced
  <2> QED
    BY <1>2, <2>2, <2>3, <2>5, <2>6, AnswerKept DEF SignalsOnlyOwned
<1> QED
  BY <1>3, <1>4 DEF Inspect

LEMMA InspectFailsStep ==
  ASSUME LinuxInv, NEW k \in disc.todo, InspectFails(k)
  PROVE  LinuxInv'
<1> USE DEF LinuxInv
<1>1. k \in Lifetimes /\ k[1] \in Pids /\ k[2] # 0 /\ k[2] <= starts /\ disc.step = "classify"
  BY DEF ScopeType, Discovery, Lifetimes, Fresh, InspectFails
<1>2. UNCHANGED <<os, starts, slipped, leader, known, baseline, handles, drain, misfired>>
  BY DEF InspectFails
<1>3. CASE ~Alive(k) /\ Resolved(k) /\ UNCHANGED fatal
  <2>1. \A p \in LiveOwned : Key(p) # k
    BY <1>1, <1>3 DEF LiveOwned, Key, Lifetimes, Alive, NoKey
  <2> QED
    BY <1>1, <1>2, <1>3, <2>1, ResolvedStep
<1>4. CASE /\ disc' = [disc EXCEPT !.todo = @ \ {k}]
           /\ \/ pending' = pending \cup {k} /\ UNCHANGED fatal
              \/ fatal' = TRUE /\ UNCHANGED pending
  <2>1. /\ disc' \in Discovery /\ disc'.step = "classify" /\ disc'.for = disc.for
        /\ disc'.todo = disc.todo \ {k} /\ disc'.opening = disc.opening
    BY <1>1, <1>4 DEF ScopeType, Discovery
  <2>2. /\ pending' \subseteq Lifetimes /\ pending \subseteq pending' /\ (fatal => fatal')
        /\ ~fatal' => k \in pending'
    BY <1>1, <1>4 DEF ScopeType
  <2>3. ScopeType' /\ Fresh' /\ Owned'
    BY <1>1, <1>2, <2>1, <2>2 DEF ScopeType, Fresh, Owned, Descends
  <2>4. Held'
    BY <1>1, <1>2, <2>1 DEF Held, Descends
  <2>5. ~fatal' => \A p \in LiveOwned : Accounted(p) => Accounted(p)'
    BY <1>1, <1>2, <2>1, <2>2 DEF Accounted, Key
  <2>6. Slips'
    BY <1>2, <2>2, <2>5, SlipsKept
  <2>7. Sequenced'
    BY <1>1, <1>2, <2>1 DEF Sequenced
  <2> QED
    BY <1>2, <2>2, <2>3, <2>4, <2>6, <2>7, AnswerKept DEF SignalsOnlyOwned
<1> QED
  BY <1>3, <1>4 DEF InspectFails

LEMMA PidfdOpenStep ==
  ASSUME LinuxInv, PidfdOpen
  PROVE  LinuxInv'
<1> USE DEF LinuxInv
<1> DEFINE k == disc.opening
<1>1. k \in Lifetimes /\ k[1] \in Pids /\ k[2] # 0 /\ k[2] <= starts /\ disc.step = "open"
  BY DEF ScopeType, Discovery, Lifetimes, Fresh, PidfdOpen, Held
<1>2. UNCHANGED <<os, starts, slipped, leader, known, baseline, handles, fatal, drain, misfired>>
  BY DEF PidfdOpen, osVars
<1>3. CASE os[k[1]].start = 0 /\ Resolved(k)
  <2>1. \A p \in LiveOwned : Key(p) # k
    BY <1>1, <1>3 DEF LiveOwned, Key, Lifetimes
  <2> QED
    BY <1>1, <1>2, <1>3, <2>1, ResolvedStep
<1>4. CASE /\ os[k[1]].start # 0 /\ UNCHANGED pending
           /\ disc' = [disc EXCEPT !.step = "recheck", !.target = Key(k[1])]
  <2>1. Key(k[1]) \in Lifetimes
    BY <1>1, <1>4 DEF ScopeType, Key, Lifetimes, Processes
  <2>2. /\ disc' \in Discovery /\ disc'.step = "recheck" /\ disc'.for = disc.for
        /\ disc'.todo = disc.todo /\ disc'.opening = k /\ disc'.target = Key(k[1])
    BY <1>1, <1>4, <2>1 DEF ScopeType, Discovery
  <2>3. ScopeType' /\ Fresh' /\ Owned'
    BY <1>1, <1>2, <1>4, <2>2 DEF ScopeType, Fresh, Owned, Descends
  <2>4. Held'
    BY <1>1, <1>2, <2>2 DEF Held, Descends, Key
  <2>5. \A p \in LiveOwned : Accounted(p) => Accounted(p)'
    BY <1>1, <1>2, <1>4, <2>2 DEF Accounted, Key
  <2>6. Slips'
    BY <1>2, <2>5, SlipsKept
  <2>7. Sequenced'
    BY <1>1, <1>2, <2>2 DEF Sequenced
  <2> QED
    BY <1>2, <2>3, <2>4, <2>6, <2>7, AnswerKept DEF SignalsOnlyOwned
<1> QED
  BY <1>3, <1>4 DEF PidfdOpen

LEMMA RecheckStep ==
  ASSUME LinuxInv, Recheck
  PROVE  LinuxInv'
<1> USE DEF LinuxInv
<1> DEFINE k == disc.opening
<1>1. /\ k \in Lifetimes /\ k[1] \in Pids /\ k[2] # 0 /\ k[2] <= starts /\ disc.step = "recheck"
      /\ Descends(k)
  BY DEF ScopeType, Discovery, Lifetimes, Fresh, Recheck, Held
<1>2. UNCHANGED <<os, starts, slipped, leader, baseline, fatal, drain, misfired>> /\ Resolved(k)
  BY DEF Recheck, osVars
<1>3. CASE ~Alive(k) /\ UNCHANGED <<known, handles>>
  <2>1. \A p \in LiveOwned : Key(p) # k
    BY <1>1, <1>3 DEF LiveOwned, Key, Lifetimes, Alive, NoKey
  <2> QED
    BY <1>1, <1>2, <1>3, <2>1, ResolvedStep
<1>4. CASE /\ Alive(k) /\ known' = known \cup {k} /\ handles' = Bind(k, disc.target)
  <2>1. /\ disc' \in Discovery /\ disc'.step = "classify" /\ disc'.for = disc.for
        /\ disc'.todo = disc.todo \ {k} /\ disc'.opening[2] = 0
        /\ pending' = pending \ {k}
    BY <1>2, ResolvedFields
  <2>2. disc.target = k
    BY <1>1, <1>4 DEF Held, Alive
  <2>3. ScopeType'
    BY <1>1, <1>2, <1>4, <2>1 DEF ScopeType
  <2>4. Fresh' /\ Owned'
    BY <1>1, <1>2, <1>4, <2>1 DEF Fresh, Owned, Descends, ScopeType
  <2>5. Held'
    BY <1>1, <1>4, <2>1, <2>2 DEF Held, Bind
  <2>6. \A p \in LiveOwned : Accounted(p) => Accounted(p)'
    BY <1>1, <1>2, <1>4, <2>1 DEF Accounted, Key
  <2>7. Slips'
    BY <1>2, <2>6, SlipsKept
  <2>8. Sequenced'
    BY <1>1, <1>2, <2>1 DEF Sequenced
  <2> QED
    BY <1>2, <2>3, <2>4, <2>5, <2>7, <2>8, AnswerKept DEF SignalsOnlyOwned
<1> QED
  BY <1>3, <1>4 DEF Recheck

-----------------------------------------------------------------------------
(* spawn(), signal_all(), drain() and close().                             *)

\* A discovery begins: whoever runs is listed.
LEMMA BeginStep ==
  ASSUME LinuxInv, NEW for \in Callers, Begin(for, os),
         drain' \in Drain, slipped' \in Nat,
         drain'.step \notin {"none", "over", "closed"}, drain'.result = "none",
         for # "spawn", for = "last" => drain'.step = "last", leader # NoKey,
         ~fatal /\ LiveOwned # {} => slipped' >= Counted',
         UNCHANGED <<starts, misfired, scopeVars>>
  PROVE  LinuxInv'
<1> USE DEF LinuxInv
<1>1. UNCHANGED <<baseline, leader, known, handles, pending, fatal>>
  BY DEF scopeVars
<1>2. os \in [Pids -> Processes]
  BY DEF ScopeType
<1>3. /\ disc' \in Discovery /\ disc'.step = "identify" /\ disc'.for = for
      /\ disc'.pids = {p \in Pids : Reaped(os)[p].start # 0} \cup {k[1] : k \in pending}
      /\ disc'.todo = {} /\ disc'.opening = NoKey /\ NoKey[2] = 0 /\ os' = Reaped(os)
  BY <1>2, BeginFields
<1>4. /\ os' \in [Pids -> Processes]
      /\ \A p \in Pids : os'[p] = os[p] \/ (os'[p].start = 0 /\ ~os'[p].run /\ ~os[p].run)
  BY <1>2, <1>3, ReapedFacts
<1>5. \A p \in Pids : Ages(p)
  BY <1>4 DEF Ages
<1>6. ScopeType'
  BY <1>1, <1>3, <1>4 DEF ScopeType
<1>7. Fresh'
  <2>1. \A p \in Pids : os'[p].run => os'[p].start # 0
    BY <1>4 DEF Fresh
  <2>2. disc'.opening[2] <= starts
    BY <1>3 DEF ScopeType
  <2> QED
    BY <1>1, <1>3, <1>4, <1>5, <2>1, <2>2, FreshKept DEF ScopeType
<1>8. Owned'
  BY <1>1, <1>5, OwnedKept
<1>9. Held'
  BY <1>1, <1>3 DEF Held
<1>10. Slips'
  <2>1. \A p \in LiveOwned' : p \in LiveOwned /\ p \in Pids /\ os'[p].start # 0
    BY <1>2, <1>4, <1>7 DEF LiveOwned, Fresh, ScopeType
  <2>2. \A p \in LiveOwned' : Accounted(p)'
    BY <1>3, <2>1 DEF Accounted
  <2> QED
    BY <1>1, <2>1, <2>2 DEF Slips
<1>11. Sequenced'
  BY <1>1, <1>3 DEF Sequenced
<1> QED
  BY <1>6, <1>7, <1>8, <1>9, <1>10, <1>11 DEF SignalsOnlyOwned, DrainTruthful

\* A discovery is over, or there was none.
LEMMA EndStep ==
  ASSUME LinuxInv, EndDiscovery, drain' \in Drain,
         drain'.result # "none" => drain'.step \in {"over", "closed"},
         leader = NoKey => drain'.step = "none" /\ drain'.quiet = 0,
         ~fatal /\ LiveOwned # {} => slipped >= Counted',
         DrainTruthful',
         UNCHANGED <<starts, slipped, misfired, scopeVars>>
  PROVE  LinuxInv'
<1> USE DEF LinuxInv
<1>1. UNCHANGED <<os, baseline, leader, known, handles, pending, fatal>>
  BY DEF scopeVars, EndDiscovery
<1>2. /\ disc' \in Discovery /\ disc'.step = "none" /\ disc'.for = "none"
      /\ disc'.todo = {} /\ disc'.opening = NoKey /\ NoKey[2] = 0
  BY NoDiscoveryFields DEF EndDiscovery
<1>3. ScopeType' /\ Fresh' /\ Owned' /\ Held'
  BY <1>1, <1>2 DEF ScopeType, Fresh, Owned, Held, Descends
<1>4. Slips'
  BY <1>1, <1>2 DEF Slips, Accounted, LiveOwned
<1>5. Sequenced'
  BY <1>1, <1>2 DEF Sequenced
<1> QED
  BY <1>1, <1>3, <1>4, <1>5 DEF SignalsOnlyOwned

LEMMA SpawnStep ==
  ASSUME LinuxInv, NEW p \in Pids, Spawn(p)
  PROVE  LinuxInv'
<1> USE DEF LinuxInv
<1>1. /\ leader = NoKey /\ os[p].start = 0 /\ starts' = starts + 1
      /\ leader' = <<p, starts + 1>> /\ Begin("spawn", Born(p, TRUE))
      /\ UNCHANGED <<baseline, known, handles, pending, fatal, drain, slipped, misfired>>
  BY DEF Spawn
<1>2. Born(p, TRUE) \in [Pids -> Processes]
  BY DEF Born, ScopeType, Processes
<1>3. Reaped(Born(p, TRUE)) = Born(p, TRUE)
  BY <1>1 DEF Reaped
<1>4. /\ disc' \in Discovery /\ disc'.step = "identify" /\ disc'.for = "spawn"
      /\ disc'.pids = {q \in Pids : Born(p, TRUE)[q].start # 0} \cup {k[1] : k \in pending}
      /\ disc'.todo = {} /\ disc'.opening = NoKey /\ NoKey[2] = 0 /\ os' = Born(p, TRUE)
  BY <1>1, <1>2, <1>3, BeginFields DEF Callers
<1>5. \A q \in Pids : Ages(q) /\ (os'[q].run => os'[q].start # 0)
  <2>1. starts \in Nat /\ os \in [Pids -> Processes] /\ \A q \in Pids : os[q].run => os[q].start # 0
    BY DEF Fresh, ScopeType
  <2>2. \A q \in Pids : os'[q] = IF q = p THEN [start |-> starts + 1, run |-> TRUE, marked |-> TRUE]
                                 ELSE os[q]
    BY <1>4, <2>1 DEF Born
  <2> QED
    BY <1>1, <2>1, <2>2 DEF Ages
<1>6. ScopeType'
  <2>1. leader' \in Lifetimes /\ starts' \in Nat
    BY <1>1 DEF ScopeType, Lifetimes
  <2> QED
    BY <1>1, <1>2, <1>4, <2>1 DEF ScopeType
<1>7. Fresh'
  <2>1. disc'.opening[2] <= starts /\ disc'.todo \subseteq disc.todo /\ starts' \in {starts, starts + 1}
    BY <1>1, <1>4 DEF ScopeType
  <2>2. os' \in [Pids -> Processes] /\ \A q \in Pids : Ages(q)
    BY <1>2, <1>4, <1>5
  <2>3. \A q \in Pids : os'[q].run => os'[q].start # 0
    BY <1>5
  <2> QED
    BY <1>1, <1>4, <2>1, <2>2, <2>3, FreshKept
<1>8. Owned'
  BY <1>1, <1>5, OwnedKept
<1>9. Held'
  BY <1>1, <1>4 DEF Held
<1>10. Slips'
  <2>1. \A q \in LiveOwned' : q \in Pids /\ os'[q].start # 0
    BY <1>2, <1>4, <1>5 DEF LiveOwned
  <2>2. \A q \in LiveOwned' : Accounted(q)'
    BY <1>4, <2>1 DEF Accounted
  <2>3. Counted' = 0
    BY <1>1 DEF Counted, Sequenced
  <2> QED
    BY <1>1, <2>2, <2>3 DEF Slips, ScopeType
<1>11. Sequenced'
  BY <1>1, <1>4, <1>6 DEF Sequenced, NoKey, ScopeType
<1>12. DrainTruthful'
  BY <1>1 DEF DrainTruthful, Sequenced
<1> QED
  BY <1>1, <1>6, <1>7, <1>8, <1>9, <1>10, <1>11, <1>12 DEF SignalsOnlyOwned

\* What a finished discovery tells: a descendant that runs and is in none of
\* its books was forked while the discovery ran.
LEMMA FoundNothing ==
  ASSUME LinuxInv, NEW for, Discovered(for), Census = {}, pending = {}, ~fatal, LiveOwned # {}
  PROVE  slipped >= Counted + 1
<1> USE DEF LinuxInv
<1>1. PICK p \in LiveOwned : TRUE
  OBVIOUS
<1>2. p \in Pids /\ os[p].run /\ os[p].start \in Nat \ {0}
  BY <1>1 DEF LiveOwned, ScopeType, Fresh, Processes
<1>3. Alive(Key(p))
  BY <1>2 DEF Alive, Key, NoKey
<1>4. ~Accounted(p)
  BY <1>3 DEF Accounted, Discovered, Census
<1> QED
  BY <1>1, <1>4 DEF Slips

LEMMA SpawnReturnsStep ==
  ASSUME LinuxInv, SpawnReturns
  PROVE  LinuxInv'
<1> USE DEF LinuxInv
<1>1. /\ drain' \in Drain /\ drain'.step \in {"first", "ready"} /\ drain'.quiet = drain.quiet
      /\ drain'.result = drain.result
  BY DEF ScopeType, SpawnReturns, Drain
<1>2. leader # NoKey /\ drain.result = "none" /\ Counted' = Counted
  BY <1>1 DEF SpawnReturns, Discovered, Sequenced, Counted
<1>3. ~fatal /\ LiveOwned # {} => slipped >= Counted'
  BY <1>2 DEF Slips
<1> QED
  BY <1>1, <1>2, <1>3, EndStep DEF SpawnReturns, DrainTruthful

LEMMA SampleStep ==
  ASSUME LinuxInv, Sample
  PROVE  LinuxInv'
<1> USE DEF LinuxInv
<1>1. /\ drain.step \in {"first", "ready"} /\ drain' = drain /\ Begin("sample", os)
      /\ slipped' = (IF drain.quiet = 0 THEN 0 ELSE slipped)
      /\ UNCHANGED <<starts, misfired, scopeVars>>
  BY DEF Sample
<1>2. drain' \in Drain /\ slipped' \in Nat /\ drain'.result = "none" /\ leader # NoKey
  BY <1>1 DEF ScopeType, Sequenced
<1>3. ~fatal /\ LiveOwned # {} => slipped' >= Counted'
  BY <1>1 DEF Slips, Counted
<1> QED
  BY <1>1, <1>2, <1>3, BeginStep DEF Callers

LEMMA SampleReturnsStep ==
  ASSUME LinuxInv, SampleReturns
  PROVE  LinuxInv'
<1> USE DEF LinuxInv
<1>1. drain \in Drain /\ slipped \in Nat /\ drain.quiet \in Nat /\ drain.need \in Nat
  BY DEF ScopeType, Drain
<1>2. /\ leader # NoKey /\ drain.result = "none" /\ drain.step \notin {"over", "closed"}
      /\ Discovered("sample")
      /\ UNCHANGED <<starts, slipped, misfired, scopeVars>>
  BY DEF SampleReturns, Discovered, Sequenced
<1>3. CASE /\ drain.step = "ready" /\ Quiet /\ EndDiscovery
           /\ drain' = IF Enough(drain.quiet + 1) THEN Return("drained")
                       ELSE [drain EXCEPT !.quiet = @ + 1, !.live = FALSE]
  <2>1. ~fatal /\ LiveOwned # {} => slipped >= drain.quiet + 1
    BY <1>2, <1>3, FoundNothing DEF Quiet, Counted
  <2>2. CASE Enough(drain.quiet + 1)
    <3>1. /\ drain' \in Drain /\ drain'.step = "over" /\ drain'.result = "drained"
          /\ drain'.need = drain.need
      BY <1>1, <1>3, <2>2 DEF Return, Drain, Results
    <3>2. ~fatal /\ LiveOwned # {} => slipped >= drain.need
      BY <1>1, <2>1, <2>2 DEF Enough
    <3>3. DrainTruthful'
      BY <1>2, <1>3, <3>1, <3>2 DEF DrainTruthful, LiveOwned, EndDiscovery, scopeVars
    <3>4. slipped >= Counted'
      BY <1>1, <3>1 DEF Counted
    <3> QED
      BY <1>2, <1>3, <3>1, <3>3, <3>4, EndStep
  <2>3. CASE ~Enough(drain.quiet + 1)
    <3>1. /\ drain' \in Drain /\ drain'.step = "ready" /\ drain'.result = "none"
          /\ drain'.quiet = drain.quiet + 1
      <4>1. drain' = [drain EXCEPT !.quiet = drain.quiet + 1, !.live = FALSE]
        BY <1>3, <2>3
      <4>2. drain.quiet + 1 \in Nat
        BY <1>1
      <4> HIDE DEF LinuxInv
      <4> QED
        BY <1>1, <1>2, <1>3, <4>1, <4>2 DEF Drain
    <3>2. Counted' = drain.quiet + 1
      BY <3>1 DEF Counted
    <3> QED
      BY <1>2, <1>3, <2>1, <3>1, <3>2, EndStep DEF DrainTruthful
  <2> QED
    BY <2>2, <2>3
<1>4. CASE drain' = [drain EXCEPT !.quiet = 0, !.step = "ready"] /\ EndDiscovery
  <2>1. drain' \in Drain /\ drain'.step = "ready" /\ drain'.result = "none" /\ drain'.quiet = 0
    BY <1>1, <1>2, <1>4 DEF Drain
  <2>2. slipped >= Counted'
    BY <1>1, <2>1 DEF Counted
  <2> QED
    BY <1>2, <1>4, <2>1, <2>2, EndStep DEF DrainTruthful
<1>5. CASE /\ drain' = [drain EXCEPT !.quiet = 0, !.live = Census # {}, !.step = "signal"]
           /\ Begin("signal", os)
  <2>1. drain' \in Drain /\ drain'.step = "signal" /\ drain'.result = "none" /\ drain'.quiet = 0
    BY <1>1, <1>2, <1>5 DEF Drain
  <2>2. slipped' >= Counted'
    BY <1>1, <1>2, <2>1 DEF Counted
  <2> QED
    BY <1>1, <1>2, <1>5, <2>1, <2>2, BeginStep DEF Callers
<1> QED
  BY <1>3, <1>4, <1>5 DEF SampleReturns

LEMMA SignalReturnsStep ==
  ASSUME LinuxInv, SignalReturns
  PROVE  LinuxInv'
<1> USE DEF LinuxInv
<1>1. Census \subseteq Lifetimes
  BY DEF Census, ScopeType
<1>2. /\ drain' \in Drain /\ drain'.step = drain.step /\ drain'.quiet = drain.quiet
      /\ drain'.result = drain.result
  BY <1>1 DEF ScopeType, SignalReturns, Drain
<1>3. leader # NoKey /\ drain.result = "none" /\ Counted' = Counted
  BY <1>2 DEF SignalReturns, Discovered, Sequenced, Counted
<1>4. ~fatal /\ LiveOwned # {} => slipped >= Counted'
  BY <1>3 DEF Slips
<1> QED
  BY <1>2, <1>3, <1>4, EndStep DEF SignalReturns, DrainTruthful

LEMMA PhaseOverStep ==
  ASSUME LinuxInv, PhaseOver
  PROVE  LinuxInv'
<1> USE DEF LinuxInv
<1>1. /\ drain \in Drain /\ slipped \in Nat /\ leader # NoKey /\ drain.result = "none"
      /\ EndDiscovery /\ UNCHANGED <<starts, slipped, misfired, scopeVars>>
  BY DEF ScopeType, PhaseOver, Sequenced
<1>2. CASE drain' = [drain EXCEPT !.phase = "kill", !.step = "ready", !.quiet = 0, !.send = {}]
  <2>1. drain' \in Drain /\ drain'.step = "ready" /\ drain'.result = "none" /\ drain'.quiet = 0
    BY <1>1, <1>2 DEF Drain
  <2>2. slipped >= Counted'
    BY <1>1, <2>1 DEF Counted
  <2> QED
    BY <1>1, <2>1, <2>2, EndStep DEF DrainTruthful
<1>3. CASE drain' = Return(IF drain.live /\ pending = {} THEN "survivors" ELSE "failed")
  <2>1. drain' \in Drain /\ drain'.step = "over" /\ drain'.result \in {"survivors", "failed"}
    BY <1>1, <1>3 DEF Drain, Return, Results
  <2>2. slipped >= Counted'
    BY <1>1, <2>1 DEF Counted
  <2> QED
    BY <1>1, <2>1, <2>2, EndStep DEF DrainTruthful
<1> QED
  BY <1>2, <1>3 DEF PhaseOver

LEMMA LoopOverStep ==
  ASSUME LinuxInv, LoopOver
  PROVE  LinuxInv'
<1> USE DEF LinuxInv
<1>1. /\ drain \in Drain /\ slipped \in Nat /\ leader # NoKey /\ drain.result = "none"
      /\ UNCHANGED <<starts, misfired, scopeVars>>
  BY DEF ScopeType, LoopOver, Sequenced
<1>2. CASE /\ drain' = [drain EXCEPT !.phase = "kill", !.step = "signal", !.quiet = 0]
           /\ Begin("signal", os) /\ UNCHANGED slipped
  <2>1. drain' \in Drain /\ drain'.step = "signal" /\ drain'.result = "none" /\ drain'.quiet = 0
    BY <1>1, <1>2 DEF Drain
  <2>2. slipped' \in Nat /\ slipped' >= Counted'
    BY <1>1, <1>2, <2>1 DEF Counted
  <2> QED
    BY <1>1, <1>2, <2>1, <2>2, BeginStep DEF Callers
<1>3. CASE /\ drain' = [drain EXCEPT !.step = "last"]
           /\ Begin("last", os) /\ slipped' = 0
  <2>1. drain' \in Drain /\ drain'.step = "last" /\ drain'.result = "none"
    BY <1>1, <1>3 DEF Drain
  <2>2. slipped' \in Nat /\ slipped' >= Counted'
    BY <1>1, <1>3, <2>1 DEF Counted
  <2> QED
    BY <1>1, <1>3, <2>1, <2>2, BeginStep DEF Callers
<1> QED
  BY <1>2, <1>3 DEF LoopOver

LEMMA LastReturnsStep ==
  ASSUME LinuxInv, LastReturns
  PROVE  LinuxInv'
<1> USE DEF LinuxInv
<1>1. /\ drain \in Drain /\ slipped \in Nat /\ leader # NoKey /\ Discovered("last") /\ Counted = 0
      /\ EndDiscovery /\ UNCHANGED <<starts, slipped, misfired, scopeVars>>
  BY DEF ScopeType, LastReturns, Sequenced, Discovered, Counted
<1>2. /\ drain' \in Drain /\ drain'.step = "over"
      /\ drain'.result \in {"failed", "empty at last", "survivors"}
      /\ drain'.result = "empty at last" => pending = {} /\ Census = {}
  BY <1>1 DEF Drain, Return, Results, LastReturns
<1>3. slipped >= Counted'
  <2>1. Counted' = 0
    BY <1>2 DEF Counted
  <2> QED
    BY <1>1, <2>1
<1>4. ASSUME drain'.result = "empty at last", ~fatal, LiveOwned # {} PROVE slipped >= 1
  <2>1. slipped >= Counted + 1
    BY <1>1, <1>2, <1>4, FoundNothing
  <2> QED
    BY <1>1, <2>1
<1>5. DrainTruthful'
  BY <1>1, <1>2, <1>4 DEF DrainTruthful, LiveOwned, EndDiscovery, scopeVars
<1> QED
  BY <1>1, <1>2, <1>3, <1>5, EndStep

-----------------------------------------------------------------------------
(* Processes come and go, and signals end some, while the scope works.     *)

LEMMA TableStep ==
  ASSUME LinuxInv, os' \in [Pids -> Processes], \A p \in Pids : Ages(p),
         \A p \in Pids : os'[p].run => os'[p].start # 0,
         starts' \in {starts, starts + 1}, slipped' \in {slipped, slipped + 1},
         drain.step \notin {"over", "closed"}, drain' \in Drain, drain'.step = drain.step,
         drain'.quiet = drain.quiet, drain'.result = drain.result,
         \A p \in LiveOwned' : \/ p \in LiveOwned /\ os'[p].start = os[p].start
                               \/ LiveOwned # {} /\ slipped' = slipped + 1,
         ~misfired', UNCHANGED <<disc, scopeVars>>
  PROVE  LinuxInv'
<1> USE DEF LinuxInv
<1>1. UNCHANGED <<baseline, leader, known, handles, pending, fatal, disc>>
  BY DEF scopeVars
<1>2. ScopeType'
  BY <1>1 DEF ScopeType
<1>3. Fresh'
  BY <1>1, FreshKept DEF ScopeType, Fresh
<1>4. Owned'
  BY <1>1, OwnedKept
<1>5. Held'
  <2>1. ASSUME disc.step \in {"open", "recheck"}
        PROVE  /\ disc.opening \in Lifetimes /\ Descends(disc.opening)'
               /\ Key(disc.opening[1])' = disc.opening => Key(disc.opening[1]) = disc.opening
    <3>1. disc.opening \in Lifetimes /\ Descends(disc.opening) /\ disc.opening[2] <= starts
      BY <2>1 DEF Held, Fresh
    <3>2. Descends(disc.opening)'
      BY <1>1, <3>1, DescendsKept DEF Descends
    <3>3. Key(disc.opening[1])' = disc.opening => Key(disc.opening[1]) = disc.opening
      BY <3>1 DEF Ages, Key, Lifetimes, ScopeType, Processes
    <3> QED
      BY <3>1, <3>2, <3>3
  <2>2. Descends(disc.opening)' <=> (os'[disc.opening[1]].start = disc.opening[2]
                                       => os'[disc.opening[1]].marked)
    BY <1>1 DEF Descends
  <2> QED
    BY <1>1, <2>1, <2>2 DEF Held, Descends, Key
<1>6. Slips'
  <2>1. Counted' = Counted /\ Counted \in Nat /\ slipped \in Nat
    BY DEF Counted, ScopeType, Drain
  <2>2. ASSUME NEW p \in LiveOwned', p \in LiveOwned, os'[p].start = os[p].start
        PROVE  Accounted(p)' = Accounted(p)
    BY <1>1, <2>2 DEF Accounted, Key
  <2>3. ASSUME NEW p \in LiveOwned', ~fatal'
        PROVE  slipped' >= Counted' /\ (~Accounted(p)' => slipped' >= Counted' + 1)
    <3>1. CASE p \in LiveOwned /\ os'[p].start = os[p].start
      BY <1>1, <2>1, <2>2, <2>3, <3>1 DEF Slips
    <3>2. CASE LiveOwned # {} /\ slipped' = slipped + 1
      BY <1>1, <2>1, <2>3, <3>2 DEF Slips
    <3> QED
      BY <3>1, <3>2
  <2> QED
    BY <2>3 DEF Slips
<1>7. Sequenced'
  BY <1>1 DEF Sequenced
<1>8. DrainTruthful'
  BY DEF DrainTruthful, Sequenced
<1> QED
  BY <1>2, <1>3, <1>4, <1>5, <1>6, <1>7, <1>8 DEF SignalsOnlyOwned

\* What Born and Ended make of the table.
LEMMA BornFacts ==
  ASSUME ScopeType, Fresh, NEW q \in Pids, NEW m \in BOOLEAN, os' = Born(q, m), starts' = starts + 1
  PROVE  /\ os' \in [Pids -> Processes]
         /\ \A p \in Pids : Ages(p) /\ (os'[p].run => os'[p].start # 0)
         /\ \A p \in Pids : p # q => os'[p] = os[p]
         /\ os'[q].marked = m
<1>1. starts \in Nat /\ os \in [Pids -> Processes] /\ \A p \in Pids : os[p].run => os[p].start # 0
  BY DEF ScopeType, Fresh
<1>2. os' = [os EXCEPT ![q] = [start |-> starts + 1, run |-> TRUE, marked |-> m]]
  BY DEF Born
<1>3. os' \in [Pids -> Processes]
  BY <1>1, <1>2 DEF Processes
<1>4. \A p \in Pids : os'[p] = IF p = q THEN [start |-> starts + 1, run |-> TRUE, marked |-> m]
                               ELSE os[p]
  BY <1>1, <1>2
<1> QED
  BY <1>1, <1>3, <1>4 DEF Ages

LEMMA EndedFacts ==
  ASSUME ScopeType, Fresh, NEW q \in Pids, os[q].run, os' = [os EXCEPT ![q] = Ended(q)]
  PROVE  /\ os' \in [Pids -> Processes]
         /\ \A p \in Pids : Ages(p) /\ (os'[p].run => os'[p].start # 0)
         /\ \A p \in Pids : p # q => os'[p] = os[p]
         /\ ~os'[q].run
<1>1. os \in [Pids -> Processes] /\ \A p \in Pids : os[p].run => os[p].start # 0
  BY DEF ScopeType, Fresh
<1>2. /\ Ended(q) \in Processes /\ ~Ended(q).run
      /\ \/ Ended(q).start = os[q].start /\ Ended(q).marked = os[q].marked
         \/ Ended(q).start = 0
  BY <1>1 DEF Ended, Free, Processes
<1>3. \A p \in Pids : os'[p] = IF p = q THEN Ended(q) ELSE os[p]
  BY <1>1
<1>4. os' \in [Pids -> Processes]
  BY <1>1, <1>2
<1> QED
  BY <1>1, <1>2, <1>3, <1>4 DEF Ages

LEMMA ForkStep ==
  ASSUME LinuxInv, NEW p \in Pids, NEW q \in Pids, Fork(p, q)
  PROVE  LinuxInv'
<1> USE DEF LinuxInv
<1>1. /\ os' = Born(q, TRUE) /\ starts' = starts + 1 /\ slipped' = slipped + 1
      /\ drain.step \notin {"over", "closed"}
      /\ UNCHANGED <<misfired, disc, drain, scopeVars>> /\ ~misfired'
  BY DEF Fork, SignalsOnlyOwned
<1>2. LiveOwned # {}
  BY DEF Fork, LiveOwned, ScopeType
<1>3. /\ os' \in [Pids -> Processes]
      /\ \A r \in Pids : Ages(r) /\ (os'[r].run => os'[r].start # 0)
  BY <1>1, BornFacts
<1>4. drain' \in Drain /\ drain'.step = drain.step /\ drain'.quiet = drain.quiet
      /\ drain'.result = drain.result
  BY <1>1 DEF ScopeType
<1> QED
  BY <1>1, <1>2, <1>3, <1>4, TableStep

LEMMA StartForeignStep ==
  ASSUME LinuxInv, NEW q \in Pids, StartForeign(q)
  PROVE  LinuxInv'
<1> USE DEF LinuxInv
<1>1. /\ os' = Born(q, FALSE) /\ starts' = starts + 1 /\ slipped' = slipped
      /\ drain.step \notin {"over", "closed"}
      /\ UNCHANGED <<misfired, disc, drain, scopeVars>> /\ ~misfired'
  BY DEF StartForeign, SignalsOnlyOwned
<1>2. /\ os' \in [Pids -> Processes]
      /\ \A r \in Pids : Ages(r) /\ (os'[r].run => os'[r].start # 0)
      /\ \A r \in Pids : r # q => os'[r] = os[r]
      /\ ~os'[q].marked
  BY <1>1, BornFacts
<1>3. \A r \in LiveOwned' : r \in LiveOwned /\ os'[r].start = os[r].start
  BY <1>2 DEF LiveOwned, ScopeType
<1>4. drain' \in Drain /\ drain'.step = drain.step /\ drain'.quiet = drain.quiet
      /\ drain'.result = drain.result
  BY <1>1 DEF ScopeType
<1> QED
  BY <1>1, <1>2, <1>3, <1>4, TableStep

LEMMA ExitStep ==
  ASSUME LinuxInv, NEW q \in Pids, Exit(q)
  PROVE  LinuxInv'
<1> USE DEF LinuxInv
<1>1. /\ os[q].run /\ os' = [os EXCEPT ![q] = Ended(q)] /\ starts' = starts /\ slipped' = slipped
      /\ drain.step \notin {"over", "closed"}
      /\ UNCHANGED <<misfired, disc, drain, scopeVars>> /\ ~misfired'
  BY DEF Exit, SignalsOnlyOwned
<1>2. /\ os' \in [Pids -> Processes]
      /\ \A r \in Pids : Ages(r) /\ (os'[r].run => os'[r].start # 0)
      /\ \A r \in Pids : r # q => os'[r] = os[r]
      /\ ~os'[q].run
  BY <1>1, EndedFacts
<1>3. \A r \in LiveOwned' : r \in LiveOwned /\ os'[r].start = os[r].start
  BY <1>2 DEF LiveOwned, ScopeType
<1>4. drain' \in Drain /\ drain'.step = drain.step /\ drain'.quiet = drain.quiet
      /\ drain'.result = drain.result
  BY <1>1 DEF ScopeType
<1> QED
  BY <1>1, <1>2, <1>3, <1>4, TableStep

\* A descriptor names the lifetime that was registered with it, so the signal
\* ends that descendant or nothing.
LEMMA SendStep ==
  ASSUME LinuxInv, NEW k \in drain.send, Send(k)
  PROVE  LinuxInv'
<1> USE DEF LinuxInv
<1>1. /\ k \in known /\ handles[k] = k /\ Signalled(k, k)
      /\ k \in Lifetimes /\ k[1] \in Pids /\ Descends(k)
  BY DEF Send, Held, Owned, ScopeType, Lifetimes
<1>2. /\ drain.step = "signal" /\ drain' = [drain EXCEPT !.send = @ \ {k}]
      /\ UNCHANGED <<starts, slipped, disc, scopeVars>>
  BY <1>1 DEF Signalled
<1>3. ~misfired'
  <2>1. Alive(k) => os[k[1]].marked
    BY <1>1 DEF Alive, Key, Descends, Lifetimes
  <2> QED
    BY <1>1, <2>1, Zenon DEF Signalled, SignalsOnlyOwned
<1>4. drain' \in Drain /\ drain'.step = drain.step /\ drain'.quiet = drain.quiet
      /\ drain'.result = drain.result
  BY <1>2 DEF ScopeType, Drain
<1>5. CASE Alive(k) /\ os' = [os EXCEPT ![k[1]] = Ended(k[1])]
  <2>1. os[k[1]].run
    BY <1>5 DEF Alive
  <2>2. /\ os' \in [Pids -> Processes]
        /\ \A r \in Pids : Ages(r) /\ (os'[r].run => os'[r].start # 0)
        /\ \A r \in Pids : r # k[1] => os'[r] = os[r]
        /\ ~os'[k[1]].run
    BY <1>1, <1>5, <2>1, EndedFacts
  <2>3. \A r \in LiveOwned' : r \in LiveOwned /\ os'[r].start = os[r].start
    BY <2>2 DEF LiveOwned, ScopeType
  <2> QED
    BY <1>2, <1>3, <1>4, <2>2, <2>3, TableStep
<1>6. CASE UNCHANGED os
  <2>1. /\ os' \in [Pids -> Processes]
        /\ \A r \in Pids : Ages(r) /\ (os'[r].run => os'[r].start # 0)
        /\ \A r \in LiveOwned' : r \in LiveOwned /\ os'[r].start = os[r].start
    BY <1>6 DEF Ages, Fresh, ScopeType, LiveOwned
  <2> QED
    BY <1>2, <1>3, <1>4, <2>1, TableStep
<1> QED
  BY <1>1, <1>5, <1>6 DEF Signalled

LEMMA SignalDoneStep ==
  ASSUME LinuxInv, SignalDone
  PROVE  LinuxInv'
<1> USE DEF LinuxInv
<1>1. /\ drain.step = "signal" /\ drain' = [drain EXCEPT !.step = "ready"]
      /\ EndDiscovery
      /\ UNCHANGED <<starts, slipped, misfired, scopeVars>>
  BY DEF SignalDone, osVars, EndDiscovery
<1>2. /\ drain' \in Drain /\ drain'.step = "ready" /\ drain'.quiet = drain.quiet
      /\ drain'.result = drain.result
  BY <1>1 DEF ScopeType, Drain
<1>3. leader # NoKey /\ drain.result = "none" /\ Counted' = Counted
  BY <1>1, <1>2 DEF Sequenced, Counted
<1>4. ~fatal /\ LiveOwned # {} => slipped >= Counted'
  BY <1>3 DEF Slips
<1> QED
  BY <1>1, <1>2, <1>3, <1>4, EndStep DEF DrainTruthful

LEMMA CloseStep ==
  ASSUME LinuxInv, Close
  PROVE  LinuxInv'
<1> USE DEF LinuxInv
<1>1. /\ drain.step = "over" /\ drain' = [drain EXCEPT !.step = "closed"] /\ handles' = <<>>
      /\ UNCHANGED <<os, starts, slipped, misfired, disc, baseline, leader, known, pending, fatal>>
  BY DEF Close, osVars
<1>2. /\ drain' \in Drain /\ drain'.step = "closed" /\ drain'.quiet = drain.quiet
      /\ drain'.result = drain.result /\ drain'.need = drain.need
  BY <1>1 DEF ScopeType, Drain
<1>3. ScopeType' /\ Fresh' /\ Owned'
  BY <1>1, <1>2 DEF ScopeType, Fresh, Owned, Descends
<1>4. Held'
  <2>1. DOMAIN handles' = {}
    BY <1>1
  <2> QED
    BY <1>1, <2>1 DEF Held, Descends, Key
<1>5. Slips'
  <2>1. Counted' = Counted /\ \A p \in LiveOwned : Accounted(p)' = Accounted(p)
    BY <1>1, <1>2 DEF Counted, Accounted, Key
  <2> QED
    BY <1>1, <2>1 DEF Slips, LiveOwned
<1>6. Sequenced' /\ DrainTruthful'
  BY <1>1, <1>2 DEF Sequenced, DrainTruthful, LiveOwned
<1> QED
  BY <1>1, <1>3, <1>4, <1>5, <1>6 DEF SignalsOnlyOwned

\* What the invariant speaks of; the rest of the state does not matter to it.
linuxVars == <<os, starts, slipped, misfired, baseline, leader, known, handles, pending, fatal,
               disc, drain>>

LEMMA LinuxIdle ==
  ASSUME LinuxInv, UNCHANGED linuxVars
  PROVE  LinuxInv'
<1> USE DEF LinuxInv, linuxVars
<1>1. ScopeType' /\ Fresh' /\ Owned' /\ Held'
  BY DEF ScopeType, Fresh, Owned, Held, Descends, Key
<1>2. Slips'
  BY DEF Slips, Accounted, Counted, LiveOwned, Key
<1>3. Sequenced' /\ DrainTruthful' /\ SignalsOnlyOwned'
  BY DEF Sequenced, DrainTruthful, SignalsOnlyOwned, LiveOwned
<1> QED
  BY <1>1, <1>2, <1>3

LEMMA LinuxStep ==
  ASSUME LinuxInv, Next
  PROVE  LinuxInv'
<1>1. ASSUME Controller PROVE LinuxInv'
  BY <1>1, IdentifyStep, PidfdOpenStep, RecheckStep, InspectStep, SpawnStep, SpawnReturnsStep,
     SampleStep, SampleReturnsStep, SignalReturnsStep, SignalDoneStep, SendStep, PhaseOverStep,
     LoopOverStep, LastReturnsStep, CloseStep DEF Controller
<1>2. ASSUME Environment PROVE LinuxInv'
  BY <1>2, ForkStep, StartForeignStep, ExitStep, InspectFailsStep DEF Environment
<1>3. ASSUME Expire PROVE LinuxInv'
  BY <1>3, LinuxIdle DEF Expire, linuxVars, osVars, scopeVars
<1> QED
  BY <1>1, <1>2, <1>3 DEF Next

\* Init holds no process of the scope, and the census before it is the baseline.
LEMMA InitFacts ==
  ASSUME Init
  PROVE  /\ ScopeType /\ Fresh /\ Owned
         /\ LiveOwned = {} /\ leader = NoKey /\ known = {} /\ pending = {} /\ disc = NoDiscovery
         /\ handles = <<>> /\ ~misfired /\ slipped = 0
         /\ drain.step = "none" /\ drain.quiet = 0 /\ drain.result = "none" /\ drain.send = {}
<1>1. PICK B \in SUBSET Pids :
        /\ os = [p \in Pids |-> IF p \in B THEN [start |-> 1, run |-> TRUE, marked |-> FALSE]
                                ELSE Free]
        /\ baseline = {<<p, 1>> : p \in B}
  BY DEF Init
<1>2. /\ starts = 1 /\ leader = NoKey /\ known = {} /\ pending = {} /\ disc = NoDiscovery
      /\ handles = <<>> /\ misfired = FALSE /\ slipped = 0
  BY DEF Init
<1>3. PICK r \in Routes : drain = [NoDrain EXCEPT !.route = r]
  BY DEF Init
<1>4. r \in {"bounded", "plain"} /\ QuietRequired \in Nat
  BY ProcessAssumption
<1>5. drain \in Drain /\ drain.step = "none" /\ drain.quiet = 0 /\ drain.result = "none"
      /\ drain.send = {}
  BY <1>3, <1>4 DEF NoDrain, Drain, Results
<1>6. os \in [Pids -> Processes] /\ \A p \in Pids : ~os[p].marked /\ os[p].start <= 1
                                               /\ (os[p].run => os[p].start # 0)
  BY <1>1 DEF Free, Processes
<1>7. baseline \subseteq Lifetimes /\ \A k \in baseline : k[1] \in Pids /\ k[2] = 1
  BY <1>1 DEF Lifetimes
<1>8. ScopeType
  BY <1>2, <1>5, <1>6, <1>7, NoDiscoveryFields DEF ScopeType
<1>9. Fresh /\ Owned
  BY <1>2, <1>6, <1>7, NoDiscoveryFields DEF Fresh, Owned
<1>10. LiveOwned = {}
  BY <1>6 DEF LiveOwned
<1> QED
  BY <1>2, <1>5, <1>8, <1>9, <1>10

LEMMA LinuxStart ==
  ASSUME Init
  PROVE  LinuxInv
<1>1. Held
  BY InitFacts, NoDiscoveryFields DEF Held
<1>2. Slips /\ Sequenced
  BY InitFacts, NoDiscoveryFields DEF Slips, Sequenced
<1> QED
  BY <1>1, <1>2, InitFacts DEF LinuxInv, SignalsOnlyOwned, DrainTruthful

-----------------------------------------------------------------------------
(* The inductive invariant of the Windows scope.                           *)

\* A member that the census in progress does not know of joined the job after
\* the census began.
Surveys ==
  disc.step = "members" =>
    /\ drain.need = 1
    /\ \A p \in LiveOwned : p \in disc.pids \/ Key(p) \in found \/ slipped >= 1

\* The open handle keeps the leader's pid from being used again.
LeaderHeld ==
  /\ leader # NoKey => os[leader[1]].start = leader[2] /\ os[leader[1]].marked
  /\ drain.step # "closed" => drain.send \subseteq {leader} \ {NoKey}

Launched ==
  /\ launch \notin {"returned", "failed"} =>
       drain.step = "none" /\ drain.send = {} /\ disc.step = "none"
  /\ launch = "none" => leader = NoKey
  /\ drain.step \in {"signal", "over", "closed"} => disc.step = "none"
  /\ drain.result # "none" => drain.step \in {"over", "closed"}
  /\ drain.step # "none" => drain.need = 1

WindowsInv ==
  /\ os \in [Pids -> Processes] /\ starts \in Nat /\ slipped \in Nat
  /\ leader \in Lifetimes \cup {NoKey} /\ disc \in Discovery /\ drain \in Drain
  /\ Surveys /\ LeaderHeld /\ Launched
  /\ SignalsOnlyOwned /\ DrainTruthful

\* Between two steps members end or, if slipped counts it, join; the drain
\* goes on or fails.
LEMMA MembersStep ==
  ASSUME WindowsInv, os' \in [Pids -> Processes], starts' \in Nat, slipped' \in Nat,
         slipped' >= slipped, drain' \in Drain, drain'.need = drain.need,
         drain.step = "none" => drain'.step = "none",
         leader # NoKey => /\ os'[leader[1]].start = os[leader[1]].start
                           /\ os'[leader[1]].marked = os[leader[1]].marked,
         \A p \in LiveOwned' : \/ p \in LiveOwned /\ os'[p].start = os[p].start
                               \/ slipped' >= 1,
         drain'.result \in {"none", "failed"},
         drain'.result = "failed" => drain'.step = "over",
         drain'.step \in {"signal", "over", "closed"} => disc.step = "none",
         drain'.send \subseteq {leader} \ {NoKey},
         launch \notin {"returned", "failed"} => drain'.step = "none" /\ drain'.send = {},
         ~misfired', UNCHANGED <<leader, launch, disc, found>>
  PROVE  WindowsInv'
<1> USE DEF WindowsInv
<1>1. Surveys'
  BY DEF Surveys, Key
<1>2. LeaderHeld' /\ Launched'
  BY DEF LeaderHeld, Launched
<1>3. DrainTruthful' /\ SignalsOnlyOwned'
  BY DEF DrainTruthful, SignalsOnlyOwned
<1> QED
  BY <1>1, <1>2, <1>3

\* A census is over, or there was none.
LEMMA CensusOver ==
  ASSUME WindowsInv, EndDiscovery, drain' \in Drain, drain'.send \subseteq drain.send,
         drain'.need = 1,
         drain.step # "closed", launch \in {"returned", "failed"},
         drain'.result # "none" => drain'.step \in {"over", "closed"},
         DrainTruthful',
         UNCHANGED <<starts, slipped, misfired, leader, launch>>
  PROVE  WindowsInv'
<1> USE DEF WindowsInv
<1>1. os' = os /\ disc' \in Discovery /\ disc'.step = "none"
  BY NoDiscoveryFields DEF EndDiscovery
<1>2. Surveys' /\ LeaderHeld' /\ Launched'
  BY <1>1 DEF Surveys, LeaderHeld, Launched
<1> QED
  BY <1>1, <1>2 DEF SignalsOnlyOwned

\* _member_pids lists every member that runs.
LEMMA QueryStep ==
  ASSUME WindowsInv, NEW for \in Callers, Query(for), drain' \in Drain, drain'.send = drain.send,
         drain'.need = 1, drain'.step \in {"first", "ready", "last"}, drain'.result = "none",
         drain.step # "closed", launch \in {"returned", "failed"}, slipped' = 0,
         UNCHANGED <<os, starts, misfired, leader, launch>>
  PROVE  WindowsInv'
<1> USE DEF WindowsInv
<1>1. LiveOwned \subseteq Pids
  BY DEF LiveOwned
<1>2. disc' \in Discovery /\ disc'.step = "members" /\ disc'.pids = LiveOwned
  BY <1>1, NoDiscoveryFields DEF Query, Discovery
<1>3. Surveys'
  BY <1>2 DEF Surveys, LiveOwned
<1>4. LeaderHeld' /\ Launched'
  BY <1>2 DEF LeaderHeld, Launched
<1> QED
  BY <1>2, <1>3, <1>4 DEF SignalsOnlyOwned, DrainTruthful

\* An empty census of members that run rests on a fork.
LEMMA SurveyedNothing ==
  ASSUME WindowsInv, NEW for, Surveyed(for), found = {}, LiveOwned # {}
  PROVE  drain.need = 1 /\ slipped >= 1
BY DEF WindowsInv, Surveyed, Surveys

\* What TerminateJobObject and the release of a handle make of the table.
LEMMA TerminatedFacts ==
  ASSUME WindowsInv, NEW held \in BOOLEAN, Terminated(held) \/ Released(held)
  PROVE  /\ os' \in [Pids -> Processes]
         /\ held /\ leader # NoKey => /\ os'[leader[1]].start = os[leader[1]].start
                                      /\ os'[leader[1]].marked = os[leader[1]].marked
         /\ \A p \in LiveOwned' : p \in LiveOwned /\ os'[p].start = os[p].start
<1> USE DEF WindowsInv
<1>1. \A p \in Pids : /\ Ended(p) \in Processes /\ ~Ended(p).run
                      /\ Key(p) = leader => /\ Ended(p).start = os[p].start
                                            /\ Ended(p).marked = os[p].marked
  BY DEF Ended, Free, Processes
<1>2. Free \in Processes /\ ~Free.run
  BY DEF Free, Processes
<1>3. os' \in [Pids -> Processes]
  BY <1>1, <1>2 DEF Terminated, Released
<1>4. ASSUME held, leader # NoKey
      PROVE  /\ os'[leader[1]].start = os[leader[1]].start
             /\ os'[leader[1]].marked = os[leader[1]].marked
  <2>1. leader[1] \in Pids /\ Key(leader[1]) = leader
    BY <1>4 DEF LeaderHeld, Key, Lifetimes
  <2> QED
    BY <1>1, <1>4, <2>1 DEF Terminated, Released
<1>5. ASSUME NEW p \in LiveOwned' PROVE p \in LiveOwned /\ os'[p].start = os[p].start
  <2>1. p \in Pids /\ os'[p].run /\ os'[p].marked
    BY <1>3 DEF LiveOwned
  <2>2. os'[p] = os[p]
    BY <1>1, <1>2, <2>1 DEF Terminated, Released
  <2> QED
    BY <2>1, <2>2 DEF LiveOwned
<1> QED
  BY <1>3, <1>4, <1>5

-----------------------------------------------------------------------------
(* The launch of the Windows scope.                                        *)

LEMMA WindowsSpawnStep ==
  ASSUME WindowsInv, NEW q \in Pids, WindowsSpawn(q)
  PROVE  WindowsInv'
<1> USE DEF WindowsInv
<1>1. /\ launch = "none" /\ launch' = "suspended" /\ os' = Born(q, TRUE) /\ starts' = starts + 1
      /\ leader' = <<q, starts + 1>> /\ leader' # NoKey /\ os[q].start = 0
      /\ UNCHANGED <<slipped, misfired, disc, drain, found>>
  BY DEF WindowsSpawn, NoKey
<1>2. drain.step = "none" /\ drain.send = {} /\ disc.step = "none" /\ drain.result = "none"
  BY <1>1 DEF Launched
<1>3. os' \in [Pids -> Processes] /\ os'[q].start = starts + 1 /\ os'[q].marked
  BY <1>1 DEF Born, Processes
<1>4. leader' \in Lifetimes /\ starts' \in Nat
  BY <1>1 DEF Lifetimes
<1>5. Surveys' /\ LeaderHeld' /\ Launched'
  BY <1>1, <1>2, <1>3 DEF Surveys, LeaderHeld, Launched
<1> QED
  BY <1>1, <1>2, <1>3, <1>4, <1>5 DEF SignalsOnlyOwned, DrainTruthful

\* The steps of a launch leave the drain alone.
LEMMA LaunchStep ==
  ASSUME WindowsInv, launch \in {"none", "suspended", "resumed"},
         launch' \in {"resumed", "returned", "failed"},
         os' \in [Pids -> Processes], leader' \in {leader, NoKey},
         leader' = leader /\ leader # NoKey => /\ os'[leader[1]].start = os[leader[1]].start
                                               /\ os'[leader[1]].marked = os[leader[1]].marked,
         UNCHANGED <<starts, slipped, misfired, disc, drain>>
  PROVE  WindowsInv'
<1> USE DEF WindowsInv
<1>1. drain.step = "none" /\ drain.send = {} /\ disc.step = "none" /\ drain.result = "none"
  BY DEF Launched
<1>2. Surveys' /\ LeaderHeld' /\ Launched'
  BY <1>1 DEF Surveys, LeaderHeld, Launched
<1> QED
  BY <1>1, <1>2 DEF SignalsOnlyOwned, DrainTruthful

LEMMA FailedReturnStep ==
  ASSUME WindowsInv, launch \in {"suspended", "resumed"}, NEW held \in BOOLEAN, FailedReturn(held),
         UNCHANGED <<starts, slipped, misfired, disc, drain>>
  PROVE  WindowsInv'
<1>1. Terminated(held) \/ Released(held)
  BY DEF FailedReturn
<1>2. /\ os' \in [Pids -> Processes]
      /\ held /\ leader # NoKey => /\ os'[leader[1]].start = os[leader[1]].start
                                   /\ os'[leader[1]].marked = os[leader[1]].marked
  BY <1>1, TerminatedFacts
<1>3. launch' = "failed" /\ leader' = IF held THEN leader ELSE NoKey
  BY DEF FailedReturn
<1> QED
  BY <1>2, <1>3, LaunchStep

LEMMA LaunchesStep ==
  ASSUME WindowsInv, LaunchFails \/ Attach \/ LaunchReturns
  PROVE  WindowsInv'
<1>1. UNCHANGED <<starts, slipped, misfired, disc, drain>>
  BY DEF LaunchFails, Attach, LaunchReturns
<1>2. CASE \E held \in BOOLEAN : FailedReturn(held) /\ launch \in {"suspended", "resumed"}
  BY <1>1, <1>2, FailedReturnStep
<1>3. CASE /\ launch \in {"none", "suspended", "resumed"}
           /\ launch' \in {"resumed", "returned", "failed"} /\ UNCHANGED <<os, leader>>
  BY <1>1, <1>3, LaunchStep DEF WindowsInv
<1> QED
  BY <1>2, <1>3 DEF LaunchFails, Attach, LaunchReturns

-----------------------------------------------------------------------------
(* Its members, its drain and its close.                                   *)

LEMMA WindowsTableStep ==
  ASSUME WindowsInv, UNCHANGED windowsVars,
         \/ \E p, q \in Pids : Fork(p, q)
         \/ \E q \in Pids : StartForeign(q) \/ Exit(q)
  PROVE  WindowsInv'
<1> USE DEF WindowsInv
<1>0. /\ drain.step \notin {"over", "closed"}
      /\ UNCHANGED <<misfired, leader, disc, drain, launch, found>>
  <2> HIDE DEF WindowsInv
  <2> QED
    BY DEF Fork, StartForeign, Exit, scopeVars, windowsVars
<1>1. /\ drain.step \notin {"over", "closed"} /\ drain.result = "none" /\ ~misfired'
      /\ UNCHANGED <<leader, disc, drain, launch, found>>
  BY <1>0 DEF Launched, SignalsOnlyOwned
<1>2. /\ drain.send \subseteq {leader} \ {NoKey}
      /\ launch \notin {"returned", "failed"} => drain.step = "none" /\ drain.send = {}
      /\ drain.step \in {"signal", "over", "closed"} => disc.step = "none"
  BY <1>1 DEF LeaderHeld, Launched
<1>3. leader # NoKey => leader[1] \in Pids /\ Key(leader[1]) = leader /\ os[leader[1]].start # 0
  BY DEF LeaderHeld, Key, Lifetimes
<1>4. ASSUME NEW q \in Pids, NEW m \in BOOLEAN, os[q].start = 0, os' = Born(q, m),
             starts' = starts + 1, slipped' \in Nat, slipped' >= slipped, m => slipped' >= 1
      PROVE  WindowsInv'
  <2>1. os' \in [Pids -> Processes] /\ os'[q].marked = m /\ \A p \in Pids : p # q => os'[p] = os[p]
    BY <1>4 DEF Born, Processes
  <2>2. leader # NoKey => os'[leader[1]] = os[leader[1]]
    BY <1>3, <1>4, <2>1
  <2>3. \A p \in LiveOwned' : \/ p \in LiveOwned /\ os'[p].start = os[p].start
                              \/ slipped' >= 1
    BY <1>4, <2>1 DEF LiveOwned
  <2> QED
    BY <1>1, <1>2, <1>4, <2>1, <2>2, <2>3, MembersStep
<1>5. ASSUME NEW q \in Pids, Exit(q) PROVE WindowsInv'
  <2>1. os' = [os EXCEPT ![q] = Ended(q)] /\ UNCHANGED <<starts, slipped>>
    BY <1>5 DEF Exit
  <2>2. /\ Ended(q) \in Processes /\ ~Ended(q).run
        /\ Key(q) = leader => Ended(q).start = os[q].start /\ Ended(q).marked = os[q].marked
    BY DEF Ended, Free, Processes
  <2>3. /\ os' \in [Pids -> Processes] /\ os'[q] = Ended(q)
        /\ \A p \in Pids : p # q => os'[p] = os[p]
    BY <2>1, <2>2
  <2>4. leader # NoKey => /\ os'[leader[1]].start = os[leader[1]].start
                          /\ os'[leader[1]].marked = os[leader[1]].marked
    BY <1>3, <2>2, <2>3
  <2>5. \A p \in LiveOwned' : p \in LiveOwned /\ os'[p].start = os[p].start
    BY <2>2, <2>3 DEF LiveOwned
  <2> QED
    BY <1>1, <1>2, <2>1, <2>3, <2>4, <2>5, MembersStep
<1>6. ASSUME NEW p \in Pids, NEW q \in Pids, Fork(p, q) PROVE WindowsInv'
  <2>1. /\ os[q].start = 0 /\ os' = Born(q, TRUE) /\ starts' = starts + 1
        /\ slipped' = slipped + 1
    BY <1>6 DEF Fork
  <2>2. slipped' \in Nat /\ slipped' >= slipped /\ slipped' >= 1
    BY <2>1
  <2> QED
    BY <1>4, <2>1, <2>2
<1>7. ASSUME NEW q \in Pids, StartForeign(q) PROVE WindowsInv'
  <2>1. /\ os[q].start = 0 /\ os' = Born(q, FALSE) /\ starts' = starts + 1
        /\ slipped' = slipped
    BY <1>7 DEF StartForeign
  <2>2. slipped' \in Nat /\ slipped' >= slipped
    BY <2>1
  <2> QED
    BY <1>4, <2>1, <2>2
<1> QED
  BY <1>5, <1>6, <1>7

LEMMA InspectMemberStep ==
  ASSUME WindowsInv, NEW q \in disc.pids, InspectMember(q)
  PROVE  WindowsInv'
<1> USE DEF WindowsInv
<1>1. /\ disc.step = "members" /\ UNCHANGED <<os, starts, slipped, misfired, leader, fatal, launch>>
  BY DEF InspectMember
<1>2. /\ launch \in {"returned", "failed"} /\ drain.step \notin {"signal", "over", "closed"}
      /\ drain.result = "none" /\ drain.need = 1
  BY <1>1 DEF Launched, Surveys
<1>3. CASE /\ disc' = [disc EXCEPT !.pids = @ \ {q}] /\ UNCHANGED drain
           /\ \/ q \notin LiveOwned /\ UNCHANGED found
              \/ found' = found \cup {Key(q)}
  <2>1. disc' \in Discovery /\ disc'.step = "members" /\ disc'.pids = disc.pids \ {q}
    BY <1>1, <1>3 DEF Discovery
  <2>2. Surveys'
    BY <1>1, <1>3, <2>1 DEF Surveys, Key, LiveOwned
  <2>3. LeaderHeld' /\ Launched'
    BY <1>1, <1>2, <1>3, <2>1 DEF LeaderHeld, Launched
  <2> QED
    BY <1>1, <1>2, <1>3, <2>1, <2>2, <2>3 DEF SignalsOnlyOwned, DrainTruthful
<1>4. CASE disc' = NoDiscovery /\ drain' = Return("failed")
  <2>1. drain' \in Drain /\ drain'.send = drain.send /\ drain'.step = "over"
        /\ drain'.result = "failed" /\ drain'.need = 1
    BY <1>2, <1>4 DEF Return, Drain, Results
  <2> QED
    BY <1>1, <1>2, <1>4, <2>1, CensusOver DEF EndDiscovery, DrainTruthful
<1> QED
  BY <1>3, <1>4 DEF InspectMember

LEMMA WindowsSampleStep ==
  ASSUME WindowsInv, WindowsSample
  PROVE  WindowsInv'
<1> USE DEF WindowsInv
<1>1. /\ drain.step \in {"none", "ready"} /\ drain.result = "none" /\ slipped' = 0
      /\ Query("sample") /\ launch \in {"returned", "failed"}
      /\ UNCHANGED <<os, starts, misfired, leader, launch>>
  BY DEF WindowsSample, Launched, osVars, scopeVars, windowsVars
<1>2. /\ drain' \in Drain /\ drain'.need = 1 /\ drain'.step \in {"first", "ready"}
      /\ drain'.send = drain.send /\ drain'.result = drain.result
  BY <1>1 DEF WindowsSample, Drain
<1> QED
  BY <1>1, <1>2, QueryStep DEF Callers

\* Every answer of a census or of the end of a phase.
LEMMA WindowsReturnStep ==
  ASSUME WindowsInv, EndDiscovery, drain' \in Drain, drain'.send \subseteq drain.send,
         drain'.need = 1, drain.step # "closed", launch \in {"returned", "failed"},
         drain'.result # "none" => drain'.step = "over",
         drain'.result \in {"drained", "empty at last"} /\ LiveOwned # {} =>
            slipped >= 1,
         UNCHANGED <<starts, slipped, misfired, leader, launch>>
  PROVE  WindowsInv'
<1>1. DrainTruthful'
  BY DEF WindowsInv, DrainTruthful, LiveOwned, EndDiscovery
<1> QED
  BY <1>1, CensusOver

LEMMA WindowsSampleReturnsStep ==
  ASSUME WindowsInv, WindowsSampleReturns
  PROVE  WindowsInv'
<1> USE DEF WindowsInv
<1>1. /\ Surveyed("sample") /\ EndDiscovery /\ launch \in {"returned", "failed"}
      /\ drain.step \notin {"over", "closed"} /\ drain.result = "none" /\ drain.need = 1
      /\ UNCHANGED <<starts, slipped, misfired, leader, launch>>
  BY DEF WindowsSampleReturns, Surveyed, Surveys, Launched, scopeVars
<1>2. CASE found = {} /\ drain' = Return("drained")
  <2>1. /\ drain' \in Drain /\ drain'.send = drain.send /\ drain'.step = "over"
        /\ drain'.result = "drained" /\ drain'.need = drain.need
    BY <1>2 DEF Return, Drain, Results
  <2> QED
    BY <1>1, <1>2, <2>1, SurveyedNothing, WindowsReturnStep
<1>3. CASE \/ drain' = [drain EXCEPT !.step = "ready"]
           \/ \E s \in {"signal", "ready"} : drain' = [drain EXCEPT !.live = found # {}, !.step = s]
  <2>1. /\ drain' \in Drain /\ drain'.send = drain.send /\ drain'.result = drain.result
        /\ drain'.need = drain.need
    BY <1>3 DEF Drain
  <2> QED
    BY <1>1, <2>1, WindowsReturnStep
<1> QED
  BY <1>2, <1>3 DEF WindowsSampleReturns

LEMMA WindowsPhaseOverStep ==
  ASSUME WindowsInv, WindowsPhaseOver
  PROVE  WindowsInv'
<1> USE DEF WindowsInv
<1>1. /\ EndDiscovery /\ launch \in {"returned", "failed"}
      /\ drain.step \notin {"over", "closed"} /\ drain.result = "none" /\ drain.need = 1
      /\ UNCHANGED <<starts, slipped, misfired, leader, launch>>
  BY DEF WindowsPhaseOver, Launched, scopeVars
<1>2. CASE drain' = [drain EXCEPT !.phase = "kill", !.step = "ready", !.send = {}]
  <2>1. drain' \in Drain /\ drain'.send = {} /\ drain'.result = "none" /\ drain'.need = drain.need
    BY <1>1, <1>2 DEF Drain
  <2> QED
    BY <1>1, <2>1, WindowsReturnStep
<1>3. CASE \E r \in {"survivors", "failed"} : drain' = Return(r)
  <2>1. /\ drain' \in Drain /\ drain'.send = drain.send /\ drain'.step = "over"
        /\ drain'.result \in {"survivors", "failed"} /\ drain'.need = drain.need
    BY <1>3 DEF Return, Drain, Results
  <2> QED
    BY <1>1, <2>1, WindowsReturnStep
<1> QED
  BY <1>2, <1>3 DEF WindowsPhaseOver

LEMMA WindowsLastReturnsStep ==
  ASSUME WindowsInv, WindowsLastReturns
  PROVE  WindowsInv'
<1> USE DEF WindowsInv
<1>1. /\ Surveyed("last") /\ EndDiscovery /\ launch \in {"returned", "failed"}
      /\ drain.step # "closed" /\ drain.need = 1
      /\ UNCHANGED <<starts, slipped, misfired, leader, launch>>
  BY DEF WindowsLastReturns, Surveyed, Surveys, Launched, scopeVars
<1>2. PICK r \in {"empty at last", "survivors"} :
           drain' = Return(r) /\ (r = "empty at last" => found = {})
  BY DEF WindowsLastReturns
<1>3. /\ drain' \in Drain /\ drain'.send = drain.send /\ drain'.step = "over"
      /\ drain'.result = r /\ drain'.need = drain.need
  BY <1>2 DEF Return, Drain, Results
<1> QED
  BY <1>1, <1>2, <1>3, SurveyedNothing, WindowsReturnStep

\* signal_all(TERM): CTRL_BREAK goes to the pid that the held handle keeps.
LEMMA TermStep ==
  ASSUME WindowsInv, PollLeader \/ CtrlBreak
  PROVE  WindowsInv'
<1> USE DEF WindowsInv
<1>1. /\ drain.step = "signal" /\ disc.step = "none" /\ launch \in {"returned", "failed"}
      /\ drain.result = "none" /\ drain.send \subseteq {leader} \ {NoKey}
      /\ UNCHANGED <<starts, slipped, leader, disc, launch, found>>
  BY DEF PollLeader, CtrlBreak, Signalling, Launched, LeaderHeld, scopeVars
<1>2. CASE PollLeader
  <2>1. os' = os /\ misfired' = misfired
    BY <1>2 DEF PollLeader
  <2>2. /\ drain' \in Drain /\ drain'.need = drain.need
        /\ drain'.send \subseteq {leader} \ {NoKey} /\ drain'.result \in {"none", "failed"}
        /\ drain'.result = "failed" => drain'.step = "over"
    <3>1. CASE Alive(leader) /\ drain' = [drain EXCEPT !.send = {leader}]
      <4>1. leader \in Lifetimes /\ leader # NoKey
        BY <3>1 DEF Alive
      <4> QED
        BY <1>1, <3>1, <4>1 DEF Drain
    <3>2. CASE drain' = [drain EXCEPT !.step = "ready", !.send = {}]
      BY <1>1, <3>2 DEF Drain
    <3>3. CASE drain' = Return("failed")
      BY <1>1, <3>3 DEF Drain, Return, Results
    <3> QED
      BY <1>2, <3>1, <3>2, <3>3 DEF PollLeader, Delivered
  <2>3. LiveOwned' = LiveOwned /\ ~misfired'
    BY <2>1 DEF LiveOwned, SignalsOnlyOwned
  <2> QED
    BY <1>1, <2>1, <2>2, <2>3, MembersStep
<1>3. CASE CtrlBreak
  <2>1. PICK S \in SUBSET LiveOwned : os' = [p \in Pids |-> IF p \in S THEN Ended(p) ELSE os[p]]
    BY <1>3 DEF CtrlBreak
  <2>2. \A p \in Pids : /\ Ended(p) \in Processes /\ ~Ended(p).run
                        /\ Key(p) = leader => /\ Ended(p).start = os[p].start
                                              /\ Ended(p).marked = os[p].marked
    BY DEF Ended, Free, Processes
  <2>3. os' \in [Pids -> Processes]
    BY <2>1, <2>2
  <2>4. \A p \in LiveOwned' : p \in LiveOwned /\ os'[p].start = os[p].start
    BY <2>1, <2>2, <2>3 DEF LiveOwned
  <2>5. leader # NoKey => leader[1] \in Pids /\ Key(leader[1]) = leader /\ os[leader[1]].marked
    BY DEF LeaderHeld, Key, Lifetimes
  <2>6. leader # NoKey => /\ os'[leader[1]].start = os[leader[1]].start
                          /\ os'[leader[1]].marked = os[leader[1]].marked
    BY <2>1, <2>2, <2>5
  <2>7. \A k \in drain.send : os[k[1]].marked
    BY <1>1, <2>5
  <2>8. ~misfired'
    BY <1>3, <2>7, Zenon DEF CtrlBreak, SignalsOnlyOwned
  <2>9. drain' \in Drain /\ drain'.need = drain.need /\ drain'.send = {} /\ drain'.result = "none"
        /\ drain'.step = "ready"
    BY <1>1, <1>3 DEF CtrlBreak, Delivered, Drain
  <2> QED
    BY <1>1, <2>3, <2>4, <2>6, <2>8, <2>9, MembersStep
<1> QED
  BY <1>2, <1>3

LEMMA TerminateJobStep ==
  ASSUME WindowsInv, TerminateJob
  PROVE  WindowsInv'
<1> USE DEF WindowsInv
<1>1. /\ drain.step = "signal" /\ disc.step = "none" /\ launch \in {"returned", "failed"}
      /\ drain.result = "none" /\ drain.send \subseteq {leader} \ {NoKey} /\ ~misfired'
      /\ UNCHANGED <<starts, slipped, leader, disc, launch, found>>
  BY DEF TerminateJob, Signalling, Launched, LeaderHeld, scopeVars, SignalsOnlyOwned
<1>2. CASE Terminated(TRUE) /\ Delivered
  <2>1. /\ os' \in [Pids -> Processes]
        /\ leader # NoKey => /\ os'[leader[1]].start = os[leader[1]].start
                             /\ os'[leader[1]].marked = os[leader[1]].marked
        /\ \A p \in LiveOwned' : p \in LiveOwned /\ os'[p].start = os[p].start
    BY <1>2, TerminatedFacts
  <2>2. drain' \in Drain /\ drain'.need = drain.need /\ drain'.send = {} /\ drain'.result = "none"
        /\ drain'.step = "ready"
    BY <1>1, <1>2 DEF Delivered, Drain
  <2> QED
    BY <1>1, <2>1, <2>2, MembersStep
<1>3. CASE drain' = Return("failed") /\ UNCHANGED os
  <2>1. LiveOwned' = LiveOwned
    BY <1>3 DEF LiveOwned
  <2>2. drain' \in Drain /\ drain'.need = drain.need /\ drain'.send = drain.send
        /\ drain'.result = "failed" /\ drain'.step = "over"
    BY <1>1, <1>3 DEF Return, Drain, Results
  <2> QED
    BY <1>1, <1>3, <2>1, <2>2, MembersStep
<1> QED
  BY <1>2, <1>3 DEF TerminateJob

LEMMA WindowsLoopOverStep ==
  ASSUME WindowsInv, WindowsLoopOver
  PROVE  WindowsInv'
<1> USE DEF WindowsInv
<1>1. /\ drain.step = "ready" /\ disc = NoDiscovery /\ launch \in {"returned", "failed"}
      /\ drain.result = "none" /\ drain.send \subseteq {leader} \ {NoKey} /\ ~misfired'
      /\ drain.need = 1 /\ UNCHANGED <<os, starts, misfired, leader, launch, found>>
  BY DEF WindowsLoopOver, Launched, LeaderHeld, osVars, scopeVars, windowsVars, SignalsOnlyOwned
<1>2. CASE drain' = [drain EXCEPT !.phase = "kill", !.step = "signal"] /\ UNCHANGED <<disc, slipped>>
  <2>1. drain' \in Drain /\ drain'.need = drain.need /\ drain'.send = drain.send
        /\ drain'.result = "none" /\ drain'.step = "signal"
    BY <1>1, <1>2 DEF Drain
  <2>2. LiveOwned' = LiveOwned /\ disc.step = "none"
    BY <1>1, NoDiscoveryFields DEF LiveOwned
  <2> QED
    BY <1>1, <1>2, <2>1, <2>2, MembersStep
<1>3. CASE Query("last") /\ slipped' = 0 /\ drain' = [drain EXCEPT !.step = "last"]
  <2>1. drain' \in Drain /\ drain'.need = drain.need /\ drain'.send = drain.send
        /\ drain'.result = "none" /\ drain'.step = "last"
    BY <1>1, <1>3 DEF Drain
  <2> QED
    BY <1>1, <1>3, <2>1, QueryStep DEF Callers
<1> QED
  BY <1>2, <1>3 DEF WindowsLoopOver

\* KILL_ON_JOB_CLOSE.
LEMMA WindowsCloseStep ==
  ASSUME WindowsInv, WindowsClose
  PROVE  WindowsInv'
<1> USE DEF WindowsInv
<1>1. /\ drain.step = "over" /\ disc.step = "none" /\ launch \in {"returned", "failed"}
      /\ drain' = [drain EXCEPT !.step = "closed"] /\ leader' = NoKey
      /\ UNCHANGED <<starts, slipped, misfired, disc, fatal, launch>>
  BY DEF WindowsClose, Launched, windowsVars
<1>2. drain' \in Drain /\ drain'.need = drain.need /\ drain'.step = "closed"
      /\ drain'.result = drain.result
  BY <1>1 DEF Drain
<1>3. os' \in [Pids -> Processes] /\ \A p \in LiveOwned' : p \in LiveOwned
  BY TerminatedFacts DEF WindowsClose
<1>4. Surveys' /\ LeaderHeld' /\ Launched'
  BY <1>1, <1>2 DEF Surveys, LeaderHeld, Launched
<1>5. DrainTruthful'
  BY <1>1, <1>2, <1>3 DEF DrainTruthful
<1> QED
  BY <1>1, <1>2, <1>3, <1>4, <1>5 DEF SignalsOnlyOwned

windowsInvVars == <<os, starts, slipped, misfired, leader, fatal, disc, drain, launch, found>>

LEMMA WindowsIdle ==
  ASSUME WindowsInv, UNCHANGED windowsInvVars
  PROVE  WindowsInv'
<1> USE DEF WindowsInv, windowsInvVars
<1>1. Surveys' /\ LeaderHeld' /\ Launched'
  BY DEF Surveys, LeaderHeld, Launched, LiveOwned, Key
<1> QED
  BY <1>1 DEF SignalsOnlyOwned, DrainTruthful, LiveOwned

LEMMA WindowsStep ==
  ASSUME WindowsInv, WindowsNext
  PROVE  WindowsInv'
<1>1. ASSUME \/ \E p, q \in Pids : WindowsFork(p, q)
             \/ \E p \in Pids : (StartForeign(p) \/ Exit(p)) /\ UNCHANGED windowsVars
      PROVE  WindowsInv'
  BY <1>1, WindowsTableStep DEF WindowsFork
<1>2. ASSUME Expire, UNCHANGED windowsVars PROVE WindowsInv'
  BY <1>2, WindowsIdle DEF Expire, windowsInvVars, windowsVars, osVars, scopeVars
<1> QED
  BY <1>1, <1>2, WindowsSpawnStep, LaunchesStep, InspectMemberStep, WindowsSampleStep,
     WindowsSampleReturnsStep, TermStep, TerminateJobStep, WindowsPhaseOverStep,
     WindowsLoopOverStep, WindowsLastReturnsStep, WindowsCloseStep DEF WindowsNext

LEMMA WindowsStart ==
  ASSUME Init, WindowsInit
  PROVE  WindowsInv
<1>1. Surveys /\ LeaderHeld /\ Launched
  BY InitFacts, NoDiscoveryFields DEF Surveys, LeaderHeld, Launched, WindowsInit
<1> QED
  BY <1>1, InitFacts DEF WindowsInv, ScopeType, SignalsOnlyOwned, DrainTruthful

-----------------------------------------------------------------------------
(* The theorems.                                                           *)

\* The scope of the machine's own platform.
ScopeInv ==
  /\ backend \in {"Linux", "Darwin", "Windows"}
  /\ backend = "Linux" => LinuxInv
  /\ backend = "Windows" => WindowsInv

\* The inductive invariant of the Linux and the Windows scope, along every
\* behaviour of the scopes.
LEMMA ScopeInvariant == ScopeSpec => []ScopeInv
<1> DEFINE all == <<vars, darwinVars, windowsVars, backend>>
<1>1. ScopeInit => ScopeInv
  BY LinuxStart, WindowsStart DEF ScopeInit, ScopeInv
<1>2. ASSUME ScopeInv, [ScopeNext]_all PROVE ScopeInv'
  <2>1. CASE backend = "Linux" /\ Next /\ UNCHANGED backend
    BY <1>2, <2>1, LinuxStep DEF ScopeInv
  <2>2. CASE backend = "Darwin" /\ UNCHANGED backend
    BY <2>2 DEF ScopeInv
  <2>3. CASE backend = "Windows" /\ WindowsNext /\ UNCHANGED backend
    BY <1>2, <2>3, WindowsStep DEF ScopeInv
  <2>4. CASE UNCHANGED all
    <3>1. UNCHANGED linuxVars /\ UNCHANGED windowsInvVars /\ UNCHANGED backend
      BY <2>4 DEF linuxVars, windowsInvVars, vars, windowsVars
    <3> QED
      BY <1>2, <3>1, LinuxIdle, WindowsIdle DEF ScopeInv
  <2> QED
    BY <1>2, <2>1, <2>2, <2>3, <2>4 DEF ScopeNext
<1> QED
  BY <1>1, <1>2, PTL DEF ScopeSpec

\* However often pids are reused between a census, the pidfd or the poll of the
\* leader, and the signal, _send and signal_all of the Linux and the Windows
\* scope (audit_processes.py) reach descendants of the leader only.
THEOREM ScopeSignalsOnlyOwned == ScopeSpec => [](backend # "Darwin" => SignalsOnlyOwned)
<1>1. ScopeInv => (backend # "Darwin" => SignalsOnlyOwned)
  BY DEF ScopeInv, LinuxInv, WindowsInv
<1> QED
  BY <1>1, ScopeInvariant, PTL

\* drain() of the Linux and the Windows scope says that nothing is left while
\* a descendant runs only if one forked in every sample the answer rests on.
THEOREM ScopeDrainTruthful == ScopeSpec => [](backend # "Darwin" => DrainTruthful)
<1>1. ScopeInv => (backend # "Darwin" => DrainTruthful)
  BY DEF ScopeInv, LinuxInv, WindowsInv
<1> QED
  BY <1>1, ScopeInvariant, PTL
=============================================================================
