---------------------------- MODULE WindowsScope ----------------------------
(* WindowsScope of scripts/audit_processes.py: the kernel's job object owns  *)
(* the leader from before its first instruction and every process started    *)
(* below it, and closing the job kills them.  The scope asks the job for its *)
(* members and terminates it; a pid is only signalled while the handle of    *)
(* the leader keeps it from being reused.                                    *)
(*                                                                           *)
(* os[p].marked is membership of the job, and leader the process whose       *)
(* handle is held.                                                           *)
EXTENDS AuditProcesses

VARIABLES
  launch,  \* the launch: none, suspended, resumed, returned or failed
  found,   \* members that the discovery in progress has seen running
  sent     \* drain phases in which signal_all ran (repeat_signals=False)

windowsVars == <<launch, found, sent>>

WindowsInit == launch = "none" /\ found = {} /\ sent = {}

Refused == denials < MaxDenials /\ denials' = denials + 1
Granted == UNCHANGED denials

\* TerminateJobObject: every member ends at once; a held process keeps its pid.
Terminated(held) ==
  os' = [p \in Pids |-> IF Key(p) = leader /\ ~held THEN Free
                        ELSE IF os[p].run /\ os[p].marked THEN Ended(p) ELSE os[p]]

\* Closing the handle of a process that has ended frees its pid.
Released(held) ==
  os' = [p \in Pids |-> IF Key(p) = leader /\ ~held /\ ~os[p].run THEN Free ELSE os[p]]

-----------------------------------------------------------------------------
(* spawn.                                                                    *)

\* CreateProcessW assigns the job and leaves the only thread suspended.
WindowsSpawn(p) ==
  /\ launch = "none" /\ os[p].start = 0 /\ starts < MaxStarts
  /\ os' = Born(p, TRUE) /\ starts' = starts + 1 /\ leader' = <<p, starts + 1>>
  /\ launch' = "suspended"
  /\ UNCHANGED <<forks, slipped, denials, misfired, baseline, known, handles, pending, fatal,
                 disc, drain, expired, found, sent>>

\* Pipes, duplicates, attributes or the creation fail; the temporaries are
\* closed, and one that cannot be closed is a discovery error.
LaunchFails ==
  /\ launch = "none" /\ Refused /\ launch' = "failed" /\ fatal' \in BOOLEAN
  /\ UNCHANGED <<os, starts, forks, slipped, misfired, baseline, leader, known, handles, pending,
                 disc, drain, expired, found, sent>>

\* A launch that fails after the creation terminates the job.  A process that
\* is not yet in self.leaders has its handle closed.
FailedReturn(held) ==
  /\ Refused /\ launch' = "failed"
  /\ leader' = IF held THEN leader ELSE NoKey
  /\ \/ Terminated(held) /\ fatal' \in BOOLEAN
     \/ Released(held) /\ fatal' = TRUE

\* Membership and identity are read through the handle, the readers adopt
\* their pipes, the child is registered, and only then does its thread run.
Attach ==
  /\ launch = "suspended"
  /\ \/ Granted /\ launch' = "resumed" /\ known' = known \cup {leader} /\ UNCHANGED <<os, leader, fatal>>
     \/ \E held \in BOOLEAN : /\ FailedReturn(held)
                              /\ known' \in {known \cup {leader}} \cup IF held THEN {} ELSE {known}
  /\ UNCHANGED <<starts, forks, slipped, misfired, baseline, handles, pending, disc, drain, expired,
                 found, sent>>

\* The finalizers of the launch; a failure of one of them fails the launch
\* although the child already runs.
LaunchReturns ==
  /\ launch = "resumed"
  /\ \/ Granted /\ launch' = "returned" /\ UNCHANGED <<os, leader, fatal>>
     \/ FailedReturn(TRUE)
  /\ UNCHANGED <<starts, forks, slipped, misfired, baseline, known, handles, pending, disc, drain,
                 expired, found, sent>>

\* A suspended process does not fork.
WindowsFork(p, q) ==
  /\ Key(p) = leader => launch # "suspended"
  /\ Fork(p, q) /\ UNCHANGED windowsVars

-----------------------------------------------------------------------------
(* discover.                                                                 *)

\* _member_pids: one query returns the members of this moment.
Query(for) ==
  disc' = [NoDiscovery EXCEPT !.step = "members", !.for = for, !.pids = LiveOwned]

\* A listed pid is opened; the open handle tells whether the process that has
\* the pid now is a member and runs.  A member that cannot be opened or read
\* makes discover() raise, and with it the drain.
InspectMember(p) ==
  /\ disc.step = "members" /\ p \in disc.pids
  /\ \/ /\ p \notin LiveOwned /\ Granted
        /\ disc' = [disc EXCEPT !.pids = @ \ {p}]
        /\ UNCHANGED <<known, found, drain>>
     \/ /\ p \in LiveOwned /\ Granted
        /\ disc' = [disc EXCEPT !.pids = @ \ {p}]
        /\ known' = known \cup {Key(p)} /\ found' = found \cup {Key(p)}
        /\ UNCHANGED drain
     \/ /\ os[p].start # 0 /\ Refused
        /\ disc' = NoDiscovery /\ found' = {} /\ drain' = Return("failed")
        /\ UNCHANGED known
  /\ UNCHANGED <<os, starts, forks, slipped, misfired, baseline, leader, handles, pending, fatal,
                 expired, launch, sent>>

Surveyed(for) == disc.step = "members" /\ disc.pids = {} /\ disc.for = for

-----------------------------------------------------------------------------
(* drain, signal_all and close.                                              *)

WindowsSample ==
  /\ launch \in {"returned", "failed"} /\ disc = NoDiscovery
  /\ drain.step = "none" \/ (drain.step = "ready" /\ InTime)
  /\ Query("sample") /\ slipped' = 0
  /\ drain' = [drain EXCEPT !.need = 1,
                            !.step = IF @ = "none" /\ drain.route = "plain" THEN "first" ELSE "ready"]
  /\ UNCHANGED <<misfired, expired, osVars, scopeVars, windowsVars>>

\* One empty census is enough (quiet_required is 1), and with a deadline also
\* freedom from errors.  The signal of a phase is given once, the plain TERM
\* after the first census.
WindowsSampleReturns ==
  /\ Surveyed("sample")
  /\ drain.route = "bounded" => InTime
  /\ LET empty == found = {} /\ (drain.route = "plain" \/ ~fatal)
         signal == IF drain.route = "plain" THEN drain.step = "first" ELSE drain.phase \notin sent
     IN  drain' = IF empty THEN IF drain.step = "first" THEN [drain EXCEPT !.step = "ready"]
                                ELSE Return("drained")
                  ELSE [drain EXCEPT !.live = found # {}, !.step = IF signal THEN "signal" ELSE "ready"]
  /\ found' = {} /\ EndDiscovery
  /\ UNCHANGED <<slipped, misfired, expired, starts, forks, denials, scopeVars, launch, sent>>

Signalling(phase) ==
  /\ drain.step = "signal" /\ drain.phase = phase
  /\ drain.route = "bounded" => InTime

Delivered ==
  /\ drain' = [drain EXCEPT !.step = "ready", !.send = {}]
  /\ sent' = sent \cup {drain.phase}

\* signal_all(TERM): only a leader that still runs is signalled.
PollLeader ==
  /\ Signalling("term") /\ drain.send = {}
  /\ \/ Alive(leader) /\ Granted /\ drain' = [drain EXCEPT !.send = {leader}] /\ UNCHANGED sent
     \/ ~Alive(leader) /\ Granted /\ Delivered
     \/ leader # NoKey /\ Refused /\ drain' = Return("failed") /\ UNCHANGED sent
  /\ UNCHANGED <<os, starts, forks, slipped, misfired, disc, expired, scopeVars, launch, found>>

\* GenerateConsoleCtrlEvent goes to the group named by the leader's pid, where
\* it may end any of the members.
CtrlBreak ==
  /\ Signalling("term") /\ drain.send # {}
  /\ \E S \in SUBSET LiveOwned : os' = [p \in Pids |-> IF p \in S THEN Ended(p) ELSE os[p]]
  /\ misfired' = (misfired \/ \E k \in drain.send : os[k[1]].run /\ ~os[k[1]].marked)
  /\ Delivered
  /\ UNCHANGED <<starts, forks, slipped, denials, disc, expired, scopeVars, launch, found>>

TerminateJob ==
  /\ Signalling("kill")
  /\ \/ Granted /\ Terminated(TRUE) /\ Delivered
     \/ Refused /\ drain' = Return("failed") /\ UNCHANGED <<os, sent>>
  /\ UNCHANGED <<starts, forks, slipped, misfired, disc, expired, scopeVars, launch, found>>

\* _bounded_drain: the phase is over, and a late census does not count.
WindowsPhaseOver ==
  /\ drain.route = "bounded" /\ drain.step \in {"ready", "signal"} /\ ~InTime
  /\ disc = NoDiscovery \/ Surveyed("sample")
  /\ drain' = IF drain.phase = "term" THEN [drain EXCEPT !.phase = "kill", !.step = "ready", !.send = {}]
              ELSE Return(IF drain.live THEN "survivors" ELSE "failed")
  /\ found' = {} /\ EndDiscovery
  /\ UNCHANGED <<slipped, misfired, expired, starts, forks, denials, scopeVars, launch, sent>>

\* Without a deadline KILL follows TERM whatever was seen, and after the second
\* loop one more census is the answer.
WindowsLoopOver ==
  /\ drain.route = "plain" /\ drain.step = "ready" /\ ~InTime /\ disc = NoDiscovery
  /\ \/ /\ drain.phase = "term" /\ UNCHANGED <<disc, slipped>>
        /\ drain' = [drain EXCEPT !.phase = "kill", !.step = "signal"]
     \/ /\ drain.phase = "kill" /\ Query("last") /\ slipped' = 0
        /\ drain' = [drain EXCEPT !.step = "last"]
  /\ UNCHANGED <<misfired, expired, osVars, scopeVars, windowsVars>>

WindowsLastReturns ==
  /\ Surveyed("last")
  /\ drain' = Return(IF found = {} THEN "empty at last" ELSE "survivors")
  /\ found' = {} /\ EndDiscovery
  /\ UNCHANGED <<slipped, misfired, expired, starts, forks, denials, scopeVars, launch, sent>>

\* close(): the handles are given up, and KILL_ON_JOB_CLOSE ends the members.
WindowsClose ==
  /\ drain.step = "over"
  /\ drain' = [drain EXCEPT !.step = "closed"]
  /\ Terminated(FALSE) /\ leader' = NoKey
  /\ UNCHANGED <<starts, forks, slipped, denials, misfired, baseline, known, handles, pending, fatal,
                 disc, expired, windowsVars>>

-----------------------------------------------------------------------------
WindowsNext ==
  \/ \E p, q \in Pids : WindowsFork(p, q)
  \/ \E p \in Pids : (StartForeign(p) \/ Exit(p)) /\ UNCHANGED windowsVars
  \/ \E p \in Pids : WindowsSpawn(p)
  \/ LaunchFails \/ Attach \/ LaunchReturns
  \/ \E p \in disc.pids : InspectMember(p)
  \/ WindowsSample \/ WindowsSampleReturns
  \/ PollLeader \/ CtrlBreak \/ TerminateJob
  \/ WindowsPhaseOver \/ WindowsLoopOver \/ WindowsLastReturns \/ WindowsClose
  \/ Expire /\ UNCHANGED windowsVars
=============================================================================
