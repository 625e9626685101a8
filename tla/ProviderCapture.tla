-------------------------- MODULE ProviderCapture ---------------------------
(* scripts/hosted_cache_provider_lifecycle.py: the owner of one run of the    *)
(* cache provider inside the capture worker.  It takes a directory, allocates *)
(* the log and command files and a native process scope, waits for the        *)
(* provider, drains the scope, reads the three captures back, closes what it  *)
(* owns, and only then publishes a result or a failed capture.                *)
(*                                                                            *)
(* The provider and its descendants write their outputs while the owner       *)
(* works, the two clocks of a window are one clock, and a step may fail.      *)
EXTENDS Naturals, Sequences, FiniteSets

CONSTANTS
  CaptureEnd,   \* worker cutoff - 45 s: no provider work after it
  LaunchEnd,    \* hard end - 45 s: no launch work after it
  Cutoff,       \* the worker's cutoff
  HardEnd,      \* the end of the original window
  Roles,        \* "posix" and "windows": the two native routes
  MaxFaults,    \* bound: native operations that fail
  MaxWrites     \* bound: writes of the provider's processes

ASSUME WindowAssumption ==
  /\ {CaptureEnd, LaunchEnd, Cutoff, HardEnd} \subseteq Nat \ {0}
  /\ CaptureEnd < Cutoff /\ CaptureEnd < LaunchEnd
  /\ Cutoff < HardEnd /\ LaunchEnd < HardEnd
  /\ Roles \subseteq {"posix", "windows"}

VARIABLES
  now,      \* the RAW clock of the window
  role,     \* the native route of this machine
  faults,   \* native operations that failed so far
  prov,     \* the provider's processes: its leader, a descendant, their output
  cap       \* ProviderCapture

Logs == {"stdout", "stderr"}
Streams == Logs \cup {"command"}
Reader(s) ==
  [stdout |-> "stdout-reader", stderr |-> "stderr-reader", command |-> "command-reader"][s]
Readers == {Reader(s) : s \in Streams}
\* The slots of a capture: each is empty, holds the returned owner, was closed,
\* or is lost, because the factory or the close did not return.
Names == {"directory", "scope"} \cup Streams \cup Readers

Processes(p) == p.leader = "run" \/ p.helper
Fault == faults < MaxFaults /\ faults' = faults + 1
NoFault == UNCHANGED faults

\* __init__ and __enter__ of one capture.
NewCapture ==
  [pc |-> "entered", slots |-> [n \in Names |-> "none"], prepared |-> FALSE,
   child |-> FALSE, code |-> 2, waited |-> FALSE, failed |-> FALSE,
   unknown |-> FALSE, boundary |-> FALSE, fresh |-> FALSE, eligible |-> FALSE,
   retired |-> FALSE, todo |-> <<>>, seen |-> [s \in Streams |-> 0],
   verified |-> {}, outcome |-> "none"]

CaptureInit ==
  /\ now = 0 /\ faults = 0
  /\ role \in Roles
  /\ prov = [leader |-> "none", helper |-> FALSE, code |-> 2, written |-> 0]
  /\ cap = NewCapture

------------------------------------------------------------------------------
(* The clock and the provider's processes.                                    *)

Tick == now < HardEnd /\ now' = now + 1

\* Either process of the provider writes to the caller-owned files.
Write ==
  /\ Processes(prov) /\ prov.written < MaxWrites
  /\ prov' = [prov EXCEPT !.written = @ + 1]

LeaderExits(c) ==
  prov.leader = "run" /\ prov' = [prov EXCEPT !.leader = "gone", !.code = c]

\* The provider starts, perhaps with a descendant that outlives it.
Started(p) == {[p EXCEPT !.leader = "run", !.helper = h] : h \in BOOLEAN}

Killed(p) == [p EXCEPT !.leader = IF @ = "run" THEN "gone" ELSE @, !.helper = FALSE]

------------------------------------------------------------------------------
(* Helpers of ProviderCapture.                                                *)

\* _failed: the first error stays, later ones are appended.
Failed(c, u) == [c EXCEPT !.failed = TRUE, !.fresh = TRUE, !.unknown = @ \/ u]

\* _check and _check(final=True); cancelled() is the worker's own cutoff.
InWork == now < CaptureEnd /\ now < LaunchEnd
InFinal == now < Cutoff

\* _capture_state / _capture_fence: no error since the boundary, in time.
Fence(c) == ~c.unknown /\ ~c.fresh /\ InFinal

\* _postcheck: a missed end is one more error and no more.
Postcheck(c) == IF InFinal THEN c ELSE Failed(c, FALSE)

Hold(c, n) == [c EXCEPT !.slots[n] = "held"]

\* _acquire and _freeze_command: a factory that raises may have allocated.
Lost(c, n) == Failed([c EXCEPT !.slots[n] = "lost"], TRUE)

ToExit(c) == [c EXCEPT !.pc = "exit"]

\* _close on slot n.  Distinct owners stay pinned once retirement is unknown.
Closable(c, n) == c.slots[n] = "held" /\ (n = "scope" \/ ~Postcheck(c).unknown)
CloseReturns(c, n) == Postcheck([Postcheck(c) EXCEPT !.slots[n] = "closed"])
CloseRaises(c, n) == Failed([Postcheck(c) EXCEPT !.slots[n] = "lost"], TRUE)
CloseAttempt(n, next(_)) ==
  \/ cap' = next(CloseReturns(cap, n)) /\ NoFault
  \/ cap' = next(CloseRaises(cap, n)) /\ Fault

------------------------------------------------------------------------------
(* take_directory, prepare, the launch of the provider, wait.                 *)

\* The worker opens the capture directory and transfers it.
TakeDirectory ==
  /\ cap.pc = "entered"
  /\ \/ InWork /\ cap' = [Hold(cap, "directory") EXCEPT !.pc = "stdout"] /\ NoFault
     \/ cap' = ToExit(Failed(cap, FALSE)) /\ (IF InWork THEN Fault ELSE NoFault)
  /\ UNCHANGED <<now, role, prov>>

After == [stdout |-> "stderr", stderr |-> "command", command |-> "scope", scope |-> "spawn"]

\* prepare allocates the next of stdout, stderr, command and scope.
Prepare ==
  /\ cap.pc \in DOMAIN After
  /\ LET n == cap.pc IN
     \/ /\ InWork
        /\ cap' = [Hold(cap, n) EXCEPT !.pc = After[n], !.prepared = n = "scope"]
        /\ NoFault
     \/ InWork /\ cap' = ToExit(Lost(cap, n)) /\ Fault
     \/ ~InWork /\ cap' = ToExit(Failed(cap, FALSE)) /\ NoFault
  /\ UNCHANGED <<now, role, prov>>

\* scope.spawn by the worker, then wait(child) checks the original leader.  A
\* spawn that raises may have left a process behind.
Spawn ==
  /\ cap.pc = "spawn"
  /\ \/ /\ InWork
        /\ prov' \in Started(prov)
        /\ cap' = [cap EXCEPT !.pc = "wait", !.child = TRUE]
        /\ NoFault
     \/ /\ InWork
        /\ prov' \in {prov} \cup Started(prov)
        /\ cap' = ToExit(Failed(cap, FALSE))
        /\ Fault
     \/ /\ ~InWork
        /\ cap' = ToExit(Failed(cap, FALSE)) /\ UNCHANGED prov /\ NoFault
  /\ UNCHANGED <<now, role>>

\* wait: one round of the poll loop; the code is kept before any later check.
Poll ==
  /\ cap.pc = "wait"
  /\ \/ InWork /\ prov.leader = "gone"
        /\ cap' = [cap EXCEPT !.code = prov.code, !.pc = "polled"]
     \/ ~InWork /\ cap' = ToExit(Failed(cap, FALSE))
  /\ UNCHANGED <<now, role, faults, prov>>

Polled ==
  /\ cap.pc = "polled"
  /\ cap' = ToExit(IF InWork /\ cap.code = 0 THEN [cap EXCEPT !.waited = TRUE]
                                            ELSE Failed(cap, FALSE))
  /\ UNCHANGED <<now, role, faults, prov>>

------------------------------------------------------------------------------
(* __exit__ and _finish.                                                      *)

CloseOrder == <<"stderr-reader", "stdout-reader", "command-reader", "command",
                "stderr", "stdout", "directory">>

\* The boundary is pinned: whatever fails from here on is a new error.  With
\* no scope, retirement is known only if none was ever attempted.
Exit ==
  /\ cap.pc = "exit"
  /\ LET c == [cap EXCEPT !.boundary = cap.failed, !.fresh = FALSE,
                          !.eligible = cap.prepared /\ cap.child]
         known == cap.slots["scope"] = "none" /\ ~cap.unknown
     IN cap' = IF cap.slots["scope"] = "held" THEN [c EXCEPT !.pc = "drain"]
               ELSE IF known THEN [c EXCEPT !.pc = "close", !.retired = TRUE, !.todo = CloseOrder]
               ELSE [c EXCEPT !.pc = "conclude", !.unknown = TRUE]
  /\ UNCHANGED <<now, role, faults, prov>>

\* scope.drain returns no survivors and no discovery error only when every
\* process is gone (AuditProcesses.DrainTruthful); anything else is unknown.
DrainEnds ==
  /\ cap.pc = "drain"
  /\ \/ /\ InFinal
        /\ prov' = Killed(prov)
        /\ cap' = [cap EXCEPT !.retired = TRUE, !.pc = "scope closing"]
        /\ NoFault
     \/ /\ InFinal
        /\ prov' \in {prov, Killed(prov)}
        /\ cap' = [Failed(cap, TRUE) EXCEPT !.pc = "scope closing"]
        /\ Fault
     \/ /\ ~InFinal
        /\ cap' = [Failed(cap, TRUE) EXCEPT !.pc = "scope closing"]
        /\ UNCHANGED prov /\ NoFault
  /\ UNCHANGED <<now, role>>

\* The scope is closed even when retirement is unknown; a WindowsScope kills
\* its job by that close.  Only a qualified close keeps retired.
Retire(c) ==
  LET qualified == c.slots["scope"] = "closed" /\ ~c.unknown /\ InFinal
  IN IF cap.retired /\ qualified
     THEN [c EXCEPT !.pc = IF c.eligible THEN "stdout read" ELSE "close",
                    !.todo = CloseOrder]
     ELSE [c EXCEPT !.pc = "conclude", !.retired = FALSE, !.unknown = TRUE]
CloseScope ==
  /\ cap.pc = "scope closing"
  /\ CloseAttempt("scope", Retire)
  /\ prov' = IF role = "windows" /\ cap'.slots["scope"] = "closed" THEN Killed(prov) ELSE prov
  /\ UNCHANGED <<now, role>>

ReadNext == [stdout |-> "stderr read", stderr |-> "command read", command |-> "close"]
Reading(s) == [stdout |-> "stdout read", stderr |-> "stderr read", command |-> "command read"][s]
Written(s) ==
  [stdout |-> "stdout written", stderr |-> "stderr written", command |-> "command written"][s]
Current == CHOOSE s \in Streams : cap.pc \in {Reading(s), Written(s)}

\* _capture: the bytes are taken and verified against the file.
Taken(c, s) == [c EXCEPT !.seen[s] = prov.written, !.verified = @ \cup {s}, !.pc = ReadNext[s]]

Abort(c) == [Failed(c, FALSE) EXCEPT !.pc = "close"]
Unclear(c) == [Failed(c, TRUE) EXCEPT !.pc = "close"]

\* POSIX: sync and close the writer, then open a reader on the same file.
\* Windows: freeze the command file; read a log while its writer is pinned.
CaptureStream ==
  /\ \E s \in Streams : cap.pc = Reading(s)
  /\ LET s == Current
         handover(c) == [c EXCEPT !.pc = IF Fence(c) THEN Written(s) ELSE "close"]
     IN \/ ~Fence(cap) /\ cap' = Abort(cap) /\ NoFault
        \/ /\ Fence(cap) /\ role = "posix"
           /\ CloseAttempt(s, handover)
        \/ /\ Fence(cap) /\ role = "windows" /\ s \in Logs
           /\ \/ cap' = [cap EXCEPT !.seen[s] = prov.written, !.pc = Written(s)] /\ NoFault
              \/ cap' = Unclear(cap) /\ Fault
        \/ /\ Fence(cap) /\ role = "windows" /\ s = "command"
           /\ \/ /\ cap' = [Hold(cap, Reader(s)) EXCEPT !.slots[s] = "closed", !.pc = Written(s)]
                 /\ NoFault
              \/ cap' = [Lost(cap, Reader(s)) EXCEPT !.pc = "close"] /\ Fault
  /\ UNCHANGED <<now, role, prov>>

CaptureRead ==
  /\ \E s \in Streams : cap.pc = Written(s)
  /\ LET s == Current
         checked(c) == IF Fence(c) THEN Taken(c, s) ELSE [c EXCEPT !.pc = "close"]
     IN \/ ~Fence(cap) /\ cap' = Abort(cap) /\ NoFault
        \/ /\ Fence(cap) /\ role = "posix"
           /\ \/ cap' = Taken(Hold(cap, Reader(s)), s) /\ NoFault
              \/ cap' = [Lost(cap, Reader(s)) EXCEPT !.pc = "close"] /\ Fault
        \/ /\ Fence(cap) /\ role = "windows" /\ s \in Logs
           /\ CloseAttempt(s, checked)
        \/ /\ Fence(cap) /\ role = "windows" /\ s = "command"
           /\ \/ cap' = Taken(cap, s) /\ NoFault
              \/ cap' = Abort(cap) /\ Fault
  /\ UNCHANGED <<now, role, prov>>

\* The close roster: in order, until it is done or retirement becomes unknown.
CloseOwners ==
  /\ cap.pc = "close"
  /\ LET n == Head(cap.todo)
         rest(c) == [c EXCEPT !.todo = Tail(@)]
     IN \/ /\ cap.unknown \/ cap.todo = <<>>
           /\ cap' = [Postcheck(cap) EXCEPT !.pc = "conclude"] /\ NoFault
        \/ /\ ~cap.unknown /\ cap.todo # <<>> /\ ~Closable(cap, n)
           /\ cap' = rest(cap) /\ NoFault
        \/ /\ ~cap.unknown /\ cap.todo # <<>> /\ Closable(cap, n)
           /\ CloseAttempt(n, rest)
  /\ UNCHANGED <<now, role, prov>>

AllClosed(c) == \A n \in Names : c.slots[n] \in {"none", "closed"}

\* _failure_capture_ready and _retain_failed_result.
FailureReady(c) ==
  /\ c.boundary /\ Fence(c)
  /\ c.retired /\ c.eligible
  /\ c.verified = Streams
  /\ AllClosed(c)

ResultReady(c) == ~c.failed /\ ~c.unknown /\ AllClosed(c) /\ InFinal

\* The last step of __exit__: the one publication, or an exception.
Conclude ==
  /\ cap.pc = "conclude"
  /\ cap' = [cap EXCEPT !.pc = "done",
               !.outcome = IF ResultReady(cap) THEN "result"
                           ELSE IF FailureReady(cap) THEN "failure" ELSE "raised"]
  /\ UNCHANGED <<now, role, faults, prov>>

CaptureStep ==
  \/ TakeDirectory \/ Prepare \/ Spawn \/ Poll \/ Polled
  \/ Exit \/ DrainEnds \/ CloseScope \/ CaptureStream \/ CaptureRead
  \/ CloseOwners \/ Conclude

\* What the provider's processes do by themselves.
ProviderStep ==
  \/ Write
  \/ \E c \in {0, 1} : LeaderExits(c)

-----------------------------------------------------------------------------
(* The capture worker process: _CaptureWorker of                             *)
(* scripts/hosted_cache_provider_launch.py, entered by                       *)
(* hosted_cache_provider_worker.py.  It opens its roots and the bundle, runs *)
(* one ProviderCapture, writes the return packet, closes its roots and       *)
(* acknowledges on its stdout.  Exit codes: 0 success, 65 a complete failed  *)
(* capture, 66 anything else.                                                *)
VARIABLES
  wk,      \* the worker process
  packet   \* what it leaves on disk: the packet, and the ack in its stdout log

FAILED_CAPTURE_EXIT == 65
INCOMPLETE_EXIT == 66
KILLED_EXIT == 137
NoCode == 255

NoPacket == [state |-> "none", of |-> "none", seen |-> NewCapture.seen, ack |-> FALSE]

WorkerInit ==
  /\ wk = [pc |-> "none", code |-> NoCode]
  /\ packet = NoPacket

Alive == wk.pc \notin {"none", "gone"}

\* The process ends and its memory with it; the files stay.  main(): an
\* incomplete run ends with 66.
Ends(c) == wk' = [pc |-> "gone", code |-> c] /\ cap' = NewCapture
Incomplete == Ends(INCOMPLETE_EXIT)

\* _check(work=True) and _check(work=False).
WorkerWork == now < Cutoff /\ now < LaunchEnd
WorkerTime == now < Cutoff

\* A step of run(): it returns in time, or the worker ends incomplete.
StepTo(here, next, inTime) ==
  /\ wk.pc = here
  /\ \/ inTime /\ wk' = [wk EXCEPT !.pc = next] /\ UNCHANGED cap /\ NoFault
     \/ Incomplete /\ (IF inTime THEN Fault ELSE NoFault)
  /\ UNCHANGED <<now, role, prov>>

\* run: markers, frame, window, the two roots, the bundle and the tool pins.
OpenRoots == StepTo("roots", "capture", WorkerWork) /\ UNCHANGED packet

\* `with capture:` runs in this process.
Capture ==
  /\ wk.pc = "capture" /\ cap.pc # "done"
  /\ CaptureStep
  /\ UNCHANGED <<wk, packet>>

\* capture.result, or capture.failure_capture of a capture that raised; an
\* unavailable property ends the worker.
Collect ==
  /\ wk.pc = "capture" /\ cap.pc = "done"
  /\ IF cap.outcome = "raised" \/ ~WorkerTime
     THEN Incomplete
     ELSE wk' = [wk EXCEPT !.pc = "tools"] /\ UNCHANGED cap
  /\ UNCHANGED <<now, role, faults, prov, packet>>

\* The bundle is reread, the tool observation finished and bound.
FinishTools == StepTo("tools", "packet", WorkerTime) /\ UNCHANGED packet

\* _send_return: the packet is created, then written, synced and verified.
CreatePacket ==
  /\ StepTo("packet", "write", WorkerTime)
  /\ packet' = IF wk'.pc = "write" THEN [packet EXCEPT !.state = "partial"] ELSE packet

\* encode: the packet says which capture it carries, and carries its bytes.
Encoded(c) == [packet EXCEPT !.state = "whole", !.of = c.outcome, !.seen = c.seen]

WritePacket ==
  /\ StepTo("write", "closing", WorkerTime /\ packet.state = "partial")
  /\ packet' = IF wk'.pc = "closing"
               THEN Encoded(cap) ELSE packet

\* packet, bundle, home and directory are closed, with a check around each.
CloseAll == StepTo("closing", "ack", WorkerTime) /\ UNCHANGED packet

\* _write_ack on fd 1, then the receipt.
Acknowledge ==
  /\ StepTo("ack", "receipt", WorkerTime)
  /\ packet' = [packet EXCEPT !.ack = wk'.pc = "receipt"]

\* exit_code: only with the receipt, and the receipt's check spends the cutoff.
ExitCode == IF ~WorkerTime THEN INCOMPLETE_EXIT
            ELSE IF cap.outcome = "failure" THEN FAILED_CAPTURE_EXIT ELSE 0

Receipt ==
  /\ wk.pc = "receipt"
  /\ Ends(ExitCode)
  /\ UNCHANGED <<now, role, faults, prov, packet>>

\* The worker dies on its own; the provider it started lives on.
WorkerDies ==
  /\ Alive
  /\ Ends(1) /\ Fault
  /\ UNCHANGED <<now, role, prov, packet>>

\* Somebody replaces or rewrites the packet on disk.
PacketReplaced ==
  /\ packet.state \in {"partial", "whole"}
  /\ packet' = [packet EXCEPT !.state = "replaced"] /\ Fault
  /\ UNCHANGED <<now, role, prov, cap, wk>>

WorkerStep ==
  \/ OpenRoots \/ Capture \/ Collect \/ FinishTools \/ CreatePacket \/ WritePacket
  \/ CloseAll \/ Acknowledge \/ Receipt

=============================================================================
