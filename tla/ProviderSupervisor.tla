------------------------- MODULE ProviderSupervisor -------------------------
(* The process that owns the worker: _SupervisorEntry                        *)
(* (scripts/hosted_cache_provider_entry.py) around ProviderSupervisor        *)
(* (hosted_cache_provider_supervisor.py) around SupervisorLaunch             *)
(* (hosted_cache_provider_launch.py), with the cancellation pipe             *)
(* OriginalStdinCancel (hosted_cache_provider_cancel.py).  Its exit code is  *)
(* what the cache action believes: 0 provider success, 65 a complete failed  *)
(* transcript, 66 nothing may be concluded.                                  *)
EXTENDS ProviderCapture

CONSTANTS
  MaxCancels   \* bound: signals and cancellation requests

VARIABLES
  sup,    \* ProviderSupervisor with its SupervisorLaunch
  ent,    \* _SupervisorEntry with its OriginalStdinCancel
  wire    \* the stdin pipe: bytes [unread, sent]

vars == <<now, role, faults, prov, cap, wk, packet, sup, ent, wire>>
worker == <<prov, cap, wk, packet>>

Owners == {"directory", "home", "capture_directory", "scope", "bundle", "stdout",
           "stderr", "stdout-reader", "stderr-reader", "packet-reader",
           "retirement-writer"}
FileOwners == Owners \ {"scope"}

Init ==
  /\ CaptureInit /\ WorkerInit
  /\ sup = [pc |-> "idle", slots |-> [n \in Owners |-> "none"], failed |-> FALSE,
            unknown |-> FALSE, fresh |-> FALSE, boundary |-> FALSE,
            waiting |-> FALSE, code |-> NoCode, qualified |-> FALSE,
            retired |-> FALSE, returned |-> "none", control |-> FALSE,
            todo |-> <<>>, transcript |-> "none", sent |-> FALSE]
  /\ ent = [pc |-> "control", signalled |-> FALSE, seen |-> FALSE, broken |-> FALSE,
            pin |-> "none", handlers |-> FALSE, called |-> FALSE, failed |-> FALSE,
            cancelled |-> FALSE, unknown |-> FALSE, code |-> NoCode,
            exit |-> NoCode, sentAtRetire |-> 0]
  /\ wire = [unread |-> 0, sent |-> 0]

-----------------------------------------------------------------------------
(* The parent and the operating system.                                      *)

Asked == (IF wire.sent > 0 THEN 1 ELSE 0) + (IF ent.signalled /\ ~ent.seen THEN 1 ELSE 0)

\* The Node parent asks for cancellation over the pipe, with n bytes.
ParentCancels(n) ==
  /\ ent.exit = NoCode /\ Asked < MaxCancels
  /\ wire' = [unread |-> wire.unread + n, sent |-> wire.sent + n]
  /\ UNCHANGED <<now, role, faults, worker, sup, ent>>

\* received(): the handler only sets a flag.
SignalArrives ==
  /\ ent.handlers /\ ~ent.signalled /\ Asked < MaxCancels
  /\ ent' = [ent EXCEPT !.signalled = TRUE]
  /\ UNCHANGED <<now, role, faults, worker, sup, wire>>

\* OriginalStdinCancel.poll: one read of at most two bytes.  A second byte,
\* now or ever, is a terminal protocol failure.
Polled1(e) ==
  IF wire.unread = 0 \/ e.pin # "active" \/ e.broken THEN e
  ELSE IF wire.unread = 1 /\ ~e.seen THEN [e EXCEPT !.seen = TRUE, !.signalled = TRUE]
  ELSE [e EXCEPT !.broken = TRUE]
Drained1 == IF ent.pin # "active" \/ ent.broken THEN wire ELSE [wire EXCEPT !.unread = 0]

\* checked()/cancelled(): raises on a signal, a cancellation or a broken pipe.
Refuses(e) == e.signalled \/ e.broken

Pass == UNCHANGED <<now, role, worker>>

-----------------------------------------------------------------------------
(* _SupervisorEntry.run up to the call of the supervisor.                    *)

EntryFails(e) == [e EXCEPT !.failed = TRUE, !.pc = "restore"]

\* window, control.start and the signal handlers.
StartControl ==
  /\ ent.pc = "control"
  /\ \/ now < LaunchEnd /\ NoFault
        /\ ent' = [ent EXCEPT !.pin = "active", !.handlers = TRUE, !.pc = "directory"]
     \/ /\ IF now < LaunchEnd THEN Fault ELSE NoFault
        /\ ent' = EntryFails(ent)
  /\ UNCHANGED <<sup, wire>> /\ Pass

\* The two roots are opened; an open that raises may have acquired.
OpenRoot ==
  /\ ent.pc \in {"directory", "home"}
  /\ LET e == Polled1(ent)
         go == now < LaunchEnd /\ ~Refuses(e)
     IN \/ /\ go /\ NoFault
           /\ ent' = [e EXCEPT !.pc = IF ent.pc = "directory" THEN "home" ELSE "call"]
           /\ sup' = [sup EXCEPT !.slots[ent.pc] = "held"]
        \/ /\ go /\ Fault
           /\ ent' = [EntryFails(e) EXCEPT !.unknown = TRUE]
           /\ sup' = [sup EXCEPT !.slots[ent.pc] = "lost"]
        \/ /\ ~go /\ NoFault
           /\ ent' = EntryFails(e) /\ UNCHANGED sup
  /\ wire' = Drained1 /\ Pass

\* The roots are transferred and run_and_send is called.
Call ==
  /\ ent.pc = "call"
  /\ LET e == Polled1(ent)
         go == now < LaunchEnd /\ ~Refuses(e)
     IN /\ ent' = IF go THEN [e EXCEPT !.pc = "running", !.called = TRUE] ELSE EntryFails(e)
        /\ sup' = IF go THEN [sup EXCEPT !.pc = "capture_directory"] ELSE sup
  /\ wire' = Drained1 /\ NoFault /\ Pass

\* Before the call the two roots belong to the entry; it closes them once.
CloseRoots ==
  /\ ent.pc = "restore" /\ ent.handlers
  /\ ~ent.called /\ ~ent.unknown
  /\ \E n \in {"home", "directory"} :
       /\ sup.slots[n] = "held"
       /\ n = "directory" => sup.slots["home"] # "held"
       /\ \/ now < HardEnd /\ NoFault
             /\ sup' = [sup EXCEPT !.slots[n] = "closed"] /\ UNCHANGED ent
          \/ /\ IF now < HardEnd THEN Fault ELSE NoFault
             /\ sup' = [sup EXCEPT !.slots[n] = "lost"]
             /\ ent' = [ent EXCEPT !.unknown = TRUE]
  /\ UNCHANGED wire /\ Pass

-----------------------------------------------------------------------------
(* SupervisorLaunch.start.                                                   *)

SupFails(s, u) == [s EXCEPT !.failed = TRUE, !.fresh = TRUE, !.unknown = @ \/ u]
LaunchAfter == [capture_directory |-> "scope", scope |-> "bundle", bundle |-> "stdout",
                stdout |-> "stderr", stderr |-> "spawn"]

\* The next owner of the roster; a factory that raises leaves it unreturned.
LaunchAcquire ==
  /\ sup.pc \in DOMAIN LaunchAfter
  /\ LET n == sup.pc IN
     \/ /\ now < LaunchEnd /\ NoFault
        /\ sup' = [sup EXCEPT !.slots[n] = "held", !.pc = LaunchAfter[n]]
     \/ /\ now < LaunchEnd /\ Fault
        /\ sup' = [SupFails([sup EXCEPT !.slots[n] = "lost"], TRUE) EXCEPT !.pc = "finish"]
     \/ /\ now >= LaunchEnd /\ NoFault
        /\ sup' = [SupFails(sup, FALSE) EXCEPT !.pc = "finish"]
  /\ UNCHANGED <<ent, wire>> /\ Pass

\* cancelled(), the sources are reread, and the worker is spawned.
LaunchSpawn ==
  /\ sup.pc = "spawn"
  /\ LET e == Polled1(ent)
         go == now < LaunchEnd /\ ~Refuses(e)
     IN /\ \/ /\ go /\ NoFault
              /\ sup' = [sup EXCEPT !.pc = "wait", !.waiting = TRUE]
              /\ wk' = [wk EXCEPT !.pc = "roots"]
           \/ /\ go /\ Fault
              /\ sup' = [SupFails(sup, FALSE) EXCEPT !.pc = "finish"]
              /\ wk' \in {wk, [wk EXCEPT !.pc = "roots"]}
           \/ /\ ~go /\ NoFault
              /\ sup' = [SupFails(sup, FALSE) EXCEPT !.pc = "finish"]
              /\ UNCHANGED wk
        /\ ent' = [e EXCEPT !.cancelled = e.signalled /\ ~e.broken /\ now < HardEnd]
  /\ wire' = Drained1
  /\ UNCHANGED <<now, role, prov, cap, packet>>

-----------------------------------------------------------------------------
(* ProviderSupervisor._wait and _finish.                                     *)

\* One round of the wait loop: the clock, the cancellation, the child's code.
\* Fault: the loop does not look at the cutoff.
WaitUnbounded ==
  /\ sup.pc = "wait"
  /\ LET e == Polled1(ent)
     IN /\ \/ ~Refuses(e) /\ wk.pc = "gone" /\ sup' = [sup EXCEPT !.code = wk.code, !.pc = "polled"]
           \/ Refuses(e) /\ sup' = [SupFails(sup, FALSE) EXCEPT !.pc = "finish"]
        /\ ent' = [e EXCEPT !.cancelled = e.signalled /\ ~e.broken]
  /\ wire' = Drained1 /\ NoFault /\ Pass
Wait ==
  /\ sup.pc = "wait"
  /\ LET e == Polled1(ent)
         go == now < Cutoff /\ ~Refuses(e)
     IN /\ \/ go /\ wk.pc = "gone" /\ sup' = [sup EXCEPT !.code = wk.code, !.pc = "polled"]
           \/ ~go /\ sup' = [SupFails(sup, FALSE) EXCEPT !.pc = "finish"]
        /\ ent' = [e EXCEPT !.cancelled = e.signalled /\ ~e.broken /\ now < Cutoff]
  /\ wire' = Drained1 /\ NoFault /\ Pass

\* The code counts only after the check that follows the poll.
WaitReturns ==
  /\ sup.pc = "polled"
  /\ LET s == [sup EXCEPT !.qualified = now < Cutoff, !.pc = "finish"]
     IN sup' = IF s.qualified /\ s.code = 0 THEN s ELSE SupFails(s, FALSE)
  /\ UNCHANGED <<ent, wire>> /\ NoFault /\ Pass

\* _finish pins the boundary; without a scope nothing can be retired unless
\* none was attempted.
Finish ==
  /\ sup.pc = "finish"
  /\ LET s == [sup EXCEPT !.boundary = sup.failed, !.fresh = FALSE]
         known == sup.slots["scope"] = "none" /\ ~sup.unknown
     IN sup' = IF sup.slots["scope"] = "held" THEN [s EXCEPT !.pc = "drain"]
               ELSE IF known THEN [s EXCEPT !.pc = "closes", !.retired = TRUE]
               ELSE [s EXCEPT !.pc = "returned", !.unknown = TRUE]
  /\ UNCHANGED <<ent, wire>> /\ NoFault /\ Pass

\* The worker and the provider carry the outer scope's marker, so one drain
\* ends both; only an empty, error-free drain in time is a retirement.
KillsAll == /\ prov' = Killed(prov)
            /\ IF Alive THEN Ends(KILLED_EXIT) ELSE UNCHANGED <<wk, cap>>

SupDrain ==
  /\ sup.pc = "drain"
  /\ \/ /\ now < HardEnd /\ NoFault /\ KillsAll
        /\ sup' = [sup EXCEPT !.retired = TRUE, !.pc = "scope closing"]
     \/ /\ now < HardEnd /\ Fault
        /\ KillsAll \/ UNCHANGED <<prov, wk, cap>>
        /\ sup' = [SupFails(sup, TRUE) EXCEPT !.pc = "scope closing"]
     \/ /\ now >= HardEnd /\ NoFault /\ UNCHANGED <<prov, wk, cap>>
        /\ sup' = [SupFails(sup, TRUE) EXCEPT !.pc = "scope closing"]
  /\ UNCHANGED <<now, role, packet, ent, wire>>

\* _fence: no error since the boundary, nothing unknown, in time.
SupFence(s) == ~s.unknown /\ ~s.fresh /\ now < HardEnd

\* _close: after a missed end only the scope is still closed.
SupClose(n, next(_)) ==
  IF now < HardEnd \/ n = "scope"
  THEN LET s == IF now < HardEnd THEN sup ELSE SupFails(sup, FALSE)
       IN \/ sup' = next([s EXCEPT !.slots[n] = "closed"]) /\ NoFault
          \/ sup' = next(SupFails([s EXCEPT !.slots[n] = "lost"], TRUE)) /\ Fault
  ELSE sup' = next(SupFails(sup, FALSE)) /\ NoFault

\* Fault: the files are released although the drain did not qualify.
SupRetireAnyway(s) == [s EXCEPT !.retired = TRUE, !.pc = "closes", !.unknown = FALSE]
\* The scope's close is the backstop; retirement needs both returns.
SupRetire(s) ==
  IF s.retired /\ s.slots["scope"] = "closed" /\ ~s.unknown /\ now < HardEnd
  THEN [s EXCEPT !.pc = IF s.waiting THEN "persist" ELSE "closes"]
  ELSE [s EXCEPT !.pc = "returned", !.retired = FALSE, !.unknown = TRUE]

SupCloseScope ==
  /\ sup.pc = "scope closing"
  /\ SupClose("scope", SupRetire)
  /\ IF role = "windows" /\ sup'.slots["scope"] = "closed" THEN KillsAll ELSE UNCHANGED <<prov, wk, cap>>
  /\ UNCHANGED <<now, role, packet, ent, wire>>

\* The slot of a reader that was opened and closed again; on Windows a log is
\* read through its pinned writer and no reader exists.
Read(slot) == IF role = "windows" /\ slot \in {"stdout-reader", "stderr-reader"}
              THEN "none" ELSE "closed"

\* A step of the readback that returns, or whose failure is unknown: an
\* opener that raises may have acquired a handle.
ReadbackStep(here, slot, next) ==
  /\ sup.pc = here
  /\ \/ /\ SupFence(sup) /\ NoFault
        /\ sup' = [sup EXCEPT !.slots[slot] = Read(slot), !.pc = next]
     \/ /\ IF SupFence(sup) THEN Fault ELSE NoFault
        /\ sup' = [SupFails(sup, TRUE) EXCEPT !.pc = "closes",
                      !.slots[slot] = IF SupFence(sup) THEN "lost" ELSE @]
  /\ UNCHANGED <<ent, wire>> /\ Pass

\* _persist_native: the retirement record is written after the scope's close.
PersistNative == ReadbackStep("persist", "retirement-writer", "read stdout")
\* _read of each worker log.
ReadStdout == ReadbackStep("read stdout", "stdout-reader", "read stderr")
ReadStderr == ReadbackStep("read stderr", "stderr-reader", "read packet")

\* Only a qualified wait with code 0 or 65 and an acknowledgement is read.
Acknowledged ==
  sup.qualified /\ sup.code \in {0, FAILED_CAPTURE_EXIT} /\ packet.ack
\* decode: the packet is the acknowledged one and agrees with the exit code.
Decodes == packet.of = (IF sup.code = 0 THEN "result" ELSE "failure")

\* A framing error is an error of the return; an I/O error is unknown.
ReadPacket ==
  /\ sup.pc = "read packet"
  /\ \/ /\ ~SupFence(sup) \/ ~Acknowledged
        /\ sup' = [sup EXCEPT !.control = TRUE, !.pc = "closes"] /\ NoFault
     \/ /\ SupFence(sup) /\ Acknowledged /\ packet.state = "whole"
        /\ sup' = [sup EXCEPT !.pc = "closes", !.slots["packet-reader"] = "closed",
                     !.returned = IF Decodes THEN packet.of ELSE @,
                     !.control = ~Decodes]
        /\ NoFault
     \/ /\ SupFence(sup) /\ Acknowledged
        /\ IF packet.state = "whole" THEN Fault ELSE NoFault
        /\ sup' = [SupFails(sup, TRUE) EXCEPT !.control = TRUE, !.pc = "closes",
                     !.slots["packet-reader"] = "lost"]
  /\ UNCHANGED <<ent, wire>> /\ Pass

SupCloseOrder == <<"stderr", "stdout", "bundle", "capture_directory", "home", "directory">>
Remaining == {i \in DOMAIN SupCloseOrder : sup.slots[SupCloseOrder[i]] = "held"}

\* The roster is closed in order; unknown stops it, a missed end skips it.
SupCloseOwners ==
  /\ sup.pc = "closes"
  /\ IF sup.unknown \/ Remaining = {} \/ now >= HardEnd
     THEN /\ sup' = [(IF now < HardEnd THEN sup ELSE SupFails(sup, FALSE))
                      EXCEPT !.pc = IF sup.waiting THEN "transcript" ELSE "returned"]
          /\ NoFault
     ELSE LET i == CHOOSE i \in Remaining : \A j \in Remaining : i <= j
              same(s) == s
          IN SupClose(SupCloseOrder[i], same)
  /\ UNCHANGED <<ent, wire>> /\ Pass

\* _finish's last part and _complete: everything closed, nothing new failed.
Transcript ==
  /\ sup.pc = "transcript"
  /\ LET whole == SupFence(sup) /\ \A n \in Owners : sup.slots[n] \in {"none", "closed"}
         ended == [sup EXCEPT !.failed = @ \/ sup.control]
     IN sup' = IF whole
               THEN [ended EXCEPT !.transcript = IF ended.failed THEN "failed" ELSE "passed",
                                  !.pc = "send"]
               ELSE [SupFails(sup, FALSE) EXCEPT !.pc = "returned"]
  /\ UNCHANGED <<ent, wire>> /\ NoFault /\ Pass

\* run_and_send writes and flushes the acknowledgement, then the receipt.
Send ==
  /\ sup.pc = "send"
  /\ \/ now < HardEnd /\ sup' = [sup EXCEPT !.sent = TRUE, !.pc = "returned"] /\ NoFault
     \/ /\ IF now < HardEnd THEN Fault ELSE NoFault
        /\ sup' = [SupFails(sup, FALSE) EXCEPT !.pc = "returned"]
  /\ UNCHANGED <<ent, wire>> /\ Pass

-----------------------------------------------------------------------------
(* _SupervisorEntry after the call: restore, complete, exit code.            *)

\* run_and_send returned or raised.
CallReturns ==
  /\ ent.pc = "running" /\ sup.pc = "returned"
  /\ ent' = [ent EXCEPT !.pc = "restore", !.failed = sup.failed]
  /\ UNCHANGED <<sup, wire>> /\ NoFault /\ Pass

\* Every installed handler is put back; a handler somebody changed is unknown.
Restore ==
  /\ ent.pc = "restore"
  /\ ~ent.called /\ ~ent.unknown => \A n \in {"home", "directory"} : sup.slots[n] # "held"
  /\ \/ ent' = [ent EXCEPT !.handlers = FALSE, !.pc = "complete"] /\ NoFault
     \/ ent.handlers /\ Fault
        /\ ent' = [ent EXCEPT !.handlers = FALSE, !.failed = TRUE, !.unknown = TRUE, !.pc = "complete"]
  /\ UNCHANGED <<sup, wire>> /\ Pass

\* The run ends without a completion: the control is still retired, the exit
\* code is 66 whatever that brings.
Incomplete66(e) == [e EXCEPT !.code = INCOMPLETE_EXIT, !.pc = "retire", !.failed = TRUE]

\* A cancellation that arrived after the run is late, unless it was the error.
Complete ==
  /\ ent.pc = "complete"
  /\ LET e == Polled1(ent)
         whole == /\ e.called /\ ~e.unknown /\ ~e.broken
                  /\ ~e.signalled \/ e.cancelled
                  /\ now < HardEnd
     IN ent' = IF whole THEN [e EXCEPT !.pc = "exit"] ELSE Incomplete66(e)
  /\ wire' = Drained1
  /\ UNCHANGED sup /\ NoFault /\ Pass

\* exit_code: the completion and the supervisor's receipt are checked again.
ExitCheck ==
  /\ ent.pc = "exit"
  /\ LET e == Polled1(ent)
         same == e.signalled = ent.signalled /\ ~e.broken /\ now < HardEnd /\ sup.sent
     IN ent' = IF same THEN [e EXCEPT !.pc = "retire", !.code = IF e.failed THEN FAILED_CAPTURE_EXIT ELSE 0]
               ELSE Incomplete66(e)
  /\ wire' = Drained1
  /\ UNCHANGED sup /\ NoFault /\ Pass

\* Fault: retire() does not poll once more.
RetireBlind ==
  /\ ent.pc = "retire"
  /\ ent' = [ent EXCEPT !.pc = "close", !.sentAtRetire = wire.sent]
  /\ UNCHANGED <<wire, sup>> /\ NoFault /\ Pass
\* What the poll read, and a failure of it, decide after the close.
Retiring(e) ==
  [e EXCEPT !.pc = "close", !.sentAtRetire = wire.sent,
            !.code = IF e.signalled = ent.signalled /\ ~e.broken THEN @ ELSE INCOMPLETE_EXIT]
\* retire() begins with a last poll; a byte written after it is never read.
RetirePoll ==
  /\ ent.pc = "retire"
  /\ \/ NoFault /\ ent' = Retiring(Polled1(ent)) /\ wire' = Drained1
     \/ Fault /\ ent' = Retiring([ent EXCEPT !.broken = TRUE]) /\ UNCHANGED wire
  /\ UNCHANGED sup /\ Pass

\* The objects are verified again, the pin is closed once, and the terminal
\* check decides; a close that fails or comes too late leaves 66.
RetireClose ==
  /\ ent.pc = "close"
  /\ \/ /\ now < HardEnd /\ NoFault
        /\ ent' = [ent EXCEPT !.pin = IF @ = "active" THEN "retired" ELSE @, !.pc = "done", !.exit = ent.code]
     \/ /\ IF now < HardEnd THEN Fault ELSE NoFault
        /\ ent' = [ent EXCEPT !.pc = "done", !.exit = INCOMPLETE_EXIT, !.failed = TRUE]
  /\ UNCHANGED <<sup, wire>> /\ Pass

-----------------------------------------------------------------------------
LaunchStep == LaunchAcquire \/ LaunchSpawn \/ Wait \/ WaitReturns
FinishStep ==
  \/ Finish \/ SupDrain \/ SupCloseScope \/ PersistNative \/ ReadStdout
  \/ ReadStderr \/ ReadPacket \/ SupCloseOwners \/ Transcript \/ Send
EntryStep ==
  \/ StartControl \/ OpenRoot \/ Call \/ CloseRoots \/ CallReturns
  \/ Restore \/ Complete \/ ExitCheck \/ RetirePoll \/ RetireClose
Outer == <<sup, ent, wire>>

Next ==
  /\ ent.pc # "done"
  /\ \/ LaunchStep \/ FinishStep \/ EntryStep
     \/ (WorkerStep \/ WorkerDies \/ PacketReplaced) /\ UNCHANGED Outer
     \/ ProviderStep /\ UNCHANGED <<now, role, faults, cap, wk, packet, Outer>>
     \/ Tick /\ UNCHANGED <<role, faults, worker, Outer>>
     \/ \E n \in {1, 2} : ParentCancels(n)
     \/ SignalArrives
Done == ent.pc = "done" /\ UNCHANGED vars

Spec == Init /\ [][Next \/ Done]_vars
\* The supervising process runs, and the clock moves; nothing is assumed of
\* the worker, the provider or the parent.
FairSpec ==
  /\ Spec
  /\ WF_vars(LaunchStep \/ FinishStep) /\ WF_vars(EntryStep)
  /\ WF_vars(Tick /\ ent.pc # "done" /\ UNCHANGED <<role, faults, worker, Outer>>)

-----------------------------------------------------------------------------
AllReleased == \A n \in Owners : sup.slots[n] \in {"none", "closed"}

\* What the exit code of the entry tells the cache action: 0 only when the
\* provider exited 0, every process of it and of the worker is gone, the three
\* captures are its complete output, every owner is closed, and no
\* cancellation had been sent when the retirement of the control pipe began
\* (one sent between the last poll and the close of the pin goes unread, and the
\* parent has to remember it itself); 65 only with the processes gone and the
\* owners closed.
ExitTruthful ==
  /\ ent.exit \in {0, FAILED_CAPTURE_EXIT} =>
       ~Processes(prov) /\ ~Alive /\ AllReleased /\ ~ent.unknown /\ ~sup.unknown
  /\ ent.exit = 0 =>
       /\ prov.leader = "gone" /\ prov.code = 0
       /\ sup.returned = "result"
       /\ \A s \in Streams : packet.seen[s] = prov.written
       /\ ~ent.signalled /\ ent.sentAtRetire = 0

\* No file is released beneath an uncertain writer: neither the capture nor the
\* supervisor has closed a file or a directory while a process that holds or
\* writes it may still run.
PinsHeld ==
  /\ (\E n \in Streams \cup {"directory"} : cap.slots[n] = "closed") => ~Processes(prov)
  /\ (\E n \in FileOwners : sup.slots[n] = "closed") => ~Processes(prov) /\ ~Alive

\* The entry ends, whatever the worker and the provider do: a hung provider, a
\* dead worker, a lost acknowledgement.
EntryReturns == <>(ent.exit # NoCode)
=============================================================================
