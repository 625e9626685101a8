------------------------------ MODULE Recipient ------------------------------
(* scripts/run-hosted-initial-recipient.py as a whole: a gate prepares and    *)
(* hands over its originals; a worker prepares, is readmitted and validates   *)
(* the recipient in one process, and a second process receives what it left,  *)
(* initializes the canonical state and hands everything to custody.           *)
(*                                                                            *)
(* This module has the receiving side, a process of its own (stages 6 and 7): *)
(* _receive_initialization reads back everything the worker left (the sender's*)
(* return S, the preparation P, the readmission E and the recipient R),       *)
(* acquires a third authority, initializes the canonical state in a native    *)
(* child (_initialize_receiving), indexes all originals and hands them to     *)
(* custody (_retain_worker_handoff).  There is one interval of 120 seconds,   *)
(* which has no cleanup interval after it.                                    *)
EXTENDS RecipientSender

\* S, P, E, R and the authority of R.
Graphs == {"sender", "preparation", "readmission", "recipient-graph", "authority-2"}

\* A step of the receiver's own, while no authority runs inside it.
IStep(p, q, rd, wr, tk) == In(6) /\ ~Nested /\ Step(p, q, "failed", Live(FALSE), rd, wr, tk)

\* The process starts at any later time; its window starts with its first
\* reading.
ReceiveStart ==
  /\ In(6) /\ at.pc = "start" /\ at' = [at EXCEPT !.pc = "open"] /\ Smooth
  /\ own' = Opened(Work, 0)
  /\ UNCHANGED <<disk, child, quarantine>> /\ Frame

\* The owner and the session of this process.
ReceiveOpen == IStep("open", "step", {}, {}, {"directories"})

\* _capture_receiving_step: the step under the hash the workflow passed on.
ReceiveStep == IStep("step", "sender", {"step"}, {}, {"directories"})

\* _read_recipient_sender: the package under the hash of the outcome, its two
\* returns against each other, all read twice.
ReceiveSender == IStep("sender", "graphs", {"sender"}, {}, {})

\* _read_initial_recipient_originals: the directories and every file.
ReceiveGraphs == IStep("graphs", "queries", Graphs, {}, {"directories"})

\* The sessions whose git queries are validated: every query retired and
\* accepted, and the commands of the fixed roster.
Queried == {"preparation", "readmission", "authority-2"}

ReceiveQueries == IStep("queries", "native", Queried, {}, {"directories"})

\* _initial_graph_native: start, birth, result and child of each native phase
\* against the context, over the bytes already read.
ReceiveNative == IStep("native", "regraph", {}, {}, {})

\* At the end every path and file once more.
ReceiveReread == IStep("regraph", "bind", Graphs, {}, {})

\* Fault: the interval of the process is not shortened.
BindUnfenced ==
  /\ In(6) /\ at.pc = "bind" /\ Smooth
  /\ at' = [at EXCEPT !.pc = "window"] /\ UNCHANGED own
  /\ UNCHANGED <<disk, child, quarantine>> /\ Frame

\* _bind_receiving_originals: the interval is shortened to the proposal's
\* fence for the canonical initialization and to the proposed end of the job.
ReceiveBind ==
  /\ In(6) /\ at.pc = "bind" /\ Smooth
  /\ own' = [Fenced(own, CanonicalFence) EXCEPT !.failed = now >= Least(own.work, CanonicalFence) \/ cancelled]
  /\ at' = [at EXCEPT !.pc = IF own'.failed THEN "failed" ELSE "window"]
  /\ UNCHANGED <<disk, child, quarantine>> /\ Frame

ReceiveWindow == IStep("window", "crypto", {}, {"receiving-window"}, {})

\* _capture_worker_crypto: the sidecar's index against the crypto directory.
ReceiveCrypto == IStep("crypto", "inputs", {"sidecar", "crypto-files"}, {}, {"directories"})

\* _capture_receiving_inputs: toolchains, interpreter and the absent state.
ReceiveInputs == IStep("inputs", "authorize", {}, {"init-request"}, {"directories"})

ReceiveAuthority == In(6) /\ ~Nested /\ AuthorityOpen("authorize", Live(FALSE))
ReceiveAuthorityPending == In(6) /\ AuthorityPending("authority-3", "authority-capture")

\* _capture_worker_authority: the files and directories of this authority are
\* indexed for the handoff before its close, once.
ReceiveAuthorityCapture ==
  /\ In(6) /\ Nested
  /\ Step("authority-capture", "authority-closing", "failed",
          Live(FALSE) /\ Acquired \subseteq disk.written, {}, {}, {})

ReceiveAuthorityLeave == In(6) /\ AuthorityLeave("init-context")

-----------------------------------------------------------------------------
(* _initialize_receiving: the canonical child.                                *)

\* The continuation is used once; context and start.
InitContext == IStep("init-context", "init-streams", {"init-request"}, {"init-context", "init-start"}, {})

InitStreams ==
  In(6) /\ Step("init-streams", "init-spawn", "init-drain", Live(FALSE), {}, {"init-baseline"},
                {"stdout", "stderr", "scope"})

\* Step, inputs and absent outputs are compared immediately before the launch.
InitSpawn ==
  In(6) /\ Spawn("init-spawn", "init-birth", "init-drain", Live(FALSE), {"step", "init-request", "init-context"})

InitBirth ==
  In(6) /\ Step("init-birth", "init-poll", "init-drain", Live(FALSE), {}, {"init-native-start"}, {})

InitPoll == In(6) /\ Poll("init-poll", "init-drain", Live(FALSE))
InitDrain == In(6) /\ Drain("init-drain", "init-captures")

\* Fault: a child that failed after its launch is an ordinary failure.
InitCapturesKnown ==
  /\ In(6) /\ at.pc = "init-captures" /\ Smooth
  /\ LET bad == own.failed \/ now >= own.work
     IN /\ own' = [own EXCEPT !.held = IF own.unknown THEN @ ELSE @ \ {"stdout", "stderr"}, !.failed = bad]
        /\ at' = [at EXCEPT !.pc = IF bad THEN "failed" ELSE "init-result"]
  /\ UNCHANGED <<disk, child, quarantine>> /\ Frame

\* The captures are closed after a known drain only; with a launch attempted,
\* whatever failed until here leaves the canonical state unknown.  Otherwise
\* the child is RETIRED: it returned 0 and left nothing running or open.
InitCaptures ==
  /\ In(6) /\ at.pc = "init-captures"
  /\ \E kept \in SUBSET ({"stdout", "stderr"} \cap own.held) :
       /\ IF kept = {} \/ own.unknown THEN Smooth ELSE Raised
       /\ own.unknown => kept = {"stdout", "stderr"} \cap own.held
       /\ LET bad == own.failed \/ own.unknown \/ kept # {} \/ now >= own.work
          IN /\ own' = [own EXCEPT !.held = (@ \ {"stdout", "stderr"}) \cup kept, !.failed = bad,
                                   !.unknown = @ \/ kept # {} \/ (bad /\ Launched),
                                   !.phase = IF bad THEN @ ELSE "RETIRED"]
             /\ at' = [at EXCEPT !.pc = IF bad THEN "failed" ELSE "init-result"]
  /\ UNCHANGED <<disk, child, quarantine>> /\ Frame

\* The captured output must be the path of the state and nothing else; result
\* is written.  There are no phase_originals before it is: a refusal of what a
\* retired child left, or of the time, is an ordinary failure.
InitResult == IStep("init-result", "init-read", {"init-stdout"}, {"init-result"}, {})

\* From then on, until the initialization is accepted, a failure makes the
\* owner unknown.
InitStep(p, q, rd, wr) ==
  /\ In(6) /\ at.pc = p
  /\ \/ /\ Live(FALSE) /\ Originals(rd) /\ Smooth /\ at' = [at EXCEPT !.pc = q]
        /\ disk' = [disk EXCEPT !.written = @ \cup wr]
        /\ own' = [own EXCEPT !.phase = IF q = "index" THEN "ACCEPTED" ELSE @]
     \/ /\ IF Live(FALSE) /\ Originals(rd) THEN Raised ELSE Smooth
        /\ at' = [at EXCEPT !.pc = "failed"] /\ UNCHANGED disk
        /\ own' = [own EXCEPT !.failed = TRUE, !.unknown = TRUE]
  /\ UNCHANGED <<child, quarantine>> /\ Frame

Initialized == {"init-request", "init-context", "init-start", "init-baseline", "init-native-start", "init-stdout",
                "init-result", "canonical"}

InitRead == InitStep("init-read", "init-reread", Initialized \cup {"step"}, {"initialization"})
InitReread == InitStep("init-reread", "index", Initialized \cup {"step", "initialization"}, {})

\* The canonical init command: it knows its request only.
InitChild ==
  /\ In(6) /\ ~Nested
  /\ ChildWrites({"init-request"}, {"canonical", "init-stdout"}) \/ ChildReturns \/ ChildFails({"init-request"})

-----------------------------------------------------------------------------
(* The index of all originals, the close and the handoff.                     *)

\* _capture_worker_originals: pins and digests of everything read or written.
ReceiveIndex == IStep("index", "recheck", {}, {}, {})

\* The readers' pins, the continuation, step and inputs after the yield.
ReceiveRecheck == IStep("recheck", "closing", {"step", "init-request", "initialization"}, {}, {})

ReceiveFailed ==
  /\ In(6) /\ ~Nested /\ at.pc = "failed" /\ at' = [at EXCEPT !.pc = "closing"] /\ Smooth
  /\ UNCHANGED <<own, disk, child, quarantine>> /\ Frame

ReceiveClose == In(6) /\ ~Nested /\ CloseOwner("closing", "closed")

\* known, the window and both readers once more; then the handoff's own owner
\* in what is left of the window.
ReceiveReturn == Publish("closed", 6, InTime, [own EXCEPT !.held = {}, !.closed = FALSE])

\* Claimed once; the closed return and the index of the originals.
HandoffWrite ==
  In(7) /\ Step("start", "handoff-reread", "closing", Live(FALSE), {}, {"worker-handoff"}, {"directories"})

HandoffReread == In(7) /\ Step("handoff-reread", "closing", "closing", Live(FALSE), {"worker-handoff"}, {}, {})
HandoffClose == In(7) /\ CloseOwner("closing", "closed")

\* append_outputs, checked before and after; exactly two checks end it.
HandoffOutput == Publish("closed", 7, InTime, own)

ReceiverNext ==
  \/ ReceiveStart \/ ReceiveOpen \/ ReceiveStep \/ ReceiveSender \/ ReceiveGraphs \/ ReceiveQueries
  \/ ReceiveNative \/ ReceiveReread \/ ReceiveBind \/ ReceiveWindow
  \/ ReceiveCrypto \/ ReceiveInputs \/ ReceiveAuthorityPending \/ ReceiveAuthorityCapture
  \/ InitContext \/ InitStreams \/ InitSpawn \/ InitBirth \/ InitPoll \/ InitDrain \/ InitCaptures
  \/ InitResult \/ InitRead \/ InitReread
  \/ ReceiveIndex \/ ReceiveRecheck \/ ReceiveFailed \/ ReceiveClose \/ ReceiveReturn
  \/ HandoffWrite \/ HandoffReread \/ HandoffClose \/ HandoffOutput

-----------------------------------------------------------------------------
(* The whole.                                                                 *)

Init ==
  /\ now = 0 /\ trouble = 0 /\ cancelled = FALSE /\ at = [stage |-> 1, pc |-> "start"]
  /\ own = Opened(Work, Clean)
  /\ disk \in {[written |-> {e}, swapped |-> {}] : e \in {"gate-event", "worker-event"}}
  /\ child = NoChild /\ quarantine = FALSE /\ published = {}

\* The one service phase: in the stage's owner or in the authority's.
PhaseNext ==
  \/ PhaseEnter \/ PhaseSetup \/ PhaseStreams \/ PhaseSpawn \/ PhaseBirth \/ PhasePoll \/ PhaseDrain
  \/ PhaseCaptures \/ PhaseReceipt \/ PhaseLeave("read")

\* service_child, _recipient_child and the canonical command.
ChildNext ==
  \/ (at.stage < 3 \/ Nested) /\ ServiceChild({"source-before", "context"})
  \/ RecipientChild \/ InitChild

Done ==
  /\ at = [stage |-> IF Worker THEN 8 ELSE 3, pc |-> "start"] /\ at' = [at EXCEPT !.pc = "done"]
  /\ UNCHANGED <<now, trouble, cancelled, own, disk, child, quarantine, published>>

AuthorityStack ==
  \/ RecipientAuthority \/ RecipientAuthorityLeave \/ ReceiveAuthority \/ ReceiveAuthorityLeave

Next ==
  \/ Tick \/ Cancel \/ \E f \in disk.written : Swap(f)
  \/ SenderNext \/ AuthorityNext \/ AuthorityStack \/ ReceiverNext \/ PhaseNext \/ ChildNext \/ Done
  \/ Exited

-----------------------------------------------------------------------------

\* What the receiving process is answerable for: all that the worker left.
Inherited(s) ==
  IF s = 6 THEN {"step", "sender", "preparation", "readmission", "recipient-graph", "sidecar"} ELSE {}

\* The fence the proposal of the first process gives the phase of a stage.
EndOf(s) ==
  CASE s = 1 -> JobEnd
    [] s = 2 -> IF Worker THEN EntryFence ELSE JobEnd
    [] s \in 3 .. 5 -> RecipientFence
    [] OTHER -> CanonicalFence
=============================================================================
