--------------------------- MODULE RecipientSender ---------------------------
(* The sending side of scripts/run-hosted-initial-recipient.py.               *)
(* _prepare_with_token queries the source and acquires the service match in a *)
(* service child, for a gate or for a worker.  A gate hands its originals to  *)
(* custody (_retain_gate_handoff).  A worker goes on in the same process: it  *)
(* is readmitted (_readmit_worker), validates the recipient in a native child *)
(* under a second authority (_prepare_and_validate_recipient), and retains    *)
(* the return for the next process (_retain_recipient_validation,             *)
(* _retain_sender_step).  The authority has an owner of its own inside the    *)
(* recipient's, which waits for it.                                           *)
EXTENDS HostedOwner, HostedParent

\* host_context: the event says whether a gate or a worker runs.
Worker == "worker-event" \in disk.written

\* The ends the allocation proposal fixes for the phases, each before the next
\* and all before the proposed end of the job.
EntryFence == JobEnd - 3
RecipientFence == JobEnd - 2
CanonicalFence == JobEnd - 1

Fenced(o, e) == [o EXCEPT !.work = Least(@, e), !.final = Least(@, e), !.read = Least(@, e)]

\* The records of one service acquisition: what read_phase compares.
Acquired == {"source-before", "context"} \cup PhaseRecords \cup ChildRecords

\* source_queries: the pinned queries run in a session that is finalized on
\* every path; what it cannot retire is the owner's unknown.
SourceQueries(p, q, f) == Step(p, q, "failed", Live(FALSE), {}, {f}, {"directories"})

\* read_phase, once before and once after the second source query.
ReadPhase(p, q) == Step(p, q, "failed", Live(FALSE), Acquired, {}, {"directories"})

-----------------------------------------------------------------------------
(* Stage 1: _prepare_with_token.                                              *)

\* The prelude and its fence, the boot identity, prelude.json, directories.
PrepareOpen ==
  In(1) /\ Step("start", "source-before", "failed", Live(FALSE), {}, {"prelude"}, {"directories"})

PrepareBefore == In(1) /\ SourceQueries("source-before", "context", "source-before")

PrepareContext == In(1) /\ Step("context", "phase", "failed", Live(FALSE), {}, {"context"}, {})

PrepareRead == In(1) /\ ReadPhase("read", "source-after")
PrepareAfter == In(1) /\ SourceQueries("source-after", "read-again", "source-after")
PrepareReadAgain == In(1) /\ ReadPhase("read-again", "identity")

\* A worker's identity is bound to the match, its service time and the proposed
\* allocation are derived from it.
PrepareIdentity ==
  In(1) /\ Step("identity", "result", "failed", Live(FALSE), {},
                IF Worker THEN {"worker-identity", "service-time", "proposal"} ELSE {}, {})

\* initial-result.json binds the files of this stage: one graph from here on.
PrepareResult == In(1) /\ Step("result", "capture", "failed", Live(FALSE), {}, {"preparation"}, {})

\* The index of a gate's files and directories: the three query sessions, the
\* service phase and the result, each bound to the match and the context.
GateInventory == {"preparation"}

\* _capture_gate_originals reads a gate's inventory back before the close.
PrepareCapture ==
  In(1) /\ Step("capture", "closing", "failed", Live(FALSE), IF Worker THEN {} ELSE GateInventory, {}, {})

PrepareFailed == In(1) /\ Retain("failed", "closing", "initial-failure")
PrepareClose == In(1) /\ CloseOwner("closing", "closed")

\* _original_limits, the boot identity and the cancellation after the close; a
\* worker's job envelope is admitted before the return is registered.  A gate
\* has the rest of the cleanup interval, a worker a window of its own.
PrepareReturn ==
  Publish("closed", 1, InTime,
          IF Worker THEN Fenced(Opened(Work, Clean), EntryFence)
                    ELSE [own EXCEPT !.held = {}, !.closed = FALSE])

-----------------------------------------------------------------------------
(* Stage 2 of a gate: _retain_gate_handoff.                                   *)

\* The return is claimed once; a new directory with the one record.
GateWrite ==
  In(2) /\ ~Worker /\ Step("start", "closing", "closing", Live(TRUE), {}, {"gate-handoff"}, {"directories"})

\* The roster is compared after the close, inside every later check.
GateClose == In(2) /\ ~Worker /\ CloseOwner("closing", "closed")

\* append_outputs, checked before and after.
GateOutput == ~Worker /\ Publish("closed", 2, InTime, own)

-----------------------------------------------------------------------------
(* Stage 2 of a worker: _readmit_worker.                                      *)

\* The claim is taken once; the entry window never exceeds the proposal's.
EntryOpen ==
  In(2) /\ Worker
        /\ Step("start", "source-before", "failed", Live(FALSE), {}, {"entry-window"}, {"directories"})

EntryBefore == In(2) /\ Worker /\ SourceQueries("source-before", "context", "source-before")
EntryContext == In(2) /\ Worker /\ Step("context", "phase", "failed", Live(FALSE), {}, {"context"}, {})
EntryRead == In(2) /\ Worker /\ ReadPhase("read", "source-after")
EntryAfter == In(2) /\ Worker /\ SourceQueries("source-after", "read-again", "source-after")
EntryReadAgain == In(2) /\ Worker /\ ReadPhase("read-again", "pending")

EntryPending ==
  In(2) /\ Worker /\ Step("pending", "closing", "failed", Live(FALSE), {}, {"readmission"}, {})

EntryFailed == In(2) /\ Worker /\ Retain("failed", "closing", "entry-failure")

\* The resources are listed before the close and compared after it.
EntryClose == In(2) /\ Worker /\ CloseOwner("closing", "closed")

\* _claim_recipient and _RecipientUseWindow follow the checked return.
EntryReturn == Worker /\ Publish("closed", 2, InTime, Fenced(Opened(Work, Clean), RecipientFence))

-----------------------------------------------------------------------------
(* An authority inside another owner (_recipient_authority,                   *)
(* _receiving_authority).                                                     *)

\* _RecipientAuthorityWindow: its final end is the outer's work end, its own
\* work ends a cleanup interval earlier.
AuthorityOpen(p, live) ==
  /\ at.pc = p /\ Smooth
  /\ IF live
       THEN /\ at' = [at EXCEPT !.pc = "authority"]
            /\ own' = [Opened(0, 0) EXCEPT !.outer = <<own>>, !.work = IF own.work > Clean THEN own.work - Clean ELSE 0,
                                           !.final = own.work]
       ELSE /\ at' = [at EXCEPT !.pc = "failed"]
            /\ own' = [own EXCEPT !.failed = TRUE]
  /\ UNCHANGED <<disk, child, quarantine>> /\ Frame

Nested == own.outer # <<>>

AuthorityWindow ==
  Nested /\ Step("authority", "source-before", "failed", Live(FALSE), {}, {"authority-window"}, {"directories"})

AuthorityBefore == Nested /\ SourceQueries("source-before", "context", "source-before")
AuthorityContext == Nested /\ Step("context", "phase", "failed", Live(FALSE), {}, {"context"}, {})
AuthorityRead == Nested /\ ReadPhase("read", "source-after")
AuthorityAfter == Nested /\ SourceQueries("source-after", "read-again", "source-after")
AuthorityReadAgain == Nested /\ ReadPhase("read-again", "authority-pending")

AuthorityPending(f, q) ==
  Nested /\ Step("authority-pending", q, "failed", Live(FALSE), {}, {f}, {})

\* No failure record: the error is the owner's until it is raised.
AuthorityFailed ==
  /\ Nested /\ at.pc = "failed" /\ at' = [at EXCEPT !.pc = "authority-closing"] /\ Smooth
  /\ UNCHANGED <<own, disk, child, quarantine>> /\ Frame

AuthorityClose == Nested /\ CloseOwner("authority-closing", "authority-closed")

\* Back in the outer owner: only a known close, in time on both windows,
\* returns the authority; otherwise its error is raised there.
AuthorityLeave(q) ==
  /\ Nested /\ at.pc = "authority-closed" /\ Smooth
  /\ LET good == ~own.failed /\ ~own.unknown /\ InTime
     IN /\ own' = [own.outer[1] EXCEPT !.failed = ~good]
        /\ at' = [at EXCEPT !.pc = IF good THEN q ELSE "failed"]
        /\ child' = IF good THEN NoChild ELSE child
  /\ UNCHANGED <<disk, quarantine>> /\ Frame

AuthorityNext ==
  \/ AuthorityWindow \/ AuthorityBefore \/ AuthorityContext \/ AuthorityRead \/ AuthorityAfter
  \/ AuthorityReadAgain \/ AuthorityFailed \/ AuthorityClose

-----------------------------------------------------------------------------
(* Stage 3: the recipient of _prepare_and_validate_recipient.                 *)

RecipientInputs == {"recipient-files", "recipient-context", "recipient-start"}

\* A step of the recipient's own, while no authority runs inside it.
RStep(p, q, rd, wr, tk) == In(3) /\ ~Nested /\ ParentStep(p, q, rd, wr, tk)

\* The session, its directories and six files.
RecipientOpen == RStep("start", "authorize", {}, {"recipient-files"}, {"directories"})

RecipientAuthority == In(3) /\ ~Nested /\ AuthorityOpen("authorize", ParentLive)
RecipientAuthorityPending == In(3) /\ AuthorityPending("authority-2", "authority-closing")
RecipientAuthorityLeave == In(3) /\ AuthorityLeave("recipient-context")

\* authority-return.json, recipient-context.json and start.json.
RecipientContext ==
  RStep("recipient-context", "streams", {}, {"recipient-context", "recipient-start"}, {"directories"})

RecipientStreams == In(3) /\ ParentStreams("streams", "spawn", {"recipient-baseline"})
RecipientSpawn == In(3) /\ ParentSpawn("spawn", "birth", {})
RecipientBirth == In(3) /\ ParentBirth("birth", "poll", {"recipient-native-start"})
RecipientPoll == In(3) /\ ParentPoll("poll")

\* begin_final, drain, scope and captures; any failure once the launch was
\* attempted is unknown.
RecipientFinish == In(3) /\ (FinishKnown("begin-read") \/ FinishUnknown)
RecipientBeginRead == In(3) /\ BeginRead("begin-read", "result")

RecipientResult == RStep("result", "readback", {"recipient-child"}, {"recipient-result"}, {})

\* _recipient_native_readback: the records of the child and of its sources.
RecipientOriginals ==
  RecipientInputs \cup {"recipient-baseline", "recipient-native-start", "recipient-child", "recipient-result"}

RecipientReadback == RStep("readback", "crypto", RecipientOriginals, {}, {"directories"})

\* _capture_recipient_crypto_originals: every file the validation left.
RecipientCrypto == RStep("crypto", "source-final", {"crypto-files"}, {}, {"directories"})

RecipientSourceFinal == RStep("source-final", "readback-again", {}, {"source-final"}, {"directories"})

\* recipient-pending.json binds the files of this stage.
RecipientReadbackAgain ==
  RStep("readback-again", "closing", RecipientOriginals, {"recipient-graph"}, {})

\* No failure record; a window still in WORK enters FINAL for the close.
RecipientFailed ==
  /\ In(3) /\ ~Nested /\ at.pc = "failed" /\ at' = [at EXCEPT !.pc = "closing"] /\ Smooth
  /\ own' = IF own.phase = "WORK" THEN Final ELSE own
  /\ UNCHANGED <<disk, child, quarantine>> /\ Frame

RecipientClose == In(3) /\ ~Nested /\ ParentClose

\* The return in READ; its rest is the window of the two retaining stages.
ReadWindow == [own EXCEPT !.held = {}, !.closed = FALSE, !.phase = "WORK", !.work = own.read, !.final = own.read]

RecipientReturn == ParentReturn(3, ReadWindow)

\* _recipient_child: a metadata owner is closed before the operative one reads
\* the inputs again; source-before, the validation, source-after, child-result.
RecipientChild ==
  /\ In(3) /\ ~Nested
  /\ \/ ChildWrites(RecipientInputs, {"crypto-files", "recipient-child"})
     \/ ChildReturns
     \/ ChildFails(RecipientInputs)

-----------------------------------------------------------------------------
(* Stages 4 and 5: _retain_recipient_validation and _retain_sender_step.      *)

\* Claimed once; every handle is wrapped so that a changed pin is unknown.
SenderWrite ==
  In(4) /\ Step("start", "sender-reread", "closing", Live(FALSE), {}, {"sender"}, {"directories"})

SenderReread == In(4) /\ Step("sender-reread", "closing", "closing", Live(FALSE), {"sender"}, {}, {})
SenderClose == In(4) /\ CloseOwner("closing", "closed")

\* OUTPUT: exactly two further checks of the fence end the process; the step
\* takes them over.
SenderReturn == Publish("closed", 4, InTime, ReadWindow)

StepWrite == In(5) /\ Step("start", "sidecar", "closing", Live(FALSE), {}, {"step"}, {"directories"})
StepSidecar == In(5) /\ Step("sidecar", "closing", "closing", Live(FALSE), {}, {"sidecar"}, {"directories"})
StepClose == In(5) /\ CloseOwner("closing", "closed")

\* append_outputs, then HANDOFF: the sender's own fence is asked twice more.
StepOutput == Publish("closed", 5, InTime, ReadWindow)

SenderNext ==
  \/ PrepareOpen \/ PrepareBefore \/ PrepareContext \/ PrepareRead \/ PrepareAfter \/ PrepareReadAgain
  \/ PrepareIdentity \/ PrepareResult \/ PrepareCapture \/ PrepareFailed \/ PrepareClose \/ PrepareReturn
  \/ GateWrite \/ GateClose \/ GateOutput
  \/ EntryOpen \/ EntryBefore \/ EntryContext \/ EntryRead \/ EntryAfter \/ EntryReadAgain
  \/ EntryPending \/ EntryFailed \/ EntryClose \/ EntryReturn
  \/ RecipientAuthorityPending \/ RecipientOpen \/ RecipientContext \/ RecipientStreams \/ RecipientSpawn
  \/ RecipientBirth \/ RecipientPoll \/ RecipientFinish \/ RecipientBeginRead \/ RecipientResult
  \/ RecipientReadback \/ RecipientCrypto \/ RecipientSourceFinal \/ RecipientReadbackAgain
  \/ RecipientFailed \/ RecipientClose \/ RecipientReturn
  \/ SenderWrite \/ SenderReread \/ SenderClose \/ SenderReturn
  \/ StepWrite \/ StepSidecar \/ StepClose \/ StepOutput

=============================================================================
