------------------------- MODULE ProductiveReceiver -------------------------
(* scripts/hosted_initial_recipient_productive_receiver.py: the process that  *)
(* seals a productive collection (stages 41 and 42) and the one that receives *)
(* the seal (43 and 44).  Each takes a token once, reads all it was handed,   *)
(* acquires the authority a last time, reads back what that left by a second  *)
(* owner while the first is still open, and writes the close by a third.      *)
EXTENDS ProductiveFinal

Receiving == {42, 44}
RStep(p, q, e, rd, wr, tk) == at.stage \in Receiving /\ Step(p, q, e, Live(FALSE), rd, wr, tk)

\* FINAL_INPUTS: what the final custody returned.
SealInputs == CollectFiles \cup {"post-return", "collect-close"}

-----------------------------------------------------------------------------
(* Stage 41: _read_inputs of the sealing process.                             *)

\* _new_state: a short interval of its own, and each entry once.
SealBegin ==
  LET end == now + Work
  IN BeginPhase(41, "context", [Opened(0, 0) EXCEPT !.work = end, !.final = end, !.read = end])

\* The context is read first; its proposal narrows the clock (_narrow).
SealNarrow == In(41) /\ Bind("context", "roster", {"crypto-inputs-2"}, Fence(41))

\* _final_roster before and after the 24 files, _bind_originals between.
SealReadInputs == In(41) /\ Step("roster", "closing", "closing", Live(FALSE), SealInputs, {}, {"files"})

\* _close_owner, and _abort of every owner that is still open.
SealInputClose == at.stage \in {41, 43} /\ CloseOwner("closing", "closed")

\* _enter_seal: the seal's own interval, started after the inputs were closed,
\* never beyond the proposal.  read keeps the seal's end from here on.
SealInterval == LET end == Least(now + Work + Clean, JobEnd) IN [SameWindow EXCEPT !.work = end, !.final = end, !.read = end]
EnterSeal == Publish("closed", 41, InTime, SealInterval)

-----------------------------------------------------------------------------
(* Stages 42 and 44: _acquire and _close_authority.                           *)

Edge(s) == IF s = 42 THEN "seal-authority" ELSE "before-authority"

\* _acquire: new directories, the sources, the context with its window.
ReceiverSources == RStep("start", "context", "failed", {}, {"use-before"}, {"directories"})
ReceiverContext == RStep("context", "phase", "failed", {"use-before"}, {"use-context"}, {})

\* _authority_read: _phase_data, the query session and _service_steps agree.
ReceiverOriginals == {"use-before", "use-context"} \cup PhaseRecords \cup ChildRecords
ReceiverRead == RStep("read", "after", "failed", ReceiverOriginals, {}, {"directories"})
ReceiverAfter == RStep("after", "again", "failed", {}, {"use-after"}, {"directories"})
ReceiverAgain == RStep("again", "capture", "failed", ReceiverOriginals, {}, {})

\* _index and _capture: every file and directory by a second owner, closed
\* before the first one; _query_originals over what it read.
ReceiverCapture ==
  RStep("capture", "capture-closing", "capture-closing", ReceiverOriginals \cup {"use-after"}, {}, {"leaf"})
ReceiverCaptureClose == at.stage \in Receiving /\ LeafClose("capture-closing", "closing")

ReceiverFailed == at.stage \in Receiving /\ Abandon
ReceiverClose == at.stage \in Receiving /\ CloseOwner("closing", "closed")

\* The pins of the closed directories, then a third owner.
ReceiverWriter == at.stage \in Receiving /\ Reopen("closed", "write-close", SameWindow)

\* _write_file: authority-close.json, its readback and all the listings.
ReceiverWriteClose == RStep("write-close", "writer-closing", "writer-closing", {}, {Edge(at.stage)}, {"directories"})
ReceiverWriterClose == at.stage \in Receiving /\ CloseOwner("writer-closing", "writer-closed")

\* _authority_child: context and start are read twice before its metadata owner
\* closes; the queries are finished on every path.
ReceiverChild == at.stage \in Receiving /\ ServiceChild({"use-context"})

\* _seal_ciphertext: manifest, artifact, manifest.
SealCiphertextOpen == In(42) /\ Reopen("writer-closed", "ciphertext", SameWindow)
SealCiphertext ==
  In(42) /\ Step("ciphertext", "pending", "seal-closing", Live(FALSE), {"final-manifest", "final-ciphertext"}, {}, {"files"})

\* seal-pending.json, through an owner of its own.
SealPending == In(42) /\ Step("pending", "append", "seal-closing", Live(FALSE), {Edge(42)}, {"seal-record"}, {})

\* _TwoChecks.append: the outputs are appended once.
SealAppend == In(42) /\ Step("append", "seal-closing", "seal-closing", Live(FALSE), {}, {"seal-outputs"}, {"output"})
SealClose == In(42) /\ CloseOwner("seal-closing", "seal-closed")
SealFirstCheck == In(42) /\ Reopen("seal-closed", "last-check", SameWindow)
SealReturn == Publish("last-check", 42, InTime, SameWindow)

-----------------------------------------------------------------------------
(* Stages 43 and 44: productive_before.                                       *)

\* The seal's end comes with the outputs and holds from the first reading.
ReceiveBegin == BeginPhase(43, "seal", [Opened(0, 0) EXCEPT !.work = own.read, !.final = own.read, !.read = own.read])

\* seal-pending.json against its digest; it may narrow the clock once more.
ReceiveNarrow == In(43) /\ Bind("seal", "roster", {"seal-record"}, own.read)
ReceiveInputs == In(43) /\ Step("roster", "historical", "closing", Live(FALSE), SealInputs, {}, {"files"})

\* _historical_authority over every file of the seal's authority.
ReceiveHistorical == In(43) /\ Step("historical", "closing", "closing", Live(FALSE), {"seal-authority"}, {}, {})
ReceiveInputReturn == Publish("closed", 43, InTime, SameWindow)

\* _deadline_raw and _register: all four closes of this process are known.
ReceiveReturn == Publish("writer-closed", 44, InTime, SameWindow)

ReceiverNext ==
  \/ SealBegin \/ SealNarrow \/ SealReadInputs \/ SealInputClose \/ EnterSeal
  \/ ReceiverSources \/ ReceiverContext \/ ReceiverRead \/ ReceiverAfter \/ ReceiverAgain \/ ReceiverCapture
  \/ ReceiverCaptureClose \/ ReceiverFailed \/ ReceiverClose \/ ReceiverWriter \/ ReceiverWriteClose
  \/ ReceiverWriterClose \/ ReceiverChild
  \/ SealCiphertextOpen \/ SealCiphertext \/ SealPending \/ SealAppend \/ SealClose \/ SealFirstCheck \/ SealReturn
  \/ ReceiveBegin \/ ReceiveNarrow \/ ReceiveInputs \/ ReceiveHistorical \/ ReceiveInputReturn \/ ReceiveReturn

=============================================================================
