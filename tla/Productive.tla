----------------------------- MODULE Productive -----------------------------
(* A productive run of the hosted worker as a whole: the production, the      *)
(* provider's save and probe, the final custody, the seal, the tail and the   *)
(* upload, each process knowing the ones before it through the records and    *)
(* digests they left.                                                         *)
(*                                                                            *)
(* This module has the tail and the upload (stages 45 to 52) of               *)
(* scripts/hosted_initial_recipient_productive_tail.py and                    *)
(* scripts/run-hosted-initial-recipient-productive-upload.py: the receiving   *)
(* process goes on without a token, encrypts the evidence of the custody in a *)
(* native child, copies both artifacts into one directory and appends nine    *)
(* outputs; then the upload, and the receipt that is made public.             *)
EXTENDS ProductiveReceiver

-----------------------------------------------------------------------------
(* Stage 45: _native_tail.                                                    *)

\* _Clock: work, native end and return inside what is left of the seal.
TWork == Least(now + Work, IF own.read > Clean THEN own.read - Clean ELSE 0)

TStep(p, q, e, live, rd, wr, tk) == In(45) /\ Step(p, q, e, live, rd, wr, tk)

\* _Parent and _prelaunch_budget.
TEnter ==
  /\ In(45) /\ at.pc = "start" /\ Smooth /\ UNCHANGED <<disk, child, quarantine>> /\ Frame
  /\ IF Live(FALSE) /\ now < TWork
       THEN /\ at' = [at EXCEPT !.pc = "t-inputs"]
            /\ own' = [SameWindow EXCEPT !.work = TWork, !.final = TWork + Clean]
       ELSE /\ at' = [at EXCEPT !.pc = "closing"] /\ own' = [own EXCEPT !.failed = TRUE]

\* _input_values, the context and start, in new directories.
TInputs == {"t-inputs", "t-context", "t-start"}
TContext == TStep("t-inputs", "t-streams", "closing", Live(FALSE), {}, TInputs, {"directories"})

TStreams ==
  TStep("t-streams", "t-spawn", "t-drain", Live(FALSE), {}, {"t-baseline"}, {"stdout", "stderr", "scope"})
TSpawn == In(45) /\ Spawn("t-spawn", "t-birth", "t-drain", Live(FALSE), {})
TBirth == TStep("t-birth", "t-poll", "t-drain", Live(FALSE), {}, {"t-birth"}, {})
TPoll == In(45) /\ Poll("t-poll", "t-drain", Live(FALSE))

\* Drained and closed under the native end; the streams after a known drain.
TDrain == In(45) /\ Drain("t-drain", "t-captures")
TCaptures == In(45) /\ NativeCaptures("t-captures", "t-result", "closing")

\* The captures are read back and result.json is written in the native end.
TResult == TStep("t-result", "t-phase-data", "closing", Live(TRUE), {}, {"t-result"}, {})

\* _native_phase_data and _child_data: what each side says of the other.
TPhaseData == TStep("t-phase-data", "closing", "closing", Live(TRUE), {"t-result", "t-child-result"}, {}, {})
TClose == In(45) /\ CloseOwner("closing", "closed")

\* _checked_native; what follows ends with the seal.
TReturn == Publish("closed", 45, InTime, [SameWindow EXCEPT !.work = own.read, !.final = own.read])

\* _original_read_expectations: every file the receiving process has read.
TOriginals == SealInputs \cup {"seal-record", "seal-authority", "before-authority"}

\* _indexed_sources: the files of the authority after the collection.
TIndexed == {"authority-post"}

\* _final_diagnostics: what the encryption of the collection left, and the
\* public home it used.
TDiagnostics == {"e-recipient", "final-manifest"}

TPart(rd, wr) == In(45) /\ ChildPart(TInputs \cup rd, wr)

\* tail_child: _read_original_inputs and _check_receiver_data by a metadata
\* owner, closed before the roots are opened.
TMetadata == TPart(TOriginals, {"t-metadata"})
TValidate == "t-metadata" \in disk.written /\ TPart({}, {"t-recipient"})

\* _freeze_tail: ten groups, copied and read back, then their map.
TSources == TOriginals \cup TIndexed \cup TDiagnostics \cup {"t-recipient"}
TFreeze == "t-recipient" \in disk.written /\ TPart(TSources, {"t-copied"})

\* The archive is current whenever the export asks.
TExport == "t-copied" \in disk.written /\ TPart({"t-copied"}, {"t-manifest", "t-ciphertext"})

\* join_manifests, then the result, the checks of both suppliers, the close.
TTerminal ==
  /\ In(45) /\ "t-manifest" \in disk.written
  /\ ChildWrites(TInputs \cup {"t-copied", "t-manifest", "t-ciphertext", "final-manifest"}, {"t-child-result"})
TEnd == In(45) /\ (ChildReturns \/ ChildFails(TInputs \cup (TSources \cap disk.written)))

-----------------------------------------------------------------------------
(* Stages 46 to 48: the carrier, the pending record and the outputs.          *)

TCarrierSources == {"final-ciphertext", "final-manifest", "t-ciphertext", "t-manifest"}

TCarrierOpen == In(46) /\ Step("start", "members", "closing", Live(FALSE), {}, {}, {"directories"})

\* Each member is hashed while it is copied and read back afterwards.
TCarrierMembers ==
  In(46) /\ Step("members", "names", "closing", Live(FALSE), TCarrierSources, {"t-upload-output"}, {"files"})
TCarrierNames == In(46) /\ Step("names", "closing", "closing", Live(FALSE), {"t-upload-output"}, {}, {})

\* _checked_carrier: the native return is checked with it.
TCarrierReturn == Publish("closed", 46, InTime, SameWindow)

\* _retain_pending.
TPendingClose ==
  In(47) /\ Step("start", "pending", "closing", Live(FALSE), {}, {"t-carrier-close"}, {"directories"})
TPending == In(47) /\ Step("pending", "closing", "closing", Live(FALSE), {"t-carrier-close"}, {"t-pending"}, {})
TPendingReturn == Publish("closed", 47, InTime, SameWindow)

\* _append_nine: one write to an empty file.  A failure after the write leaves
\* the outputs but no return; a descriptor that cannot be closed is QUARANTINE.
TAppend ==
  In(48) /\ Step("start", "closing", "closing", Live(FALSE), {}, {"nine-outputs"}, {"output"})

TOwnersClose == at.stage \in 46 .. 48 /\ CloseOwner("closing", "closed")

\* _OutputFence.now: two more checks, over everything retained so far.
TLateCheck == In(48) /\ Reopen("closed", "last-check", SameWindow)
TOutputReturn == Publish("last-check", 48, InTime, SameWindow)

-----------------------------------------------------------------------------
(* Stages 49 to 51: the upload.                                               *)

\* _inputs of the productive upload: deadline and manifests included.
TUploadInputs == {"t-pending", "t-carrier-close", "t-context", "t-upload-output", "crypto-inputs-2"}

\* uploadStartByNs is the seal's end, uploadEndNs and afterEndNs follow it.
TUploadEnd == own.read + Clean

TStream == StreamNext(49, own.read, TUploadEnd, TUploadInputs)
TFinish == FinishNext(50, TUploadEnd, TUploadInputs, "t-uploaded")
TAfter == AfterNext(51, TUploadEnd, TUploadEnd + Clean, TUploadInputs, "t-uploaded", "t-delivered")

-----------------------------------------------------------------------------
(* Stage 52: capture_public_originals.                                        *)

\* _ReceiptFence: 20 and 30 seconds of its own; the pair must be valid for
\* longer than what follows (reserve), which no instant of this clock refuses.
ReceiptBegin ==
  BeginPhase(52, "pair", [Opened(0, 0) EXCEPT !.work = now + Work, !.final = now + Work + Clean, !.read = own.read])

\* The pair is read, bound, and read again before the input owner is closed.
Pair == {"t-uploaded", "t-delivered"}
ReceiptPair == In(52) /\ Step("pair", "pair-again", "closing", Live(FALSE), Pair, {}, {"directories"})
ReceiptPairAgain == In(52) /\ Step("pair-again", "input-closing", "closing", Live(FALSE), Pair, {}, {})
ReceiptInputClose == In(52) /\ CloseOwner("input-closing", "input-closed")
ReceiptOutputOwner == In(52) /\ Reopen("input-closed", "originals", SameWindow)

\* Three files in a new directory, all of them read back.
ReceiptWrite ==
  In(52) /\ Step("originals", "readback", "closing", Live(FALSE), {}, {"receipt-originals"}, {"directories"})
ReceiptReadback == In(52) /\ Step("readback", "output-closing", "closing", Live(FALSE), {"receipt-originals"}, {}, {})
ReceiptOutputClose == In(52) /\ CloseOwner("output-closing", "output-closed")
ReceiptReady == In(52) /\ Reopen("output-closed", "append", SameWindow)

\* _append_receipt_ready.
ReceiptAppend == In(52) /\ Step("append", "closing", "closing", Live(FALSE), {}, {"receipt-ready"}, {"output"})
ReceiptClose == In(52) /\ CloseOwner("closing", "closed")
ReceiptReturn == Publish("closed", 52, InTime, SameWindow)

TailChildNext == TMetadata \/ TValidate \/ TFreeze \/ TExport \/ TTerminal \/ TEnd

ProductiveTailNext ==
  \/ TEnter \/ TContext \/ TStreams \/ TSpawn \/ TBirth \/ TPoll \/ TDrain \/ TCaptures \/ TResult \/ TPhaseData
  \/ TClose \/ TReturn \/ TailChildNext
  \/ TCarrierOpen \/ TCarrierMembers \/ TCarrierNames \/ TCarrierReturn \/ TPendingClose \/ TPending
  \/ TPendingReturn \/ TAppend \/ TOwnersClose \/ TLateCheck \/ TOutputReturn
  \/ TStream \/ TFinish \/ TAfter
  \/ ReceiptBegin \/ ReceiptPair \/ ReceiptPairAgain \/ ReceiptInputClose \/ ReceiptOutputOwner \/ ReceiptWrite
  \/ ReceiptReadback \/ ReceiptOutputClose \/ ReceiptReady \/ ReceiptAppend \/ ReceiptClose \/ ReceiptReturn

-----------------------------------------------------------------------------
(* The whole.                                                                 *)

\* productive(): copy_primary and custody_authority of a worker come first.
Init ==
  /\ now = 0 /\ trouble = 0 /\ cancelled = FALSE /\ at = [stage |-> 20, pc |-> "start"]
  /\ own = Opened(Work, Clean)
  /\ disk = [written |-> WorkerOriginals \cup {"authority-1"} \cup Copied, swapped |-> {}]
  /\ child = NoChild /\ quarantine = FALSE /\ published = {}

ServiceNext ==
  \/ PhaseEnter \/ PhaseSetup \/ PhaseStreams \/ PhaseSpawn \/ PhaseBirth \/ PhasePoll \/ PhaseDrain
  \/ PhaseCaptures \/ PhaseReceipt \/ PhaseLeave("read")

Done ==
  /\ at = [stage |-> 53, pc |-> "start"] /\ at' = [at EXCEPT !.pc = "done"]
  /\ UNCHANGED <<now, trouble, cancelled, own, disk, child, quarantine, published>>

Next ==
  \/ Tick \/ Cancel \/ \E f \in disk.written : Swap(f)
  \/ ServiceNext \/ UseNext \/ ProduceNext \/ StepsNext \/ FinalNext \/ ReceiverNext \/ ProductiveTailNext
  \/ Done \/ Exited

-----------------------------------------------------------------------------

\* The records of earlier stages that stage s is answerable for.
Inherited(s) ==
  CASE s \in {20, 26} -> {"primary-originals"}
    [] s = 22 -> {"primary-originals", "staging"}
    [] s = 23 -> {"primary-originals", "staging", "seed"}
    [] s = 24 -> ProducerState
    [] s = 25 -> {"primary-originals", "canonical-evidence"}
    [] s = 27 -> {"primary-originals", "collection", "seed"}
    [] s = 28 -> {"primary-originals", "export"}
    [] s = 30 -> Handoff
    [] s \in {31, 32, 36, 37} -> HandoffFiles \cup GraphFiles \cup DerivedFiles
    [] s = 39 -> FinalFiles
    [] s = 40 -> CollectFiles \cup {"save-handoff", "groups", "final-ciphertext"}
    [] s = 41 -> SealInputs
    [] s = 42 -> {"final-manifest", "final-ciphertext"}
    [] s = 43 -> SealInputs \cup {"seal-record", "seal-authority"}
    [] s = 45 -> TSources \ {"t-recipient"}
    [] s = 46 -> TCarrierSources
    [] s \in {49, 50} -> TUploadInputs
    [] s = 51 -> TUploadInputs \cup {"t-uploaded"}
    [] s = 52 -> Pair
    [] OTHER -> {}

\* The last instant of the original proposal for a stage: the primary's window,
\* opened at 0, the fences, the end of the job for the seal and the receiving
\* process, the seal's end (own.read) for the native tail and what follows from
\* it for the upload.  The receipt has an interval of its own and no other end.
EndOf(s) ==
  CASE s = 20 -> Least(Work + Clean, JobEnd)
    [] s \in 21 .. 41 -> Fence(s)
    [] s = 45 -> own.read
    [] s = 49 -> TUploadEnd
    [] s = 50 -> own.old[2]
    [] s = 51 -> TUploadEnd + Clean
    [] s = 52 -> JobEnd + 1
    [] OTHER -> JobEnd
=============================================================================
