----------------------------- MODULE CustodyTail -----------------------------
(* scripts/run-hosted-initial-recipient-tail.py: the process that received    *)
(* the seal goes on without a token.  It encrypts the evidence of the custody *)
(* itself in a native child (_native_tail, tail_child), copies both encrypted *)
(* artifacts into one directory for upload (_copy_carrier), retains what is   *)
(* pending (_retain_pending) and appends seven outputs once (_OutputFence).   *)
(* All of it ends at the seal's end.  The diagnostics it may print after the  *)
(* child is retired change nothing.                                           *)
EXTENDS CustodyClose

-----------------------------------------------------------------------------
(* Stage 14: _native_tail.                                                    *)

\* _input_values: the sealed originals and this process's own authority.
KInputs == {"k-inputs", "k-context", "k-start"}

\* _prelaunch_budget and _caps: the child and its retirement must fit before
\* the seal's end.
KWork == Least(now + Work, IF SealEnd > Clean THEN SealEnd - Clean ELSE 0)

\* _Parent: this process is still the one that acquired the authority, holds
\* no token and has nothing in QUARANTINE.
KLive == Live(FALSE)

KEnter ==
  /\ In(14) /\ at.pc = "start" /\ Smooth /\ UNCHANGED <<disk, child, quarantine>> /\ Frame
  /\ IF KLive /\ now < KWork
       THEN /\ at' = [at EXCEPT !.pc = "k-inputs"]
            /\ own' = [SameWindow EXCEPT !.work = KWork, !.final = KWork + Clean]
       ELSE /\ at' = [at EXCEPT !.pc = "closing"] /\ own' = [own EXCEPT !.failed = TRUE]

\* Every directory is new; inputs, context and start are written once.
KContext ==
  In(14) /\ Step("k-inputs", "k-streams", "closing", KLive, {}, KInputs, {"directories"})

KStreams ==
  In(14) /\ Step("k-streams", "k-spawn", "k-drain", KLive, {}, {"k-baseline"},
                 {"stdout", "stderr", "scope"})

\* The budget is checked again immediately before the launch.
KSpawn == In(14) /\ Spawn("k-spawn", "k-birth", "k-drain", KLive, {})

KBirth == In(14) /\ Step("k-birth", "k-poll", "k-drain", KLive, {}, {"k-native-start"}, {})

\* Each round derives the authority's match again before it polls.
KPoll == In(14) /\ Poll("k-poll", "k-drain", KLive)

KDrain == In(14) /\ Drain("k-drain", "k-captures")
KCaptures == In(14) /\ NativeCaptures("k-captures", "k-result", "closing")

\* The captures are read back, result.json is written.
KResult == In(14) /\ Step("k-result", "k-child-data", "closing", Live(TRUE), {}, {"k-result"}, {})

\* _child_data: what the child says it read, validated and exported.
KChildData ==
  In(14) /\ Step("k-child-data", "k-phase-data", "closing", Live(TRUE), {"k-child-result"}, {}, {})

\* _native_phase_data: start, birth, child result and acknowledgement agree.
KPhaseData ==
  In(14) /\ Step("k-phase-data", "closing", "closing", Live(TRUE), {"k-result"}, {}, {})

KClose == In(14) /\ CloseOwner("closing", "closed")

\* _checked_native; the later owners end at the seal's end.
KReturn == Publish("closed", 14, InTime, [SameWindow EXCEPT !.work = SealEnd, !.final = SealEnd])

\* _validation_sources: what the validation of the recipient left in this child.
ValidationSources == {"k-recipient-return"}

\* _existing_declarations: the records of every authority and the seal.
ExistingSources == CollectInput \cup {"seal", "authority-2", "authority-seal", "authority-close"}

\* _old_validation: the validation of the recipient in the custody's own export.
OldValidation == {"recipient-return", "crypto-child-result"}

\* _export_diagnostics: the output of that export and its process records.
ExportDiagnostics == {"manifest", "crypto-result"}

\* _Capture: every source is declared once, under its original identity.
TailSources == ExistingSources \cup OldValidation \cup ExportDiagnostics

\* _freeze_current: the copy and all its sources, whenever check() runs.
Frozen == TailSources \cup ValidationSources \cup {"k-copied"}

\* _ChildClock: the child acts under the caps of its command line, which its
\* parent took from the seal's end.
KPart(rd, wr) == In(14) /\ ChildPart(KInputs \cup rd, wr)

\* tail_child: a metadata owner reads context, start and inputs, closes, and
\* only then is the clock bound.
KMetadata == KPart({}, {"k-metadata-close"})

\* _child_work: everything is read back by the second owner first.
KValidate == "k-metadata-close" \in disk.written /\ KPart({}, ValidationSources)

\* _freeze_tail: the copy, then the destination scanned once more.
KFreeze == ValidationSources \subseteq disk.written /\ KPart(TailSources \cup ValidationSources, {"k-copied"})

\* export_encrypted calls check() until it has written its output.
KExport == "k-copied" \in disk.written /\ KPart(Frozen, {"k-manifest", "k-ciphertext"})

\* _terminal_check reads the sources through a new reader before the result
\* is written.
KTerminal ==
  /\ In(14) /\ "k-manifest" \in disk.written
  /\ ChildWrites(KInputs \cup Frozen \cup {"k-manifest", "k-ciphertext"}, {"k-child-result"})

\* Its owner is closed before it acknowledges; any failure ends it otherwise.
KEnd == In(14) /\ (ChildReturns \/ ChildFails(KInputs \cup (Frozen \cap disk.written)))

-----------------------------------------------------------------------------
(* Stages 15 and 16: the carrier and the pending record.                      *)

CarrierSources == {"ciphertext", "manifest", "k-ciphertext", "k-manifest"}

\* _copy_carrier: both output directories under their original identity, and
\* a new one for the upload.
CarrierOpen == In(15) /\ Step("start", "members", "closing", KLive, {}, {}, {"directories"})

\* The four members in order: each source is hashed while it is written and
\* each copy read back.
CopyMembers ==
  In(15) /\ Step("members", "names", "closing", KLive, CarrierSources, {"upload-output"}, {"files"})

\* The names of all four directories once more.
CarrierNames == In(15) /\ Step("names", "closing", "closing", KLive, {"upload-output"}, {}, {})

CopyCarrierClose == In(15) /\ CloseOwner("closing", "closed")
CopyCarrierReturn == Publish("closed", 15, InTime, SameWindow)

PendingWrite ==
  In(16) /\ Step("start", "pending", "closing", KLive, {}, {"carrier-close"}, {"directories"})

\* Both records are read back through the same owner.
PendingRecord ==
  In(16) /\ Step("pending", "closing", "closing", KLive, {"carrier-close"}, {"pending"}, {})

PendingClose == In(16) /\ CloseOwner("closing", "closed")
PendingReturn == Publish("closed", 16, InTime, SameWindow)

-----------------------------------------------------------------------------
(* Stage 17: _OutputFence.                                                    *)

\* _append_seven: one append to an empty file, read back before its close.
OutputAppend ==
  /\ In(17) /\ at.pc = "start" /\ at' = [at EXCEPT !.pc = "closing"]
  /\ \/ /\ Live(FALSE) /\ Smooth
        /\ own' = [own EXCEPT !.held = {"output"}]
        /\ disk' = [disk EXCEPT !.written = @ \cup {"seven-outputs"}]
     \/ ~Live(FALSE) /\ Smooth /\ own' = [own EXCEPT !.failed = TRUE] /\ UNCHANGED disk
     \/ /\ Live(FALSE) /\ Raised
        /\ \/ own' = [own EXCEPT !.failed = TRUE] /\ UNCHANGED disk
           \/ /\ own' = [own EXCEPT !.failed = TRUE, !.held = {"output"}]
              /\ disk' \in {disk, [disk EXCEPT !.written = @ \cup {"seven-outputs"}]}
  /\ UNCHANGED <<child, quarantine>> /\ Frame

\* A descriptor that cannot be closed goes to QUARANTINE.
OutputClose == In(17) /\ CloseOwner("closing", "late-check")

\* now: exactly two more checks, whose answers the caller compares.
LateCheck == In(17) /\ Reopen("late-check", "last-check", own)
OutputReturn == Publish("last-check", 17, InTime, own)

TailNext ==
  \/ KEnter \/ KContext \/ KStreams \/ KSpawn \/ KBirth \/ KPoll \/ KDrain \/ KCaptures \/ KResult
  \/ KChildData \/ KPhaseData \/ KClose \/ KReturn
  \/ CarrierOpen \/ CopyMembers \/ CarrierNames \/ CopyCarrierClose \/ CopyCarrierReturn
  \/ PendingWrite \/ PendingRecord \/ PendingClose \/ PendingReturn
  \/ OutputAppend \/ OutputClose \/ LateCheck \/ OutputReturn

=============================================================================
