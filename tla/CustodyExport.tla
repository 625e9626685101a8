---------------------------- MODULE CustodyExport ----------------------------
(* collect_export of scripts/run-hosted-initial-recipient-custody.py, one     *)
(* process: the evidence of the primary run is copied under one Window        *)
(* (copy_primary), the current authority is acquired in a service child       *)
(* (custody_authority), the copy is encrypted for the recipient in a native   *)
(* child (custody_crypto), and the closed return is handed to the next step   *)
(* (_custody_crypto_carrier, _retain_crypto_step, _CollectOutputFence).       *)
(* Every stage has owners of its own and leaves no failure record: the first  *)
(* error is remembered in the owner and raised after its close.               *)
EXTENDS HostedOwner

\* _gate_inventory and _worker_inventory: what the primary run left behind.
GateOriginals == {"primary-handoff", "primary-originals"}
WorkerOriginals == GateOriginals \cup {"crypto-originals"}
Worker == "crypto-originals" \in disk.written
PrimarySources == IF Worker THEN WorkerOriginals ELSE GateOriginals

\* schedule: the ends of the Window after its work, each later than the one
\* before, all before the end of the job; the last one used here is the seal's.
SealEnd == Least(own.read + Clean, JobEnd)

\* A further owner under the same Window.
SameWindow == [own EXCEPT !.held = {}, !.closed = FALSE]

\* The Window's READ end, which nothing but a known close opens.
ReadWindow == [SameWindow EXCEPT !.work = own.read, !.final = own.read]

\* The first error of a stage without a failure record.
Abandon ==
  /\ at.pc = "failed" /\ at' = [at EXCEPT !.pc = "closing"] /\ Smooth
  /\ UNCHANGED <<own, disk, child, quarantine>> /\ Frame

-----------------------------------------------------------------------------
(* Stage 1: copy_primary.                                                     *)

\* The preliminary owner, under 45 seconds of its own.
PreliminaryOpen ==
  In(1) /\ Step("start", "record", "closing", Live(FALSE), {}, {}, {"directories"})

\* primary_record: the handoff against the outcome and the hashes the workflow
\* gave this process.
PrimaryRecord ==
  In(1) /\ Step("record", "indexed", "closing", Live(FALSE), {"primary-handoff"}, {}, {"directories"})

\* The indexed history of the primary run.
IndexedOriginals ==
  In(1) /\ Step("indexed", "history", "closing", Live(FALSE), {"primary-originals"}, {}, {"directories"})

\* primary_history ties every record of it to the others and fixes the basis
\* of the job that schedule starts from.
PrimaryHistory ==
  In(1) /\ Step("history", "prelim-closing", "closing", Live(FALSE), GateOriginals, {}, {})

PreliminaryClose == In(1) /\ CloseOwner("prelim-closing", "prelim-closed")

\* The Window starts at the first reading of the preliminary owner's clock.
OpenWindow == In(1) /\ Reopen("prelim-closed", "snapshot", SameWindow)

\* _snapshot of every root and of the handoff, _indexed_snapshots.
SnapshotSources ==
  In(1) /\ Step("snapshot", "crypto-history", "closing", Live(FALSE), GateOriginals, {}, {"directories"})

\* A worker's own encryption is read back before anything is copied.
CryptoHistory ==
  In(1) /\ Step("crypto-history", "copy", "closing", Live(FALSE),
                IF Worker THEN {"crypto-originals"} ELSE {}, {}, {"directories"})

\* _copy_indexed: every member, then source and copy scanned once more.
CopyIndexed ==
  In(1) /\ Step("copy", "recheck", "closing", Live(FALSE), PrimarySources, {"copied-evidence"},
                {"directories"})

SnapshotCurrent ==
  In(1) /\ Step("recheck", "closing", "closing", Live(FALSE), PrimarySources \cup {"copied-evidence"}, {}, {})

CopyClose == In(1) /\ CloseOwner("closing", "closed")
CopyReturn == Publish("closed", 1, InTime, SameWindow)

-----------------------------------------------------------------------------
(* Stage 2: custody_authority.                                                *)

\* What _custody_read_authority_phase compares.
Authority1 == {"authority-window", "source-before", "authority-context"} \cup PhaseRecords \cup ChildRecords

AuthorityOpen ==
  In(2) /\ Step("start", "source-before", "failed", Live(FALSE), {}, {"authority-window"}, {"directories"})

\* The pinned git queries of the source, in a supplier that is always finalized.
SourceBefore ==
  In(2) /\ Step("source-before", "context", "failed", Live(FALSE), {}, {"source-before"}, {"directories"})

\* The token leaves this process with the child.
AuthorityContext ==
  In(2) /\ Step("context", "phase", "failed", Live(FALSE), {}, {"authority-context"}, {})

ReadAuthority == In(2) /\ Step("read", "source-after", "failed", Live(FALSE), Authority1, {}, {"directories"})

SourceAfter ==
  In(2) /\ Step("source-after", "read-again", "failed", Live(FALSE), {}, {"source-after"}, {"directories"})

ReadAuthorityAgain ==
  In(2) /\ Step("read-again", "index", "failed", Live(FALSE), Authority1, {"authority-pending"}, {})

\* _custody_authority_index: from here on the files are one indexed directory.
AuthorityIndex ==
  In(2) /\ Step("index", "closing", "failed", Live(FALSE), {}, {"authority-1"}, {})

AuthorityClose == In(2) /\ CloseOwner("closing", "closed")

\* known, then the match and the pins once more, then the one return.
AuthorityReturn == Publish("closed", 2, InTime, SameWindow)

\* custody_authority_child: a metadata owner closed before the operative one,
\* queries finalized on every path, the result, a known close.
AuthorityChild == In(2) /\ ServiceChild({"authority-context"})

-----------------------------------------------------------------------------
(* Stage 3: custody_crypto and its native child.                              *)

CryptoInputs == {"context", "original-match", "fresh-match", "event", "policy", "public"}
Copied == {"copied-evidence", "copied-authority"}

\* _copy_authority: the old members are compared, authority-1 is appended.
CopyAuthority ==
  In(3) /\ Step("start", "copy-recheck", "copy-closing", Live(FALSE), {"copied-evidence", "authority-1"},
                {"copied-authority"}, {"directories"})

CopyAuthorityRecheck ==
  In(3) /\ Step("copy-recheck", "copy-closing", "copy-closing", Live(FALSE),
                Copied \cup {"authority-1"}, {}, {})

CopyAuthorityClose == In(3) /\ CloseOwner("copy-closing", "copy-closed")

CryptoOwner == In(3) /\ Reopen("copy-closed", "inputs", SameWindow)

\* returned, its directories, the inputs and the context.
CryptoContext ==
  In(3) /\ Step("inputs", "crypto-enter", "closing", Live(FALSE), {}, CryptoInputs, {"directories"})

\* enter_crypto_phase and start.json: fences never beyond the Window's.
CryptoEnter ==
  /\ In(3) /\ at.pc = "crypto-enter" /\ Smooth /\ UNCHANGED <<child, quarantine>> /\ Frame
  /\ IF Live(FALSE)
       THEN /\ at' = [at EXCEPT !.pc = "crypto-streams"]
            /\ own' = [own EXCEPT !.work = Least(@, now + Clean),
                                  !.final = Least(@, Least(own.work, now + Clean) + Clean)]
            /\ disk' = [disk EXCEPT !.written = @ \cup {"crypto-start"}]
       ELSE /\ at' = [at EXCEPT !.pc = "closing"]
            /\ own' = [own EXCEPT !.failed = TRUE] /\ UNCHANGED disk

CryptoStreams ==
  In(3) /\ Step("crypto-streams", "crypto-spawn", "crypto-drain", Live(FALSE), {}, {"crypto-baseline"},
                {"stdout", "stderr", "scope"})

\* check() runs immediately before the launch.
CryptoSpawn == In(3) /\ Spawn("crypto-spawn", "crypto-birth", "crypto-drain", Live(FALSE), {})

CryptoBirth ==
  In(3) /\ Step("crypto-birth", "crypto-poll", "crypto-drain", Live(FALSE), {}, {"crypto-native-start"}, {})

CryptoPoll == In(3) /\ Poll("crypto-poll", "crypto-drain", Live(FALSE))

CryptoDrain == In(3) /\ Drain("crypto-drain", "crypto-captures")

CryptoCaptures == In(3) /\ NativeCaptures("crypto-captures", "crypto-result", "closing")

\* result.json and the child's result, in the final interval.
CryptoResult ==
  In(3) /\ Step("crypto-result", "crypto-bytes", "closing", Live(TRUE), {"crypto-child-result"},
                {"crypto-result"}, {})

\* _crypto_phase_bytes: start, birth, result, acknowledgement and manifest agree.
CryptoPhaseBytes ==
  In(3) /\ Step("crypto-bytes", "closing", "closing", Live(TRUE), {"manifest", "crypto-result"}, {}, {})

CryptoClose == In(3) /\ CloseOwner("closing", "closed")
CryptoReturn == Publish("closed", 3, InTime, ReadWindow)

\* custody_crypto_child: the metadata owner reads the inputs and closes, the
\* clock is bound to the parent's frame, the recipient is validated.
ValidateRecipient ==
  In(3) /\ ChildPart(CryptoInputs \cup {"crypto-start"}, {"recipient-return"})

\* _copy_recipient: what was validated is appended to the copy.
CopyRecipient ==
  In(3) /\ "recipient-return" \in disk.written
        /\ ChildPart(CryptoInputs \cup Copied \cup {"crypto-start"}, {"copied-recipient"})

\* _freeze_custody_copy: the maps, then the whole copy once more.
FreezeCustodyCopy ==
  In(3) /\ "copied-recipient" \in disk.written
        /\ ChildPart(Copied \cup {"copied-recipient"}, {"copy-maps"})

\* export_encrypted under export_check, then both owners closed.
ExportEncrypted ==
  LET rd == CryptoInputs \cup Copied \cup {"crypto-start"}
  IN In(3) /\ \/ "copy-maps" \in disk.written
                 /\ ChildWrites(rd \cup {"copied-recipient", "copy-maps"},
                                {"manifest", "ciphertext", "crypto-child-result"})
              \/ ChildReturns
              \/ ChildFails(rd)

-----------------------------------------------------------------------------
(* Stages 4 and 5: the carrier and the step, until the READ end.              *)

\* The return is claimed once; the exporter's manifest is read again.
CarrierWrite ==
  In(4) /\ Step("start", "closing", "closing", Live(FALSE), {"manifest"}, {"carrier"}, {"directories"})

CarrierClose == In(4) /\ CloseOwner("closing", "closed")
CarrierReturn == Publish("closed", 4, InTime, SameWindow)

TransferOpen ==
  In(5) /\ Step("start", "step", "closing", Live(FALSE), {"manifest", "carrier", "context"}, {}, {"directories"})

TransferStep ==
  In(5) /\ Step("step", "closing", "closing", Live(FALSE), {"manifest", "carrier", "context"}, {"step"}, {})

TransferClose == In(5) /\ CloseOwner("closing", "closed")

\* append: the step's digest becomes an output of the workflow, checked before
\* and after.
ExportOutput == Publish("closed", 5, InTime, SameWindow)

ExportNext ==
  \/ PreliminaryOpen \/ PrimaryRecord \/ IndexedOriginals \/ PrimaryHistory \/ PreliminaryClose
  \/ OpenWindow \/ SnapshotSources \/ CryptoHistory \/ CopyIndexed \/ SnapshotCurrent \/ CopyClose
  \/ CopyReturn
  \/ AuthorityOpen \/ SourceBefore \/ AuthorityContext \/ ReadAuthority \/ SourceAfter
  \/ ReadAuthorityAgain \/ AuthorityIndex \/ AuthorityClose \/ AuthorityReturn
  \/ CopyAuthority \/ CopyAuthorityRecheck \/ CopyAuthorityClose \/ CryptoOwner \/ CryptoContext
  \/ CryptoEnter \/ CryptoStreams \/ CryptoSpawn \/ CryptoBirth \/ CryptoPoll \/ CryptoDrain
  \/ CryptoCaptures \/ CryptoResult \/ CryptoPhaseBytes \/ CryptoClose \/ CryptoReturn
  \/ CarrierWrite \/ CarrierClose \/ CarrierReturn
  \/ TransferOpen \/ TransferStep \/ TransferClose \/ ExportOutput

=============================================================================
