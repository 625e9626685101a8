---------------------------- MODULE CustodyClose ----------------------------
(* collect_close and seal of scripts/run-hosted-initial-recipient-custody.py, *)
(* each a process of its own.  A process starts with a clock of its own       *)
(* (_CollectClock, _TailClock), reads what the step before it handed on, and  *)
(* binds its clock to the Window in that record before it does anything else. *)
(* It acquires the authority afresh and writes its record only over the       *)
(* originals it has read.                                                     *)
EXTENDS CustodyExport

\* _COLLECT_READ_LIMITS and _TAIL_LIMITS.
CollectInput == CryptoInputs \cup {"step", "carrier", "manifest"}
TailInput == CollectInput \cup {"collect"}

\* Another process, at any later time: its clock starts with its own reading.
Arrive(q) ==
  /\ at.pc = "start" /\ at' = [at EXCEPT !.pc = q] /\ Smooth
  /\ own' = [Opened(Work, 0) EXCEPT !.read = own.read]
  /\ UNCHANGED <<disk, child, quarantine>> /\ Frame

\* narrow_parent, bind_parent: the record rd names the original Window and the
\* end that holds for this process; the caps only shorten.
Bind(p, q, rd, end) ==
  \/ /\ at.pc = p /\ Live(FALSE) /\ Originals(rd) /\ Smooth
     /\ at' = [at EXCEPT !.pc = q]
     /\ own' = [own EXCEPT !.held = @ \cup {"directories"}, !.work = Least(@, end),
                           !.final = Least(@, end)]
     /\ UNCHANGED <<disk, child, quarantine>> /\ Frame
  \/ /\ at.pc = p /\ (Live(FALSE) /\ Originals(rd) => Raised)
     /\ ~(Live(FALSE) /\ Originals(rd)) => Smooth
     /\ at' = [at EXCEPT !.pc = "closing"]
     /\ own' = [own EXCEPT !.failed = TRUE, !.unknown = Live(FALSE) /\ Originals(rd)]
     /\ UNCHANGED <<disk, child, quarantine>> /\ Frame

-----------------------------------------------------------------------------
(* collect_close: stages 6 to 8, until the READ end.                          *)

CollectArrive == In(6) /\ Arrive("bind")

\* _collect_bundle and _collect_host over all nine records.
CollectBind == In(6) /\ Bind("bind", "reread", CollectInput, own.read)

\* Every record once more; the names in the directory are exactly these.
CollectReread ==
  In(6) /\ Step("reread", "closing", "closing", Live(FALSE), CollectInput, {}, {"directories"})

CollectInputClose == In(6) /\ CloseOwner("closing", "closed")
CollectInputReturn == Publish("closed", 6, InTime, SameWindow)

Authority2 == {"source-before-2", "collect-context"} \cup PhaseRecords \cup ChildRecords

CollectAuthorityOpen ==
  In(7) /\ Step("start", "context", "failed", Live(FALSE), {}, {"source-before-2"}, {"directories"})

CollectContext ==
  In(7) /\ Step("context", "phase", "failed", Live(FALSE), {"source-before-2"}, {"collect-context"}, {})

\* _collect_phase_bytes: start, birth, result, child and acknowledgement agree.
CollectReadAuthority ==
  In(7) /\ Step("read", "source-after", "failed", Live(FALSE), Authority2, {}, {"directories"})

CollectSourceAfter ==
  In(7) /\ Step("source-after", "read-again", "failed", Live(FALSE), {}, {"source-after-2"}, {"directories"})

CollectReadAgain ==
  In(7) /\ Step("read-again", "closing", "failed", Live(FALSE), Authority2, {"authority-2"}, {})

CollectAuthorityClose == In(7) /\ CloseOwner("closing", "closed")
CollectAuthorityReturn == Publish("closed", 7, InTime, SameWindow)

CollectAuthorityChild == In(7) /\ ServiceChild({"collect-context"})

\* _collect_authority_currency: the match is derived again, not remembered.
CollectFinalOpen ==
  In(8) /\ Step("start", "collect", "closing", Live(FALSE), CollectInput, {}, {"directories"})

CollectClosed ==
  In(8) /\ Step("collect", "final-reread", "closing", Live(FALSE), CollectInput, {"collect"}, {})

CollectFinalReread ==
  In(8) /\ Step("final-reread", "closing", "closing", Live(FALSE), CollectInput, {}, {})

CollectFinalClose == In(8) /\ CloseOwner("closing", "closed")
CollectOutput == Publish("closed", 8, InTime, SameWindow)

-----------------------------------------------------------------------------
(* seal: stages 9 to 11, until the seal's end.                                *)

TailArrive == In(9) /\ Arrive("bind")

\* The step is read first and narrows the clock; then the other records.
TailNarrow == In(9) /\ Bind("bind", "bundle", {"step"}, SealEnd)

TailBundle ==
  In(9) /\ Step("bundle", "reread", "closing", Live(FALSE), TailInput, {}, {"directories"})

TailReread == In(9) /\ Step("reread", "closing", "closing", Live(FALSE), TailInput, {}, {})

TailInputClose == In(9) /\ CloseOwner("closing", "closed")
TailInputReturn == Publish("closed", 9, InTime, SameWindow)

AuthoritySeal == {"source-before-3", "tail-context"} \cup PhaseRecords \cup ChildRecords

TailAuthorityOpen ==
  In(10) /\ Step("start", "context", "failed", Live(FALSE), {}, {"source-before-3"}, {"directories"})

TailContext ==
  In(10) /\ Step("context", "phase", "failed", Live(FALSE), {"source-before-3"}, {"tail-context"}, {})

TailReadAuthority ==
  In(10) /\ Step("read", "source-after", "failed", Live(FALSE), AuthoritySeal, {}, {"directories"})

TailSourceAfter ==
  In(10) /\ Step("source-after", "read-again", "failed", Live(FALSE), {}, {"source-after-3"}, {"directories"})

TailReadAgain ==
  In(10) /\ Step("read-again", "closing", "failed", Live(FALSE), AuthoritySeal, {"authority-seal"}, {})

TailAuthorityClose == In(10) /\ CloseOwner("closing", "closed")
TailAuthorityReturn == Publish("closed", 10, InTime, SameWindow)

TailAuthorityChild == In(10) /\ ServiceChild({"tail-context"})

TailSealOpen ==
  In(11) /\ Step("start", "ciphertext", "closing", Live(FALSE), TailInput, {}, {"directories"})

\* The whole artifact is read and hashed against the manifest.
TailCiphertext ==
  In(11) /\ Step("ciphertext", "seal", "closing", Live(FALSE), {"ciphertext"}, {}, {"reader"})

TailSeal == In(11) /\ Step("seal", "seal-reread", "closing", Live(FALSE), {}, {"seal"}, {"directories"})

TailSealReread == In(11) /\ Step("seal-reread", "closing", "closing", Live(FALSE), TailInput, {}, {})

TailSealClose == In(11) /\ CloseOwner("closing", "closed")

\* seal_for_before hands the seal's deadline on with its digest.
TailOutput == Publish("closed", 11, InTime, SameWindow)

CloseNext ==
  \/ CollectArrive \/ CollectBind \/ CollectReread \/ CollectInputClose \/ CollectInputReturn
  \/ CollectAuthorityOpen \/ CollectContext \/ CollectReadAuthority \/ CollectSourceAfter
  \/ CollectReadAgain \/ CollectAuthorityClose \/ CollectAuthorityReturn
  \/ CollectFinalOpen \/ CollectClosed \/ CollectFinalReread \/ CollectFinalClose \/ CollectOutput
  \/ TailArrive \/ TailNarrow \/ TailBundle \/ TailReread \/ TailInputClose \/ TailInputReturn
  \/ TailAuthorityOpen \/ TailContext \/ TailReadAuthority \/ TailSourceAfter \/ TailReadAgain
  \/ TailAuthorityClose \/ TailAuthorityReturn
  \/ TailSealOpen \/ TailCiphertext \/ TailSeal \/ TailSealReread \/ TailSealClose \/ TailOutput

-----------------------------------------------------------------------------
(* before_authority of scripts/run-hosted-initial-recipient-custody.py: the   *)
(* process that receives the seal.  Its clock starts from the seal's deadline *)
(* given on the command line and is bound to the sealed Window; the authority *)
(* is acquired once more, read back by a second owner while the first is      *)
(* still open, and its close is written by a third.                           *)
SealedInput == TailInput \cup {"seal"}

\* first_caps: from its first reading on the process has the seal's end.
BeforeArrive ==
  /\ In(12) /\ at.pc = "start" /\ at' = [at EXCEPT !.pc = "bind"] /\ Smooth
  /\ own' = [SameWindow EXCEPT !.work = SealEnd, !.final = SealEnd]
  /\ UNCHANGED <<disk, child, quarantine>> /\ Frame

\* _before_actual, then the seal against the digest the workflow handed on.
BeforeRebind == In(12) /\ Bind("bind", "bundle", {"seal"}, SealEnd)

\* _historical_seal_record over the other ten.
BeforeBundle ==
  In(12) /\ Step("bundle", "reread", "closing", Live(FALSE), SealedInput, {}, {"directories"})

\* Each file again, the same identity and metadata as the first time.
BeforeReread == In(12) /\ Step("reread", "closing", "closing", Live(FALSE), SealedInput, {}, {})

BeforeInputClose == In(12) /\ CloseOwner("closing", "closed")
BeforeInputReturn == Publish("closed", 12, InTime, SameWindow)

AuthorityBefore == {"source-before-4", "before-context"} \cup PhaseRecords \cup ChildRecords

BeforeAcquireOpen ==
  In(13) /\ Step("start", "context", "failed", Live(FALSE), {}, {"source-before-4"}, {"directories"})

BeforeContext ==
  In(13) /\ Step("context", "phase", "failed", Live(FALSE), {"source-before-4"}, {"before-context"}, {})

BeforeReadAuthority ==
  In(13) /\ Step("read", "source-after", "failed", Live(FALSE), AuthorityBefore, {}, {"directories"})

BeforeSourceAfter ==
  In(13) /\ Step("source-after", "read-again", "failed", Live(FALSE), {}, {"source-after-4"}, {"directories"})

BeforeReadAgain ==
  In(13) /\ Step("read-again", "capture", "failed", Live(FALSE), AuthorityBefore, {}, {})

\* _before_index and _before_capture: every file and every directory listing,
\* by an owner that is closed before the first one is.
BeforeCapture ==
  In(13) /\ Step("capture", "capture-closing", "capture-closing", Live(FALSE),
                 AuthorityBefore \cup {"source-after-4"}, {}, {"leaf"})

BeforeCaptureClose == In(13) /\ LeafClose("capture-closing", "closing")

BeforeClose == In(13) /\ CloseOwner("closing", "closed")

BeforeWriter == In(13) /\ Reopen("closed", "write-close", SameWindow)

\* authority-close.json, its readback and the final directory listings.
BeforeWriteClose ==
  In(13) /\ Step("write-close", "writer-closing", "writer-closing", Live(FALSE), {}, {"authority-close"},
                 {"directories"})

BeforeWriterClose == In(13) /\ CloseOwner("writer-closing", "writer-closed")

\* The registered return is checked again as a whole.
BeforeReturn == Publish("writer-closed", 13, InTime, SameWindow)

BeforeAuthorityChild == In(13) /\ ServiceChild({"before-context"})

BeforeNext ==
  \/ BeforeArrive \/ BeforeRebind \/ BeforeBundle \/ BeforeReread \/ BeforeInputClose \/ BeforeInputReturn
  \/ BeforeAcquireOpen \/ BeforeContext \/ BeforeReadAuthority \/ BeforeSourceAfter \/ BeforeReadAgain
  \/ BeforeCapture \/ BeforeCaptureClose \/ BeforeClose \/ BeforeWriter \/ BeforeWriteClose
  \/ BeforeWriterClose \/ BeforeReturn

=============================================================================
