--------------------------- MODULE ProductiveFinal ---------------------------
(* scripts/hosted_initial_recipient_productive_custody.py: the final custody  *)
(* of a productive run, two processes.  The first (stage 39) keeps a reader   *)
(* of the production open while it acquires the current authority and copies  *)
(* everything into groups, closes it, and encrypts the groups in a native     *)
(* child.  The second (stage 40) reads back all that the first returned,      *)
(* acquires the authority again and closes the collection.                    *)
EXTENDS ProductiveSteps

-----------------------------------------------------------------------------
(* The clock and the owners.                                                  *)

\* _new_clock: consecutive phases from the process's own first reading: freeze,
\* encrypt, final (old) and read.  No proposal bounds them yet.
FinalOwner ==
  [Opened(0, 0) EXCEPT !.work = now + Work, !.final = now + Work, !.read = now + Work + 3 * Clean,
                       !.old = <<now + Work + Clean, now + Work + 2 * Clean>>]

InFinal == at.stage \in {39, 40} /\ own.outer = <<>>

\* An owner of files that is opened and closed within one function leaves
\* nothing behind unless it is unknown (_file_owner, _close_owner).
FStep(s, p, q, rd, wr, tk) == In(s) /\ InFinal /\ Step(p, q, "closing", Live(FALSE), rd, wr, tk)

\* _advance: the next phase starts with its own reading, in the phase before,
\* and never ends later than planned.
FinalAdvance(s, p, q, end) ==
  /\ In(s) /\ at.pc = p /\ Smooth
  /\ IF Live(FALSE) /\ now < end
       THEN at' = [at EXCEPT !.pc = q] /\ own' = [own EXCEPT !.work = end, !.final = end]
       ELSE at' = [at EXCEPT !.pc = "closing"] /\ own' = [own EXCEPT !.failed = TRUE]
  /\ UNCHANGED <<disk, child, quarantine>> /\ Frame

\* _shorten_clock: the original proposal only takes time away, from every phase.
FinalShorten(s, p, q) ==
  /\ In(s) /\ at.pc = p /\ Smooth
  /\ LET cut(end) == Least(end, Fence(s)) IN
     IF Live(FALSE) /\ now < cut(own.work)
       THEN /\ at' = [at EXCEPT !.pc = q]
            /\ own' = [own EXCEPT !.work = cut(@), !.final = cut(@), !.read = cut(@),
                                  !.old = <<cut(own.old[1]), cut(own.old[2])>>]
       ELSE at' = [at EXCEPT !.pc = "closing"] /\ own' = [own EXCEPT !.failed = TRUE]
  /\ UNCHANGED <<disk, child, quarantine>> /\ Frame

\* _close_owner, and _abort_state for every owner that is still open.
FinalClose == InFinal /\ CloseOwner("closing", "closed")

-----------------------------------------------------------------------------
(* _acquire_authority: a native owner of its own, inside the phase.           *)

InAuthority == own.outer # <<>> /\ at.stage \in {39, 40}

\* authority-pre-export and authority-post-export are different directories.
FinalAuthority == IF In(39) THEN "authority-pre" ELSE "authority-post"

AStep(p, q, rd, wr, tk) == InAuthority /\ Step(p, q, "failed", Live(FALSE), rd, wr, tk)

FinalAuthorityOpen(p, q) ==
  /\ InFinal /\ at.pc = p /\ Smooth /\ UNCHANGED <<child, quarantine>> /\ Frame
  /\ IF Live(FALSE)
       THEN /\ at' = [at EXCEPT !.pc = "fa-sources"]
            /\ own' = [Opened(0, 0) EXCEPT !.outer = <<own, q>>, !.work = own.work, !.final = own.work,
                                           !.read = own.work]
            /\ disk' = [written |-> disk.written \ UseRecords,
                        swapped |-> {s \in disk.swapped : s[1] \notin UseRecords}]
       ELSE /\ at' = [at EXCEPT !.pc = "closing"] /\ own' = [own EXCEPT !.failed = TRUE]
            /\ UNCHANGED disk

\* The sources, then context.json and authority-window.json.
FinalAuthoritySources == AStep("fa-sources", "fa-context", {}, {"use-before"}, {"directories"})
FinalAuthorityContext == AStep("fa-context", "phase", {"use-before"}, {"use-context", "use-window"}, {})

\* _authority_read: what the phase, its child and the queries retained agrees.
FinalAuthorityRead == AStep("read", "fa-after", UseOriginals, {}, {"directories"})
FinalAuthorityAfter == AStep("fa-after", "fa-again", {}, {"use-after"}, {"directories"})
FinalAuthorityAgain == AStep("fa-again", "fa-pending", UseOriginals, {}, {})

\* authority-pending.json and _authority_inventory over everything, then the
\* pins of all directories.
FinalAuthorityInventory ==
  AStep("fa-pending", "fa-closing", UseOriginals \cup {"use-after"}, {FinalAuthority}, {})

FinalAuthorityFailed ==
  /\ InAuthority /\ at.pc = "failed" /\ at' = [at EXCEPT !.pc = "fa-closing"] /\ Smooth
  /\ UNCHANGED <<own, disk, child, quarantine>> /\ Frame

FinalAuthorityClose == InAuthority /\ CloseOwner("fa-closing", "fa-closed")

\* _checked_authority: the closed return, while the phase is live.
FinalAuthorityLeave ==
  /\ InAuthority /\ at.pc = "fa-closed" /\ Smooth
  /\ LET good == ~own.failed /\ ~own.unknown /\ now < own.work /\ ~cancelled
     IN /\ own' = [own.outer[1] EXCEPT !.failed = ~good]
        /\ at' = [at EXCEPT !.pc = IF good THEN own.outer[2] ELSE "closing"]
        /\ child' = IF good THEN NoChild ELSE child
  /\ UNCHANGED <<disk, quarantine>> /\ Frame

\* _authority_child.
FinalAuthorityChild == InAuthority /\ ServiceChild({"use-context"})

FinalAuthorityNext ==
  \/ FinalAuthoritySources \/ FinalAuthorityContext \/ FinalAuthorityRead \/ FinalAuthorityAfter
  \/ FinalAuthorityAgain \/ FinalAuthorityInventory \/ FinalAuthorityFailed \/ FinalAuthorityClose
  \/ FinalAuthorityLeave \/ FinalAuthorityChild

-----------------------------------------------------------------------------
(* Stage 39: prepare_final_export and export_prepared_final.                  *)

FinalBegin == BeginPhase(39, "setup", FinalOwner)

\* _setup_export: every directory of the export is new.
FinalSetup == FStep(39, "setup", "setup-closing", {}, {}, {"leaf"})
FinalSetupClose == In(39) /\ LeafClose("setup-closing", "reader")

\* _peek_final_productive_inputs: the reader stays open; its proposal binds the
\* clock before the authority is asked for.
FinalReader == FStep(39, "reader", "shorten", {"save-handoff"}, {}, {"directories"})
FinalBind == FinalShorten(39, "shorten", "authority")
FinalPre == In(39) /\ FinalAuthorityOpen("authority", "final-inputs")

\* read_final_productive_inputs: _rederive, _final_probe_history and
\* _final_action_originals, for the identity just acquired.
FinalFiles ==
  HandoffFiles \cup GraphFiles \cup DerivedFiles
    \cup {"after-save-return", "probe-preparation", "probe-chain", "probe-action", "probe-result"}
FinalInputs == FStep(39, "final-inputs", "copy", FinalFiles, {}, {})

\* _parent_specs: 28 groups, from the reader and from the authority.
GroupSources == FinalFiles \cup {"authority-pre", "use-window", "use-context", "use-before", "use-after"}

\* _copy_group: one owner for the group, closed and checked before the next.
CopyGroup == FStep(39, "copy", "copy-closing", GroupSources, {"groups"}, {"leaf"})
CopyGroupClose == In(39) /\ LeafClose("copy-closing", "copied")

\* checked_final_productive_inputs, then the reader is closed.
FinalInputsAgain == FStep(39, "copied", "reader-closing", FinalFiles, {}, {})
ReaderClose == In(39) /\ InFinal /\ CloseOwner("reader-closing", "reader-closed")

\* _final_inputs_closed: the retired reader's originals are still the same.
FinalInputsClosed == In(39) /\ Reopen("reader-closed", "transport", SameWindow)

\* _parent_transport: final inputs, pre-index, policy, match and the context.
ParentTransport == FStep(39, "transport", "union", {"groups", "authority-pre"}, {"crypto-inputs-2"}, {})

\* _check_union: groups, maps and directories have exactly these members.
CheckUnion == FStep(39, "union", "enter", {"groups", "crypto-inputs-2"}, {}, {})

\* _check_native_phase_entry: the encryption starts with the native phase.
NativeEnter ==
  /\ In(39) /\ at.pc = "enter" /\ Smooth
  /\ IF Live(FALSE) /\ now < own.old[1]
       THEN at' = [at EXCEPT !.pc = "n-start"] /\ own' = [own EXCEPT !.work = own.old[1], !.final = own.old[2]]
       ELSE at' = [at EXCEPT !.pc = "closing"] /\ own' = [own EXCEPT !.failed = TRUE]
  /\ UNCHANGED <<disk, child, quarantine>> /\ Frame
NativeStart == FStep(39, "n-start", "n-streams", {}, {"n-start"}, {"directories"})

NStep(p, q, e, live, rd, wr, tk) == In(39) /\ Step(p, q, e, live, rd, wr, tk)

\* productive_crypto_native.
NativeStreams ==
  NStep("n-streams", "n-spawn", "n-drain", Live(FALSE), {}, {"n-baseline"}, {"stdout", "stderr", "scope"})
NativeSpawn == In(39) /\ Spawn("n-spawn", "n-birth", "n-drain", Live(FALSE), {})
NativeBirth == NStep("n-birth", "n-poll", "n-drain", Live(FALSE), {}, {"n-birth"}, {})

\* _native_work_check in every round.
NativePoll == In(39) /\ Poll("n-poll", "n-final", Live(FALSE))

\* _native_crypto_final: the final phase is for an exit that was still in time.
NativeFinal ==
  /\ In(39) /\ at.pc = "n-final" /\ at' = [at EXCEPT !.pc = "n-drain"] /\ Smooth
  /\ own' = [own EXCEPT !.failed = ~Live(FALSE)]
  /\ UNCHANGED <<disk, child, quarantine>> /\ Frame

NativeDrain == In(39) /\ Drain("n-drain", "n-captures")
NativeCapturesClose == In(39) /\ NativeCaptures("n-captures", "n-result", "closing")

\* _checked_native_crypto: start, birth, result, child result and
\* acknowledgement agree with the context.
NativeRecords == NStep("n-result", "n-closing", "closing", Live(TRUE), {"n-child-result"}, {"n-result"}, {})
NativeClose == In(39) /\ CloseOwner("n-closing", "n-closed")

\* custody-encrypt-read, only after a known close in time.
NativeReturned ==
  In(39) /\ Reopen("n-closed", "returned", [SameWindow EXCEPT !.work = own.read, !.final = own.read])

\* _read_files over everything both processes wrote.
ReturnedFiles ==
  {"crypto-inputs-2", "n-start", "n-result", "n-child-result", "copy-index", "final-manifest"}
ReadReturned == FStep(39, "returned", "ciphertext", ReturnedFiles, {}, {})

\* _manifest_index_join, _control_roster and _ciphertext_read.
FinalCiphertext == FStep(39, "ciphertext", "custody-return", {"final-ciphertext", "copy-index"}, {}, {})

CustodyReturn == FStep(39, "custody-return", "union-again", {"final-manifest"}, {"custody-return"}, {})
FinalUnion == FStep(39, "union-again", "closing", {"groups", "copy-index", "custody-return"}, {}, {})

\* _register_final_return and the fence of the output.
FinalExportReturn == Publish("closed", 39, InTime, SameWindow)

\* productive_crypto_child, under the caps of its command line.
EPart(rd, wr) == In(39) /\ ChildPart({"crypto-inputs-2", "n-start"} \cup rd, wr)

\* _child_metadata: an owner that only reads, closed before the roots are open.
EMetadata == EPart({}, {"e-metadata"})

\* _open_child_roots and the validation of the recipient.
EValidate == {"e-metadata"} \subseteq disk.written /\ EPart({}, {"e-recipient"})

\* _child_copy_specs: the last two groups, from the validation and the inputs.
ECopy == {"e-recipient"} \subseteq disk.written /\ EPart({"e-recipient"}, {"e-groups"})

\* _read30 and _close_index: all thirty groups are read before they are indexed.
EIndex == {"e-groups"} \subseteq disk.written /\ EPart({"groups", "e-groups"}, {"copy-index"})

\* custody-encrypt: the archive is checked as a whole while it is encrypted.
EExport ==
  {"copy-index"} \subseteq disk.written
    /\ EPart({"groups", "e-groups", "copy-index"}, {"final-ciphertext", "final-manifest"})

EResult ==
  /\ In(39) /\ "final-manifest" \in disk.written
  /\ ChildWrites({"crypto-inputs-2", "n-start", "copy-index", "final-manifest"}, {"n-child-result"})

\* _child_ack_fence: the owner is closed and everything checked before the
\* acknowledgement; any failure ends the child otherwise.
EEnd == In(39) /\ own.outer = <<>> /\ (ChildReturns \/ ChildFails({"crypto-inputs-2", "n-start"}))

-----------------------------------------------------------------------------
(* Stage 40: prepare_final_collect and finish_final_collect.                  *)

CollectBegin == BeginPhase(40, "all", FinalOwner)

\* Every returned, service, output and index file, before anything is trusted.
CollectFiles == ReturnedFiles \cup {"custody-return"}
CollectAll == FStep(40, "all", "predecessor", CollectFiles, {}, {})

\* _crypto_inputs_data, _crypto_phase_data and _collect_predecessor.
CollectPredecessor == FStep(40, "predecessor", "history", {"custody-return", "final-manifest"}, {}, {})

\* _collect_history reads the handoff; its proposal binds the clock.
CollectHistory == FStep(40, "history", "bind", {"save-handoff"}, {}, {})
CollectNarrow == FinalShorten(40, "bind", "payload")

\* _read30 and _payload_roster.
CollectPayload == FStep(40, "payload", "ciphertext", {"groups", "e-groups", "copy-index"}, {}, {})

CollectCiphertext == FStep(40, "ciphertext", "verify", {"final-ciphertext"}, {}, {})
CollectVerify == FinalAdvance(40, "verify", "authority", own.old[1])
CollectPost == In(40) /\ FinalAuthorityOpen("authority", "recheck")

\* _checked_collect_history, _collect_predecessor, _check_union.
CollectRecheck == FStep(40, "recheck", "owner-return", CollectFiles \cup {"save-handoff", "groups"}, {}, {})

\* custody-owner-return: the authority's return and index, then all of it again.
OwnerReturn == FinalAdvance(40, "owner-return", "post", own.old[2])
PostReturn == FStep(40, "post", "reread", {"authority-post"}, {"post-return"}, {})
CollectAgain ==
  FStep(40, "reread", "collect-close", CollectFiles \cup {"save-handoff", "groups", "final-ciphertext"}, {}, {})
CollectCloseRecord == FStep(40, "collect-close", "roster", {"post-return"}, {"collect-close"}, {})
CollectRoster == FStep(40, "roster", "closing", {"post-return", "collect-close"}, {}, {})
FinalCollectReturn == Publish("closed", 40, InTime, SameWindow)

FinalNext ==
  \/ FinalClose \/ FinalAuthorityNext
  \/ FinalBegin \/ FinalSetup \/ FinalSetupClose \/ FinalReader \/ FinalBind \/ FinalPre \/ FinalInputs
  \/ CopyGroup \/ CopyGroupClose \/ FinalInputsAgain \/ ReaderClose \/ FinalInputsClosed \/ ParentTransport
  \/ CheckUnion \/ NativeEnter \/ NativeStart \/ NativeStreams \/ NativeSpawn \/ NativeBirth \/ NativePoll
  \/ NativeFinal \/ NativeDrain \/ NativeCapturesClose \/ NativeRecords \/ NativeClose \/ NativeReturned
  \/ ReadReturned \/ FinalCiphertext \/ CustodyReturn \/ FinalUnion \/ FinalExportReturn
  \/ EMetadata \/ EValidate \/ ECopy \/ EIndex \/ EExport \/ EResult \/ EEnd
  \/ CollectBegin \/ CollectAll \/ CollectPredecessor \/ CollectHistory \/ CollectNarrow \/ CollectPayload
  \/ CollectCiphertext \/ CollectVerify \/ CollectPost \/ CollectRecheck \/ OwnerReturn \/ PostReturn
  \/ CollectAgain \/ CollectCloseRecord \/ CollectRoster \/ FinalCollectReturn

=============================================================================
