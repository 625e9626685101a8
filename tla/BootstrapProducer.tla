-------------------------- MODULE BootstrapProducer --------------------------
(* Stages 6 to 9 of the bootstrap.  Stage 9 ends them: the configuration     *)
(* producer (_run_configuration_producer) runs the canonical configuration    *)
(* command in a native child.  Its window has four phases: WORK, RETURN (the  *)
(* child may still return by itself, after a cancellation request when the    *)
(* parent has failed), FINAL (the drain) and READ.                            *)
EXTENDS BootstrapRecipient
-----------------------------------------------------------------------------
(* Stages 6 to 8 of the bootstrap: dependency-stage, empty-seed and           *)
(* custody-prepare (_stage_after_initialization, _run_staging_phase) with     *)
(* their leaves (scripts/hosted_cache_bootstrap_staging.py and                *)
(* hosted_cache_bootstrap_custody.py).  Each phase has its own owner and      *)
(* window and is closed before the next begins; none has a native child.      *)

\* sequence.files: every record of the closed recipient and initializer.
SequenceFiles == RecipientChain \cup InitializerFiles \cup {"init-pending"}
StagingOriginals == Readmitted \cup SequenceFiles

Admission(s) == IF s = 6 THEN "stage-admission" ELSE IF s = 7 THEN "seed-admission" ELSE "custody-admission"
LeafRecords(s) == IF s = 6 THEN {"stage-evidence", "stage-original"}
                  ELSE IF s = 7 THEN {"seed-evidence", "seed-original"}
                  ELSE {"custody-evidence", "request-original"}
Pending(s) == IF s = 6 THEN "stage-pending" ELSE IF s = 7 THEN "seed-pending" ELSE "custody-pending"
StagingFiles == {"staging", "reservation"}
                  \cup UNION {LeafRecords(s) \cup {Admission(s), Pending(s)} : s \in 6 .. 8}

\* _StagingWindow: soft and hard limit coincide, except that the empty seed
\* must be observed in the shorter soft interval.
StagingWindow(s) ==
  IF s = 7 THEN Opened(Work, Clean)
  ELSE LET w == Opened(Work + Clean, 0) IN [w EXCEPT !.read = w.final]

\* _StagingFileOwner.end and _StagingPhaseParent.check.
StagingLive == Live(FALSE)

StagingStep(p, q, rd, wr, tk) == Step(p, q, "closing", StagingLive, rd, wr, tk)

\* Claim, window, owner and signal handlers; then every original.
StagingOpen ==
  at.stage \in 6 .. 8 /\ StagingStep("start", "admit", StagingOriginals, {}, {"directories"})

\* admit: one native readmission per phase, then the originals again.
StagingAdmit ==
  at.stage \in 6 .. 8 /\ StagingStep("admit", "leaf", StagingOriginals, {Admission(at.stage)}, {})

\* stage_empty: initialized state and sources, then staging.json.
StageEmpty ==
  In(6) /\ StagingStep("leaf", "evidence", {"canonical", "init-context"}, {"staging"}, {})

\* observe_empty_seed: the staged intent, compared without writing.
ObserveEmptySeed ==
  In(7) /\ StagingStep("leaf", "evidence", {"canonical", "init-context", "staging"}, {}, {})

\* reserve_configuration: a fresh directory with the producer's request.
ReserveConfiguration ==
  In(8) /\ StagingStep("leaf", "evidence", {"canonical", "init-context", "staging"},
                       {"reservation"}, {})

\* The leaf's return, its local clock and its retained records.
StagingEvidence ==
  at.stage \in 6 .. 8
  /\ StagingStep("evidence", "pending", IF In(8) THEN {"reservation"} ELSE {}, LeafRecords(at.stage), {})

Reread(s) ==
  StagingOriginals \cup LeafRecords(s) \cup {Admission(s)}
    \cup (IF s = 8 THEN {"reservation"} ELSE {})

StagingPending ==
  at.stage \in 6 .. 8 /\ StagingStep("pending", "reread", Reread(at.stage), {Pending(at.stage)}, {})

StagingReread ==
  at.stage \in 6 .. 8 /\ StagingStep("reread", "closing", Reread(at.stage) \cup {Pending(at.stage)}, {}, {})

\* _close_staging_phase: one close, in reverse, until something is unknown.
StagingClose == at.stage \in 6 .. 8 /\ CloseOwner("closing", "closed")

\* The return is only built after the close, in the hard interval.
StagingReturn ==
  \E s \in 6 .. 8 : Publish("closed", s, InTime, IF s = 8 THEN Opened(Work, Clean) ELSE StagingWindow(s + 1))

StagingNext ==
  \/ StagingOpen \/ StagingAdmit \/ StageEmpty \/ ObserveEmptySeed \/ ReserveConfiguration
  \/ StagingEvidence \/ StagingPending \/ StagingReread \/ StagingClose \/ StagingReturn

-----------------------------------------------------------------------------
(* Stage 9. *)

ProducerOriginals == StagingOriginals \cup StagingFiles
ProducerFiles ==
  {"producer-admission", "outer-start", "producer-baseline", "producer-native-start",
   "canonical-start", "canonical-receipt"}

\* _ProducerOwner.end with _ProducerParent.live: WORK or READ, nothing failed.
ProducerLive == ParentLive

ProducerStep(p, q, e, rd, wr, tk) == Step(p, q, e, ProducerLive, rd, wr, tk)

\* Claim, limits, window, owner, signal handlers.
ProducerOpen == In(9) /\ ProducerStep("start", "originals", "finish-return", {}, {}, {"directories"})

\* read_originals and state_readback before the launch.
ProducerRead ==
  In(9) /\ ProducerStep("originals", "admit", "finish-return", ProducerOriginals, {}, {"directories"})

ProducerAdmit ==
  In(9) /\ ProducerStep("admit", "recheck", "finish-return", {}, {"producer-admission"}, {})

\* Originals and state again, then the command.
ProducerCommand ==
  In(9) /\ ProducerStep("recheck", "streams", "finish-return",
                        ProducerOriginals \cup {"producer-admission"}, {"outer-start"}, {})

ProducerStreams ==
  In(9) /\ ProducerStep("streams", "spawn", "finish-return", {}, {"producer-baseline"},
                        {"stdout", "stderr", "scope"})

ProducerSpawn ==
  In(9) /\ Spawn("spawn", "birth", "finish-return", ProducerLive, ProducerOriginals \cup {"outer-start"})

ProducerBirth ==
  In(9) /\ ProducerStep("birth", "poll", "finish-return", {}, {"producer-native-start"}, {})

ProducerPoll == In(9) /\ Poll("poll", "finish-return", ProducerLive)

\* advance("RETURN"): a fresh 225 seconds, never beyond the stage's.
EnterReturn ==
  /\ In(9) /\ at.pc = "finish-return" /\ Smooth
  /\ own' = [own EXCEPT !.phase = "RETURN", !.work = Least(own.final, now + Clean)]
  /\ at' = [at EXCEPT !.pc = IF child.st \in {"running", "wrote"} /\ own.failed /\ ~own.unknown
                               THEN "cancel-child" ELSE "return-child"]
  /\ UNCHANGED <<disk, child, quarantine>> /\ Frame

\* cancellation_request: a record in the child's cancellations directory,
\* written once, through the original handles, in the RETURN phase only.
CancellationRequest ==
  /\ In(9) /\ at.pc = "cancel-child" /\ at' = [at EXCEPT !.pc = "return-child"]
  /\ \/ /\ Smooth /\ UNCHANGED own
        /\ disk' = IF now < own.work THEN [disk EXCEPT !.written = @ \cup {"cancellation"}] ELSE disk
     \/ /\ now < own.work /\ Raised
        /\ own' \in {own, [own EXCEPT !.unknown = TRUE]} /\ UNCHANGED disk
  /\ UNCHANGED <<child, quarantine>> /\ Frame

\* return_child: until the child has returned, or the phase is over.
ReturnChild ==
  /\ In(9) /\ at.pc = "return-child" /\ Smooth
  /\ child.st \in {"running", "wrote"} => own.unknown \/ now >= own.work
  /\ own' = [own EXCEPT !.failed = @ \/ child.st \in {"running", "wrote"}]
  /\ at' = [at EXCEPT !.pc = "finish"]
  /\ UNCHANGED <<disk, child, quarantine>> /\ Frame

\* advance("FINAL"), drain, scope, captures.  A failure after the launch does
\* not by itself make the owner unknown here.
ProducerFinish ==
  /\ In(9) /\ at.pc = "finish" /\ Smooth /\ ~own.unknown
  /\ "scope" \in own.held => now < own.final
  /\ child' = IF Launched THEN [child EXCEPT !.st = "gone", !.tree = FALSE] ELSE child
  /\ LET bad == own.failed \/ now >= own.final
     IN /\ own' = [Final EXCEPT !.held = @ \ {"scope", "stdout", "stderr"}, !.failed = bad]
        /\ at' = [at EXCEPT !.pc = IF bad THEN "closing" ELSE "begin-read"]
  /\ UNCHANGED <<disk, quarantine>> /\ Frame

ProducerFinishUnknown ==
  /\ In(9) /\ at.pc = "finish"
  /\ IF own.unknown \/ ("scope" \in own.held /\ now >= own.final) THEN Smooth ELSE Raised
  /\ child' \in {child, IF Launched THEN [child EXCEPT !.st = "gone", !.tree = FALSE] ELSE child}
  /\ own' = [Final EXCEPT !.failed = TRUE, !.unknown = TRUE]
  /\ at' = [at EXCEPT !.pc = "closing"]
  /\ UNCHANGED <<disk, quarantine>> /\ Frame

\* advance("READ"): nothing failed, every writer closed.
ProducerBeginRead ==
  /\ In(9) /\ at.pc = "begin-read" /\ Smooth
  /\ IF now < own.final /\ ~own.failed /\ ~cancelled
       THEN /\ own' = [own EXCEPT !.phase = "READ", !.read = Least(@, now + Clean)]
            /\ at' = [at EXCEPT !.pc = "read-canonical"]
       ELSE own' = [own EXCEPT !.failed = TRUE] /\ at' = [at EXCEPT !.pc = "closing"]
  /\ UNCHANGED <<disk, child, quarantine>> /\ Frame

\* read_canonical: state, captures, the canonical start and receipt, then all
\* records, the state and the originals again.
ReadCanonical ==
  In(9) /\ ProducerStep("read-canonical", "closing", "closing",
                        ProducerOriginals \cup ProducerFiles, {"producer-observed"}, {})

ProducerClose == In(9) /\ CloseOwner("closing", "closed")

\* The last checks of the return; the collection that called the producer binds
\* to it.
ProducerReturn ==
  /\ In(9) /\ at.pc = "closed" /\ Smooth
  /\ LET good == ParentInTime /\ ~own.failed /\ ~own.unknown
     IN at' = [at EXCEPT !.pc = IF good THEN "bind" ELSE "raised"]
  /\ UNCHANGED <<own, disk, child, quarantine>> /\ Frame

\* The canonical command; a cancellation request makes it fail.
ProducerChild ==
  /\ In(9)
  /\ \/ "cancellation" \notin disk.written
        /\ ChildWrites({"reservation"}, {"canonical-start", "canonical-receipt"})
     \/ ChildReturns
     \/ ChildFails({"reservation"})
     \/ /\ "cancellation" \in disk.written /\ child.st \in {"running", "wrote"} /\ Smooth
        /\ child' = [child EXCEPT !.st = "exited", !.ok = FALSE]
        /\ UNCHANGED <<at, own, disk, quarantine>> /\ Frame

ProducerNext ==
  \/ ProducerOpen \/ ProducerRead \/ ProducerAdmit \/ ProducerCommand \/ ProducerStreams
  \/ ProducerSpawn \/ ProducerBirth \/ ProducerPoll \/ EnterReturn \/ CancellationRequest
  \/ ReturnChild \/ ProducerFinish \/ ProducerFinishUnknown \/ ProducerBeginRead
  \/ ReadCanonical \/ ProducerClose \/ ProducerReturn

=============================================================================
