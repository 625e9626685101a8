------------------------- MODULE ProductiveProduce --------------------------
(* scripts/hosted_initial_recipient_productive.py: no phase of the productive *)
(* run works on an authority acquired earlier.  Inside the phase, under an    *)
(* owner and a window of its own that end with the phase's work, a use        *)
(* (_acquire) reads the sources, acquires the current authority in a service  *)
(* child, reads the sources again, closes everything, and is consumed once by *)
(* the phase that asked for it.                                               *)
EXTENDS HostedUpload

-----------------------------------------------------------------------------
(* The phases' windows (hosted_initial_recipient_productive_adapter.py).      *)

\* phaseFencesNs of the original proposal: the production, the four steps and
\* the custody that follows each end earlier than what comes after them.
Fence(s) == IF s <= 30 THEN JobEnd - 2 ELSE IF s <= 38 THEN JobEnd - 1 ELSE JobEnd

\* _new_phase: the phase's own first reading, its ends never beyond the fence.
PhaseOwner ==
  LET f == Fence(at.stage) IN
  [Opened(0, 0) EXCEPT !.work = Least(now + Work, f), !.final = Least(now + Work + Clean, f),
                       !.read = Least(now + Work + Clean + Clean, f)]

\* A phase with one end for its work, its close and its return.
SinglePhase == [PhaseOwner EXCEPT !.final = PhaseOwner.work, !.read = PhaseOwner.work]

\* _Window.advance: the next interval starts with its own reading and has its
\* seconds from there, never beyond the end planned for it.
Advanced(end) == LET e == Least(end, now + Clean) IN [own EXCEPT !.work = e, !.final = e]

\* _new_phase refuses an interval that has no time left.
BeginPhase(s, q, next) ==
  /\ at = [stage |-> s, pc |-> "start"] /\ Smooth
  /\ IF now < next.work /\ ~cancelled /\ ~quarantine
       THEN at' = [at EXCEPT !.pc = q] /\ own' = next
       ELSE at' = [at EXCEPT !.pc = "raised"] /\ own' = [own EXCEPT !.failed = TRUE]
  /\ UNCHANGED <<disk, child, quarantine>> /\ Frame

-----------------------------------------------------------------------------
(* One use.                                                                   *)

InUse == own.outer # <<>> /\ at.stage <= 38

\* The attempt of this parent and site, and the record a later process reads.
UseRecord == IF at.stage <= 30 THEN "productive-uses" ELSE "step-uses"

\* UseWindow: a work and a native end of its own, inside the parent's work.
UseOwner(q) ==
  [Opened(0, 0) EXCEPT !.outer = <<own, q>>, !.work = Least(now + Work, own.work), !.final = own.work,
                       !.read = own.work]

UseRecords == {"use-window", "use-context", "use-before", "use-after"}

\* _acquire: one attempt; every directory of a use is new.
UseOpen(p, q) ==
  /\ at.pc = p /\ ~InUse /\ Smooth /\ UNCHANGED <<child, quarantine>> /\ Frame
  /\ IF Live(FALSE)
       THEN /\ at' = [at EXCEPT !.pc = "use-window"] /\ own' = UseOwner(q)
            /\ disk' = [written |-> disk.written \ UseRecords,
                        swapped |-> {s \in disk.swapped : s[1] \notin UseRecords}]
       ELSE /\ at' = [at EXCEPT !.pc = "closing"] /\ own' = [own EXCEPT !.failed = TRUE]
            /\ UNCHANGED disk

UStep(p, q, rd, wr, tk) == InUse /\ Step(p, q, "failed", Live(FALSE), rd, wr, tk)

UseWindow == UStep("use-window", "use-before", {}, {"use-window"}, {"directories"})

\* source_queries, against the sources the parent is bound to.
UseBefore == UStep("use-before", "use-context", {}, {"use-before"}, {"directories"})
UseContext == UStep("use-context", "phase", {"use-before"}, {"use-context"}, {})

\* service_child: the token is taken from its environment at once, a metadata
\* owner reads and closes, and an operative owner acquires, finishes its
\* queries whatever happened, writes child-result and closes.
UseChild == InUse /\ ServiceChild({"use-context"})

\* _read_phase: context, window, sources, service records and originals agree
\* with each other and with the identity the parent is bound to.
UseOriginals == {"use-window", "use-context", "use-before"} \cup PhaseRecords \cup ChildRecords
UseRead == UStep("read", "use-after", UseOriginals, {}, {"directories"})

UseAfter == UStep("use-after", "use-read-again", {}, {"use-after"}, {"directories"})
UseReadAgain == UStep("use-read-again", "use-pending", UseOriginals \cup {"use-after"}, {}, {})

\* use-pending.json, then _index over everything the use retained.
UsePending == UStep("use-pending", "use-index", {}, {UseRecord}, {})
UseIndex == UStep("use-index", "use-closing", UseOriginals \cup {"use-after", UseRecord}, {}, {})

UseFailed ==
  /\ InUse /\ at.pc = "failed" /\ at' = [at EXCEPT !.pc = "use-closing"] /\ Smooth
  /\ UNCHANGED <<own, disk, child, quarantine>> /\ Frame

UseClose == InUse /\ CloseOwner("use-closing", "use-closed")

\* The closed return must still be in the use's own work; consume_use hands it
\* to the phase once, while the phase itself is live.
UseLeave ==
  /\ InUse /\ at.pc = "use-closed" /\ Smooth
  /\ LET back == own.outer[1]
         good == ~own.failed /\ ~own.unknown /\ now < own.work /\ ~cancelled
     IN /\ own' = [back EXCEPT !.failed = ~good]
        /\ at' = [at EXCEPT !.pc = IF good THEN own.outer[2] ELSE "closing"]
        /\ child' = IF good THEN NoChild ELSE child
  /\ UNCHANGED <<disk, quarantine>> /\ Frame

UseNext ==
  \/ UseWindow \/ UseBefore \/ UseContext \/ UseChild \/ UseRead \/ UseAfter \/ UseReadAgain
  \/ UsePending \/ UseIndex \/ UseFailed \/ UseClose \/ UseLeave

-----------------------------------------------------------------------------
(* produce and complete_productive_handoff of                                 *)
(* scripts/hosted_initial_recipient_productive_adapter.py, one process: the   *)
(* worker's primary is retired, and under phases of their own the dependency  *)
(* evidence is staged, seeded and reserved, the configuration is produced by  *)
(* a native child, collected, uninstalled and exported, and the save set and  *)
(* the handoff are retained for the processes that follow.                    *)
-----------------------------------------------------------------------------
(* Stage 20: retire_primary_for_productive.                                   *)

\* The twelve files and eight directories of the initializer, each against the
\* primary's index.
RetireOpen ==
  In(20) /\ Step("start", "context", "closing", Live(FALSE), {"primary-originals"}, {}, {"directories"})

RetireContext == In(20) /\ Step("context", "closing", "closing", Live(FALSE), {"primary-originals"}, {}, {})

\* checked_retired_primary: the Window is retired once, with every owner of it.
RetireReturn == Publish("closed", 20, InTime, SameWindow)

-----------------------------------------------------------------------------
(* _leaf_phase: stages 21 to 23 and 25 to 28.                                 *)

Leaves == {21, 22, 23, 25, 26, 27, 28}
InLeaf == at.stage \in Leaves /\ ~InUse

\* dependency-stage, empty-seed, custody-prepare, (configuration),
\* custody-collect, custody-uninstall, dependency-export, save-set-before.
LeafReads ==
  CASE at.stage = 21 -> {}
    [] at.stage = 22 -> {"staging"}
    [] at.stage = 23 -> {"staging", "seed"}
    [] at.stage = 25 -> {"canonical-evidence"}
    [] at.stage = 26 -> {"primary-originals"}
    [] at.stage = 27 -> {"collection", "seed"}
    [] at.stage = 28 -> {"export"}

LeafWrites ==
  CASE at.stage = 21 -> {"staging"}
    [] at.stage = 22 -> {"seed"}
    [] at.stage = 23 -> {"reservation"}
    [] at.stage = 25 -> {"collection"}
    [] at.stage = 26 -> {}
    [] at.stage = 27 -> {"export"}
    [] at.stage = 28 -> {"save-set"}

\* Collecting and uninstalling have a FINAL interval for the close and a READ
\* interval for the return.
LeafBegin ==
  \E s \in Leaves : BeginPhase(s, "initializer", IF s \in {25, 26} THEN PhaseOwner ELSE SinglePhase)

\* _read_initializer: the real files under their first identities.
ReadInitializer ==
  InLeaf /\ Step("initializer", "use", "closing", Live(FALSE), {"primary-originals"}, {}, {"directories"})

LeafUse == InLeaf /\ UseOpen("use", "leaf")

\* The leaf works through the phase's owner and window.
Leaf ==
  InLeaf /\ Step("leaf", "leaf-closing", "leaf-closing", Live(FALSE), LeafReads, LeafWrites, {"leaf"})

LeafRetired == InLeaf /\ LeafClose("leaf-closing", "initializer-again")

InitializerAgain ==
  InLeaf /\ Step("initializer-again", "pending", "closing", Live(FALSE), {"primary-originals"}, {}, {})

\* leaf-return-pending.json in the directory of the phase.
LeafPending == InLeaf /\ Step("pending", "closing", "closing", Live(FALSE), {}, {"phase-pendings"}, {})

\* READ starts after a known close, before FINAL expires.
LeafRecord == InLeaf /\ Reopen("closed", "returning", Advanced(own.read))

LeafReturn == \E s \in Leaves : Publish("returning", s, InTime, SameWindow)

-----------------------------------------------------------------------------
(* _configuration_phase: stage 24.                                            *)

InProducer == In(24) /\ ~InUse

\* WORK, RETURN, FINAL and READ; old holds the end of RETURN.
ConfigurationOwner ==
  LET f == Fence(24) IN
  [PhaseOwner EXCEPT !.old = <<Least(now + Work + Clean, f), 0>>,
                     !.final = Least(now + Work + 2 * Clean, f), !.read = Least(now + Work + 3 * Clean, f)]

ConfigurationBegin == BeginPhase(24, "state", ConfigurationOwner)

\* _producer_state: initializer, staging and reservation as they were retained.
ProducerState == {"primary-originals", "staging", "seed", "reservation"}

StateBefore ==
  InProducer /\ Step("state", "use", "closing", Live(FALSE), ProducerState, {}, {"directories"})

ConfigurationUse == InProducer /\ UseOpen("use", "command")

\* _producer_command: command, request and outer-start.
ProducerCommand ==
  InProducer /\ Step("command", "p-streams", "p-final", Live(FALSE), {}, {"p-command"}, {"directories"})

LaunchStreams ==
  InProducer /\ Step("p-streams", "p-spawn", "p-final", Live(FALSE), {}, {"p-baseline"},
                     {"stdout", "stderr", "scope"})

LaunchSpawn == InProducer /\ Spawn("p-spawn", "p-birth", "p-final", Live(FALSE), {"primary-originals"})

LaunchBirth == InProducer /\ Step("p-birth", "p-poll", "p-return", Live(FALSE), {}, {"p-native-start"}, {})

LaunchPoll == InProducer /\ Poll("p-poll", "p-return", Live(FALSE))

\* RETURN: an accepted exit goes on; otherwise the producer is asked to stop,
\* unless something is unknown.
ProducerReturn ==
  /\ InProducer /\ at.pc = "p-return" /\ Smooth
  /\ at' = [at EXCEPT !.pc = IF own.failed /\ ~own.unknown THEN "p-cancel" ELSE "p-final"]
  /\ UNCHANGED <<own, disk, child, quarantine>> /\ Frame

\* _producer_cancel: exactly one request, read back.
ProducerCancel ==
  /\ InProducer
  /\ Step("p-cancel", "p-wait", "p-wait", ~quarantine /\ now < own.old[1], {}, {"cancel-request"}, {"files"})

\* A late zero never makes the work accepted.
ProducerWait ==
  /\ InProducer /\ at.pc = "p-wait" /\ Smooth
  /\ child.st = "exited" \/ now >= own.old[1] \/ own.unknown
  /\ at' = [at EXCEPT !.pc = "p-final"] /\ own' = [own EXCEPT !.failed = TRUE]
  /\ UNCHANGED <<disk, child, quarantine>> /\ Frame

\* _producer_final: the scope is drained and closed whatever else is unknown;
\* what the drain does not show retired becomes unknown.
ProducerFinal ==
  /\ InProducer /\ at.pc = "p-final" /\ at' = [at EXCEPT !.pc = "p-captures"]
  /\ LET late == "scope" \in own.held /\ now >= own.final
         gone == IF child.st = "none" THEN child ELSE [child EXCEPT !.st = "gone", !.tree = FALSE]
     IN \/ /\ ~late /\ Smooth /\ child' = gone
           /\ own' = [own EXCEPT !.held = @ \ {"scope"}]
        \/ /\ IF late THEN Smooth ELSE "scope" \in own.held /\ Raised
           /\ child' \in {child, gone}
           /\ \E left \in SUBSET {"scope"} :
                own' = [own EXCEPT !.failed = TRUE, !.unknown = TRUE, !.held = (@ \ {"scope"}) \cup left]
  /\ UNCHANGED <<disk, quarantine>> /\ Frame

\* The captures are synced and closed after a known retirement only.
ProducerCaptures ==
  /\ InProducer /\ at.pc = "p-captures"
  /\ LET streams == {"stdout", "stderr"} \cap own.held IN
     \/ /\ Smooth
        /\ own' = IF own.unknown THEN own
                  ELSE [own EXCEPT !.held = @ \ streams, !.failed = @ \/ now >= own.final]
     \/ /\ ~own.unknown /\ Raised
        /\ \E kept \in SUBSET streams \ {{}} :
             own' = [own EXCEPT !.held = (@ \ streams) \cup kept, !.failed = TRUE, !.unknown = TRUE]
  /\ at' = [at EXCEPT !.pc = IF own'.failed \/ own'.unknown THEN "closing" ELSE "p-read"]
  /\ UNCHANGED <<disk, child, quarantine>> /\ Frame

\* _read_captures: READ only after scope and captures are closed, in time.
ReadCaptures ==
  /\ InProducer /\ at.pc = "p-read" /\ Smooth
  /\ IF InTime
       THEN at' = [at EXCEPT !.pc = "state-after"] /\ own' = Advanced(own.read)
       ELSE at' = [at EXCEPT !.pc = "closing"] /\ own' = [own EXCEPT !.failed = TRUE]
  /\ UNCHANGED <<disk, child, quarantine>> /\ Frame

StateAfter ==
  InProducer /\ Step("state-after", "evidence", "closing", Live(FALSE), ProducerState, {}, {"files"})

\* The canonical start, receipt and manifest of the producer's own evidence.
Evidence ==
  InProducer /\ Step("evidence", "native-result", "closing", Live(FALSE), {"canonical-evidence"}, {}, {"directories"})

NativeResult ==
  InProducer /\ Step("native-result", "closing", "closing", Live(FALSE), {"canonical-evidence"}, {"native-result"}, {})

ConfigurationReturn == Publish("closed", 24, InTime, SameWindow)

\* The canonical producer; it stops when it finds the request.
ProducerStops ==
  /\ child.st \in {"running", "wrote"} /\ "cancel-request" \in disk.written /\ Smooth
  /\ child' = [child EXCEPT !.st = "exited", !.ok = FALSE]
  /\ UNCHANGED <<at, own, disk, quarantine>> /\ Frame

ProducerChild ==
  /\ InProducer
  /\ \/ ChildWrites({"reservation"}, {"canonical-evidence"}) \/ ChildReturns
     \/ ChildFails({"reservation"}) \/ ProducerStops

-----------------------------------------------------------------------------
(* Stages 29 and 30: producer-owner-return and complete_productive_handoff.   *)

Handoff == {"save-handoff", "prefix"}

HandoffBegin == BeginPhase(29, "use", SinglePhase)
HandoffUse == In(29) /\ UseOpen("use", "initializer")

InHandoff == In(29) /\ ~InUse

HandoffInitializer ==
  InHandoff /\ Step("initializer", "prefix", "closing", Live(FALSE), {"primary-originals"}, {}, {"directories"})

\* _retain_prefix: the retired returns and their index, each read back.
RetainPrefix == InHandoff /\ Step("prefix", "prefix-again", "closing", Live(FALSE), {}, {"prefix"}, {})
RereadPrefix == InHandoff /\ Step("prefix-again", "blobs", "closing", Live(FALSE), {"prefix"}, {}, {})

\* _handoff_blobs: 31 records and save-handoff.json, read back under one
\* directory, the compatibility captured before and after.
HandoffBlobs == InHandoff /\ Step("blobs", "reread", "closing", Live(FALSE), {}, {"save-handoff"}, {})
HandoffReadback == InHandoff /\ Step("reread", "closing", "closing", Live(FALSE), {"save-handoff"}, {}, {})

\* PendingHandoff: the same phase goes on in a further owner.
HandoffReturn == Publish("closed", 29, InTime, SameWindow)

CompleteOpen == In(30) /\ Step("start", "return", "closing", Live(FALSE), Handoff, {}, {"directories"})

\* producer-function-return.json, after the writer of the prefix closed.
CompleteWrite == In(30) /\ Step("return", "reread", "closing", Live(FALSE), {}, {"producer-return"}, {})

CompleteReread ==
  In(30) /\ Step("reread", "closing", "closing", Live(FALSE), Handoff \cup {"producer-return"}, {}, {})

\* _register_output and the fence of the output.
CompleteReturn == Publish("closed", 30, InTime, SameWindow)

\* _Owner.close of every phase, _abort included.
ProduceClose == at.stage \in 20 .. 30 /\ ~InUse /\ CloseOwner("closing", "closed")

ProduceNext ==
  \/ RetireOpen \/ RetireContext \/ RetireReturn
  \/ LeafBegin \/ ReadInitializer \/ LeafUse \/ Leaf \/ LeafRetired \/ InitializerAgain \/ LeafPending
  \/ LeafRecord \/ LeafReturn
  \/ ConfigurationBegin \/ StateBefore \/ ConfigurationUse \/ ProducerCommand \/ LaunchStreams \/ LaunchSpawn
  \/ LaunchBirth \/ LaunchPoll \/ ProducerReturn \/ ProducerCancel \/ ProducerWait \/ ProducerFinal
  \/ ProducerCaptures \/ ReadCaptures \/ StateAfter \/ Evidence \/ NativeResult \/ ConfigurationReturn
  \/ ProducerChild
  \/ HandoffBegin \/ HandoffUse \/ HandoffInitializer \/ RetainPrefix \/ RereadPrefix \/ HandoffBlobs
  \/ HandoffReadback \/ HandoffReturn \/ CompleteOpen \/ CompleteWrite \/ CompleteReread \/ CompleteReturn
  \/ ProduceClose

=============================================================================
