--------------------------- MODULE ProductiveSteps ---------------------------
(* prepare_save, after_save, prepare_probe and after_probe of                 *)
(* scripts/hosted_initial_recipient_productive_adapter.py.  Each is a process *)
(* of its own that knows the production only through the handoff on disk and  *)
(* the digests the workflow handed on.  Between a preparation and the step    *)
(* after it the provider's action runs.                                       *)
EXTENDS ProductiveProduce

Processes == {31, 32, 36, 37}
InStep == at.stage \in Processes /\ ~InUse
Preparing == at.stage \in {31, 36}
Saving == at.stage \in {31, 32}

\* _new_phase without a proposal: the process has only its own first reading.
StepArrive ==
  \E s \in Processes :
    BeginPhase(s, "handoff", LET end == Least(now + Work, JobEnd)
                             IN [Opened(0, 0) EXCEPT !.work = end, !.final = end, !.read = end])

SStep(p, q, rd, wr, tk) == InStep /\ Step(p, q, "closing", Live(FALSE), rd, wr, tk)

-----------------------------------------------------------------------------
(* read_productive_handoff.                                                   *)

\* save-handoff.json against its digest, and the proposal it names.
ReadProposal == SStep("handoff", "shorten", {"save-handoff"}, {}, {"directories"})

\* _shorten: the retained fences may only take time away, and do so before
\* anything else is read.
Shorten ==
  /\ InStep /\ at.pc = "shorten" /\ Smooth
  /\ LET end == Least(own.work, Fence(at.stage)) IN
     IF Live(FALSE) /\ now < end
       THEN /\ at' = [at EXCEPT !.pc = "blobs"]
            /\ own' = [own EXCEPT !.work = end, !.final = end, !.read = end]
       ELSE /\ at' = [at EXCEPT !.pc = "closing"] /\ own' = [own EXCEPT !.failed = TRUE]
  /\ UNCHANGED <<disk, child, quarantine>> /\ Frame

\* handoff_record and producer_return_record over the 31 blobs.
HandoffFiles == Handoff \cup {"producer-return", "primary-originals"}
ReadBlobs == SStep("blobs", "graph", HandoffFiles, {}, {})

\* _read_prefix_retention, the originals of every phase, _read_use of every
\* site and _productive_history, which ties them to each other.
GraphFiles == {"prefix", "phase-pendings", "native-result", "productive-uses"}
ReadGraph == SStep("graph", "target", GraphFiles, {}, {"files"})

\* A new directory for what this step retains.
StepTarget == SStep("target", "begin-use", {}, {}, {"directories"})

-----------------------------------------------------------------------------
(* The two uses and what lies between them.                                   *)

BeginUse == InStep /\ UseOpen("begin-use", "rederive")

\* _rederive_inputs: the plan, the inventory and the observation are derived
\* again from the originals for the identity just acquired.
DerivedFiles == {"staging", "canonical-evidence", "collection"}
Rederive == SStep("rederive", "history", HandoffFiles \cup DerivedFiles, {}, {"files"})

\* _after_save_history for the second preparation; _read_preparation, with the
\* private chain of the process that wrote it, for a step after an action.
HistoryFiles ==
  CASE at.stage = 31 -> {}
    [] at.stage = 32 -> {"save-preparation", "save-chain"}
    [] at.stage = 36 -> {"after-save-return", "save-observations", "save-preparation", "save-action"}
    [] at.stage = 37 -> {"probe-preparation", "probe-chain"}
ReadHistory == SStep("history", "action", HistoryFiles, {}, {})

\* _action_originals and _provider_originals: what the action retained.
ActionFiles == IF Preparing THEN {} ELSE IF Saving THEN {"save-action"} ELSE {"probe-action"}
ReadAction == SStep("action", "final-use", ActionFiles, {}, {})

FinalUse == InStep /\ UseOpen("final-use", "recheck")

\* recheck_provider_inputs: every file read so far, again.
AllFiles == HandoffFiles \cup GraphFiles \cup DerivedFiles \cup HistoryFiles \cup ActionFiles
Recheck == SStep("recheck", "chain", AllFiles, {}, {})

ChainFile == IF Saving THEN "save-chain" ELSE "probe-chain"

\* _write_private_chain: both uses, in order.
WriteChain == SStep("chain", IF Preparing THEN "prepare" ELSE "closing", {}, {ChainFile}, {})

\* The preparation with the provider's window, then everything once more.
Preparation == IF Saving THEN "save-preparation" ELSE "probe-preparation"
WritePreparation == SStep("prepare", "recheck-again", {}, {Preparation}, {})
RecheckAgain == SStep("recheck-again", "closing", AllFiles \cup {ChainFile, Preparation}, {}, {})

\* _step_finish and _step_output: a known close, in time, is published.
StepReturn == \E s \in Processes : Publish("closed", s, InTime, SameWindow)

\* The provider's action runs in a window that ends with the fence, after the
\* preparation and before the next step.
ProviderActs ==
  /\ at.pc = "start" /\ at.stage \in {32, 37} /\ now < Fence(at.stage) /\ Smooth
  /\ disk' = [disk EXCEPT !.written = @ \cup ActionFiles]
  /\ UNCHANGED <<at, own, child, quarantine>> /\ Frame

-----------------------------------------------------------------------------
(* The later phases of a step: 33 to 35 after the save, 38 after the probe.   *)

Later == {33, 34, 35, 38}
LStep(p, q, rd, wr, tk) == at.stage \in Later /\ Step(p, q, "closing", Live(FALSE), rd, wr, tk)

LaterBegin == \E s \in Later : BeginPhase(s, "artifacts", SinglePhase)

\* _reread_artifacts of the phases before, _reread_action_files.
Artifacts ==
  CASE at.stage = 33 -> {"save-chain"}
    [] at.stage = 34 -> {"save-chain", "after-leaf", "save-preparation", "save-action"}
    [] at.stage = 35 -> {"save-chain", "after-leaf", "save-observations"}
    [] at.stage = 38 -> {"probe-chain", "probe-preparation", "probe-action"}
RereadArtifacts == LStep("artifacts", "observe", Artifacts, {}, {"directories"})

\* save-set-after compares the save set with the one before the save; the
\* others retain what the provider returned and close the step.
LaterReads == IF In(33) THEN {"export", "save-set"} ELSE {}
LaterWrites ==
  CASE at.stage = 33 -> {"after-leaf"}
    [] at.stage = 34 -> {"save-observations"}
    [] at.stage = 35 -> {"after-save-return"}
    [] at.stage = 38 -> {"probe-result"}
Observe == LStep("observe", "closing", LaterReads, LaterWrites, {})

LaterReturn == \E s \in Later : Publish("closed", s, InTime, SameWindow)

StepClose == at.stage \in 31 .. 38 /\ ~InUse /\ CloseOwner("closing", "closed")

StepsNext ==
  \/ StepArrive \/ ReadProposal \/ Shorten \/ ReadBlobs \/ ReadGraph \/ StepTarget \/ BeginUse \/ Rederive
  \/ ReadHistory \/ ReadAction \/ FinalUse \/ Recheck \/ WriteChain \/ WritePreparation \/ RecheckAgain
  \/ StepReturn \/ ProviderActs \/ LaterBegin \/ RereadArtifacts \/ Observe \/ LaterReturn \/ StepClose

=============================================================================
