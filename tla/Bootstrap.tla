------------------------------ MODULE Bootstrap ------------------------------
(* The cache bootstrap of scripts/run-hosted-cache-bootstrap.py as a whole:   *)
(* 18 stages in seven processes, from prepare-originals to after-probe, under *)
(* one job clock.  An original may be replaced, the job cancelled, an         *)
(* operation raise and a fence expire at any step of any stage.               *)
EXTENDS BootstrapCollection
-----------------------------------------------------------------------------
(* Stages 12 to 14 of the bootstrap, the last of the producing process:       *)
(* export and save set (drive, with hosted_cache_bootstrap_export.py and      *)
(* hosted_cache_bootstrap_save_set.py) and the handoff of everything a later  *)
(* process needs (handoff and complete in _bootstrap_export_controls).        *)

\* handoff_records: the blobs the save index binds by hash.
Package == {"blobs", "save-handoff", "producer-return"}

\* drive: run the previous stage, then window, FileOwner and handlers.
DriveOpen == at.stage \in {12, 13} /\ Step("start", "leaf", "closing", Live(FALSE), {}, {}, {})

\* export_snapshot: the state and the staging, then every selected file is
\* copied from the Gradle home into the stage.
ExportSnapshot ==
  In(12) /\ Step("leaf", "leaf-closing", "leaf-closing", Live(FALSE),
                 {"canonical", "init-context", "staging"}, {"exported"}, {"leaf"})

\* before_save: the stage is enumerated and hashed against the export.
BeforeSave ==
  In(13) /\ Step("leaf", "leaf-closing", "leaf-closing", Live(FALSE), {"staging", "exported"}, {}, {"leaf"})

\* The parent insists that the leaf closed all it acquired.
DriveLeafClose == at.stage \in {12, 13} /\ LeafClose("leaf-closing", "closing")

DriveClose == at.stage \in {12, 13} /\ CloseOwner("closing", "closed")

\* cancel and sample around the encoding of the result.
DriveReturn == \E s \in {12, 13} : Publish("closed", s, InTime, Opened(Clean, 0))

-----------------------------------------------------------------------------
(* Stage 14: one window, two owners.                                          *)

\* handoff: every blob is written and read back, then the index.
SaveHandoffWrite ==
  In(14) /\ Step("start", "readback", "closing", Live(FALSE), {}, {"blobs", "save-handoff"}, {"directories"})

SaveHandoffRead ==
  In(14) /\ Step("readback", "closing", "closing", Live(FALSE), {"blobs", "save-handoff"}, {}, {})

SaveHandoffClose == In(14) /\ CloseOwner("closing", "closed")

\* complete: claimed once, a second owner in the same window.
CompleteOpen == In(14) /\ Reopen("closed", "complete", [own EXCEPT !.closed = FALSE])

CompleteWrite ==
  In(14) /\ Step("complete", "complete-read", "complete-closing", Live(FALSE), {"save-handoff"},
                 {"producer-return"}, {"directories"})

CompleteRead ==
  In(14) /\ Step("complete-read", "complete-closing", "complete-closing", Live(FALSE),
                 {"save-handoff", "producer-return"}, {}, {})

CompleteClose == In(14) /\ CloseOwner("complete-closing", "complete-closed")

CompleteReturn == Publish("complete-closed", 14, InTime, Opened(Work, 0))

SaveNext ==
  \/ DriveOpen \/ ExportSnapshot \/ BeforeSave \/ DriveLeafClose \/ DriveClose \/ DriveReturn
  \/ SaveHandoffWrite \/ SaveHandoffRead \/ SaveHandoffClose
  \/ CompleteOpen \/ CompleteWrite \/ CompleteRead \/ CompleteClose \/ CompleteReturn

-----------------------------------------------------------------------------
(* The processes around the cache provider, stages 15 to 18: prepare_save,    *)
(* after_save_originals, prepare_probe and after_probe_originals.  Between    *)
(* them the workflow runs the provider (hosted_cache_provider_supervisor.py)  *)
(* and leaves its action records beside the preparation.  A process knows its *)
(* predecessors only by their records and the hashes the workflow passes.     *)
\* What every command re-reads from the producer: _read_save_handoff,
\* _producer_return_record, the service responses and the bound staging.
Referenced == Package \cup {"responses", "staging"}

Command(s) == at.stage = s

\* What the command additionally takes from its predecessors.
Inherits(s) ==
  Referenced
    \cup (IF s >= 16 THEN {"save-preparation"} ELSE {})
    \cup (IF s = 16 THEN {"save-action", "init-context", "canonical"} ELSE {})
    \cup (IF s >= 17 THEN {"after-save-return", "save-retained", "save-observations"} ELSE {})
    \cup (IF s = 18 THEN {"probe-preparation", "probe-action"} ELSE {})

Suffix(s, f) ==
  CASE s = 15 -> IF f = "admission" THEN "save-admission" ELSE "save-final-admission"
    [] s = 16 -> IF f = "admission" THEN "after-admission" ELSE "after-final-admission"
    [] s = 17 -> IF f = "admission" THEN "probe-admission" ELSE "probe-final-admission"
    [] s = 18 -> IF f = "admission" THEN "result-admission" ELSE "result-final-admission"

\* The provider, in the window the preparation issued.  A failed provider step
\* ends the job: the next command requires its outcome to be success.
Provider(s, f) ==
  /\ at = [stage |-> s, pc |-> "start"]
  /\ \/ /\ now < own.work /\ Smooth
        /\ disk' = [disk EXCEPT !.written = @ \cup {f}]
        /\ at' = [at EXCEPT !.pc = "open"] /\ own' = Opened(Work, 0)
     \/ /\ IF now < own.work THEN Raised ELSE Smooth
        /\ at' = [at EXCEPT !.pc = "raised"] /\ UNCHANGED <<own, disk>>
  /\ UNCHANGED <<child, quarantine>> /\ Frame

ProviderSave == Provider(16, "save-action")
ProviderLookup == Provider(18, "probe-action")

CommandStart == at.stage \in {15, 17} /\ Step("start", "open", "closing", Live(FALSE), {}, {}, {})

\* environment, host, the predecessor's records by hash, the producer's return,
\* and a new directory for this command.
CommandOpen ==
  at.stage \in 15 .. 18 /\ Step("open", "admit", "failed", Live(FALSE), Inherits(at.stage), {}, {"directories"})

\* admit, then the whole package against the index.
CommandAdmit ==
  at.stage \in 15 .. 18
  /\ Step("admit", "package", "failed", Live(FALSE), {}, {Suffix(at.stage, "admission")}, {"directories"})

CommandPackage ==
  at.stage \in 15 .. 18
  /\ Step("package", "stage", "failed", Live(FALSE), Inherits(at.stage), {}, {"directories"})

\* The proposal shortens the fence; staging, plan and inventory are validated.
CommandStage ==
  at.stage \in 15 .. 18 /\ Step("stage", "final-admit", "failed", Live(FALSE), {"staging"}, {}, {"directories"})

CommandFinalAdmit ==
  at.stage \in 15 .. 18
  /\ Step("final-admit", "final", "failed", Live(FALSE), {}, {Suffix(at.stage, "final")}, {"directories"})

\* Every original once more before the preparation is issued.
PrepareSave ==
  Command(15) /\ Step("final", "closing", "failed", Live(FALSE), Referenced, {"save-preparation"}, {})

PrepareProbe ==
  Command(17) /\ Step("final", "closing", "closing", Live(FALSE), Inherits(17), {"probe-preparation"}, {})

AfterFinal == at.stage \in {16, 18} /\ Step("final", "closing", "closing", Live(FALSE), Inherits(at.stage), {}, {})

\* Only prepare_save retains a failure record.
CommandFailed ==
  \/ Command(15) /\ Retain("failed", "closing", "save-preparation-failure")
  \/ /\ at.stage \in 16 .. 18 /\ at.pc = "failed" /\ Smooth
     /\ at' = [at EXCEPT !.pc = "closing"]
     /\ UNCHANGED <<own, disk, child, quarantine>> /\ Frame

CommandClose == at.stage \in 15 .. 18 /\ CloseOwner("closing", "closed")

\* The provider's window is issued with the preparation.
PrepareReturn == \E s \in {15, 17} : Publish("closed", s, InTime, Opened(Work, Clean))

-----------------------------------------------------------------------------
(* after_save_originals after its readmission: three more owners.             *)

AfterLeafOpen == Command(16) /\ Reopen("closed", "leaf", Opened(Work, 0))

\* dependency_save_set.after_save: the saved set is hashed again.
AfterSave ==
  Command(16) /\ Step("leaf", "leaf-closing", "leaf-closing", Live(FALSE), {"staging", "exported"}, {}, {"leaf"})

AfterLeafClose ==
  \/ Command(16) /\ LeafClose("leaf-closing", "closing-2")
  \/ Command(16) /\ CloseOwner("closing-2", "closed-2")

ObservationOpen == Command(16) /\ Reopen("closed-2", "observe", Opened(Clean, 0))

\* provider_observation, the retained records and the observations.
SaveObservation ==
  Command(16) /\ Step("observe", "closing-3", "closing-3", Live(FALSE), {},
                      {"save-retained", "save-observations"}, {"directories"})

ObservationClose == Command(16) /\ CloseOwner("closing-3", "closed-3")

OwnerReturnOpen == Command(16) /\ Reopen("closed-3", "return", Opened(Clean, 0))

AfterSaveReturn ==
  Command(16) /\ Step("return", "closing-4", "closing-4", Live(FALSE), {"save-retained", "save-observations"},
                      {"after-save-return"}, {"directories"})

AfterSaveClose == Command(16) /\ CloseOwner("closing-4", "closed-4")

AfterReturn == Publish("closed-4", 16, InTime, Opened(Work, 0))

-----------------------------------------------------------------------------
(* after_probe_originals after its readmission: one more owner.               *)

ProbeResultOpen == Command(18) /\ Reopen("closed", "observe", Opened(Clean, 0))

\* The observation must be an exact hit; then the retained records and result.
ProbeResult ==
  Command(18) /\ Step("observe", "closing-2", "closing-2", Live(FALSE), {}, {"probe-result"}, {"directories"})

ProbeResultClose == Command(18) /\ CloseOwner("closing-2", "closed-2")

ProbeReturn == Publish("closed-2", 18, InTime, own)

CommandsNext ==
  \/ ProviderSave \/ ProviderLookup \/ CommandStart \/ CommandOpen \/ CommandAdmit \/ CommandPackage
  \/ CommandStage \/ CommandFinalAdmit \/ PrepareSave \/ PrepareProbe \/ AfterFinal \/ CommandFailed
  \/ CommandClose \/ PrepareReturn \/ AfterLeafOpen \/ AfterSave \/ AfterLeafClose
  \/ ObservationOpen \/ SaveObservation \/ ObservationClose \/ OwnerReturnOpen \/ AfterSaveReturn
  \/ AfterSaveClose \/ AfterReturn \/ ProbeResultOpen \/ ProbeResult \/ ProbeResultClose
  \/ ProbeReturn

-----------------------------------------------------------------------------
(* All stages. *)

Init == OwnerInit /\ at = [stage |-> 1, pc |-> "start"]

Done ==
  /\ at = [stage |-> 19, pc |-> "start"] /\ at' = [at EXCEPT !.pc = "done"]
  /\ UNCHANGED <<now, trouble, cancelled, own, disk, child, quarantine, published>>

\* The steps of the processes themselves, without their children.
ChildNext ==
  \/ In(1) /\ ServiceChild({"context", "admission"})
  \/ RecipientChild \/ InitializerChild \/ ProducerChild

Next ==
  \/ Tick \/ Cancel \/ \E f \in disk.written : Swap(f)
  \/ EntryNext \/ RecipientNext \/ StagingNext \/ ProducerNext
  \/ CollectionNext \/ SaveNext \/ CommandsNext
  \/ ChildNext \/ Done \/ Exited

Spec == Init /\ [][Next]_ownerVars

\* The processes run and time passes; the child, the cancellation and the
\* replacement of a record owe nobody anything.
ProcessNext ==
  \/ EntryNext \/ RecipientNext \/ StagingNext \/ ProducerNext
  \/ CollectionNext \/ SaveNext \/ CommandsNext \/ Done

FairSpec == Spec /\ WF_ownerVars(ProcessNext) /\ WF_ownerVars(Tick)

-----------------------------------------------------------------------------

\* The records stage s inherits and is answerable for.  Up to the collection
\* these are all the records of the stages before it, except the adoption
\* record (a log no stage reads) and, within staging, the records of the
\* earlier staging phases, which the producer reads.  The exporting stages
\* read the state they copy; the later processes know the package only.
Inherited(s) ==
  CASE s = 2 -> Prepared
    [] s = 3 -> EntryOriginals
    [] s = 4 -> Readmitted
    [] s = 5 -> Readmitted \cup RecipientChain
    [] s \in 6 .. 8 -> Readmitted \cup SequenceFiles
    [] s = 9 -> ProducerOriginals
    [] s = 10 -> CollectionOriginals
    [] s = 12 -> {"canonical", "init-context", "staging"}
    [] s = 13 -> {"staging", "exported"}
    [] s \in 15 .. 18 -> Inherits(s)
    [] OTHER -> {}

\* No stage returns a result over an original that was replaced before the
\* stage began (read_originals, _read_prepared, private_inputs, reread_files,
\* _read_save_handoff): the chain of originals has no gap between two stages.
NoStalePublication == \A s \in published : StaleSince(s) \cap Inherited(s) = {}

\* The bootstrap always ends: every wait is fenced, so neither a child that
\* never returns nor any failure of an operation or of the cleanup keeps a
\* process alive beyond the job (Owner.end, the poll loops, finish_native).
ProcessEnds == <>Ended

=============================================================================
