------------------------------- MODULE Custody -------------------------------
(* The custody of scripts/run-hosted-initial-recipient-custody.py as a whole: *)
(* collect-export, collect-close, seal-for-before, the receiving process with *)
(* its tail and the three processes of the upload, one after the other under  *)
(* the Window the first of them opened.                                       *)
EXTENDS HostedUpload

\* The evidence of a gate or of a worker is on disk when the custody starts.
Init ==
  /\ now = 0 /\ trouble = 0 /\ cancelled = FALSE /\ at = [stage |-> 1, pc |-> "start"]
  /\ own = Opened(Work, Clean)
  /\ disk \in {[written |-> w, swapped |-> {}] : w \in {GateOriginals, WorkerOriginals}}
  /\ child = NoChild /\ quarantine = FALSE /\ published = {}

\* The service child of whichever authority runs.
PhaseNext ==
  \/ PhaseEnter \/ PhaseSetup \/ PhaseStreams \/ PhaseSpawn \/ PhaseBirth \/ PhasePoll \/ PhaseDrain
  \/ PhaseCaptures \/ PhaseReceipt \/ PhaseLeave("read") \/ Abandon

ChildNext ==
  \/ AuthorityChild \/ CollectAuthorityChild \/ TailAuthorityChild \/ BeforeAuthorityChild
  \/ ValidateRecipient \/ CopyRecipient \/ FreezeCustodyCopy \/ ExportEncrypted
  \/ KMetadata \/ KValidate \/ KFreeze \/ KExport \/ KTerminal \/ KEnd

\* INPUT_LIMITS of hosted_initial_artifact_delivery.py, and the artifact.
UploadInputs == {"pending", "carrier-close", "k-context", "upload-output"}
UploadEnd == SealEnd + Clean

UploadNext ==
  \/ StreamNext(18, SealEnd, UploadEnd, UploadInputs)
  \/ FinishNext(19, UploadEnd, UploadInputs, "upload-pending")
  \/ AfterNext(20, UploadEnd, UploadEnd + Clean, UploadInputs, "upload-pending", "delivery-pending")

Done ==
  /\ at = [stage |-> 21, pc |-> "start"] /\ at' = [at EXCEPT !.pc = "done"]
  /\ UNCHANGED <<now, trouble, cancelled, own, disk, child, quarantine, published>>

Next ==
  \/ Tick \/ Cancel \/ \E f \in disk.written : Swap(f)
  \/ ExportNext \/ CloseNext \/ BeforeNext \/ TailNext \/ PhaseNext \/ ChildNext \/ UploadNext \/ Done \/ Exited

-----------------------------------------------------------------------------

\* The records stage s inherits from the stages before it and is answerable
\* for.  The authorities of stages 7, 10 and 13 rest on the input their own
\* process has just read.
Inherited(s) ==
  CASE s = 1 -> PrimarySources
    [] s = 3 -> {"authority-1"} \cup Copied
    [] s = 4 -> {"manifest"}
    [] s = 5 -> {"manifest", "carrier", "context"}
    [] s \in {6, 8} -> CollectInput
    [] s = 9 -> TailInput
    [] s = 11 -> TailInput \cup {"ciphertext"}
    [] s = 12 -> SealedInput
    [] s = 14 -> TailSources
    [] s = 15 -> CarrierSources
    [] s \in {18, 19} -> UploadInputs
    [] s = 20 -> UploadInputs \cup {"upload-pending"}
    [] OTHER -> {}

\* The end of the one original Window, which the first process opens at 0, that
\* holds for a stage; the upload's ends follow from the seal's.
EndOf(s) ==
  CASE s \in 1 .. 3 -> Least(Work + Clean, JobEnd)
    [] s \in 4 .. 8 -> Least(Work + Clean + Clean, JobEnd)
    [] s \in 9 .. 17 -> Least(Work + Clean + Clean + Clean, JobEnd)
    [] s = 19 -> own.old[2]
    [] s = 20 -> UploadEnd + Clean
    [] OTHER -> UploadEnd

=============================================================================
