---------------------------- MODULE TestDelivery ----------------------------
(* What follows a controller that returned for its seal, each step a process  *)
(* of its own that reads all originals again: the seal (_validate_public),    *)
(* the guards before and after the upload of the encrypted evidence           *)
(* (_full_upload_guard, _desktop_upload_guard), the package guard, the guards *)
(* around the two sample uploads and the guard of the whole sample delivery.  *)
(* The uploads themselves are actions of the workflow between the guards.     *)
EXTENDS TestProfile

VARIABLE dl  \* delivery: [step, sealed, uploaded, complete, end]

testVars == <<controllerVars, dl>>

DeliveryInit ==
  dl = [step |-> "seal", sealed |-> "none", uploaded |-> {}, complete |-> {}, end |-> Delivery]

Following(s) ==
  CASE s = "seal" -> "seal-inputs"
    [] s = "seal-inputs" -> "seal-phases"
    [] s = "seal-phases" -> "seal-packets"
    [] s = "seal-packets" -> IF Full THEN "seal-full" ELSE "seal-write"
    [] s = "seal-full" -> "seal-write"
    [] s = "seal-write" -> "seal-again"
    [] s = "seal-again" -> "evidence-before"
    [] s = "evidence-before" -> "evidence-upload"
    [] s = "evidence-upload" -> "evidence-after"
    [] s = "evidence-after" -> IF ~Full /\ dl.sealed = "passed" THEN "package" ELSE "delivered"
    [] s = "package" -> "desktop-before"
    [] s = "desktop-before" -> "desktop-upload"
    [] s = "desktop-upload" -> "desktop-after"
    [] s = "desktop-after" -> "android-before"
    [] s = "android-before" -> "android-upload"
    [] s = "android-upload" -> "android-after"
    [] s = "android-after" -> "sample-delivery"
    [] s = "sample-delivery" -> "delivered"

Open == c.exit = "zero" /\ dl.step \notin {"delivered", "stopped"}

DeliveryFrame == UNCHANGED <<now, cancelled, ctl, c, ph, rows, child, requests, world>>

\* A step: in time and over originals it goes on with d, otherwise it stops
\* the delivery.  A failure of its owner or a signal of its own stops it as
\* well; what the controller was told does not.
Guard(s, live, originals, d) ==
  /\ Open /\ dl.step = s
  /\ LET ok == live /\ Originals(originals)
     IN \/ ok /\ Smooth /\ dl' = [d EXCEPT !.step = Following(s)]
        \/ (IF ok THEN Raised ELSE Smooth) /\ dl' = [dl EXCEPT !.step = "stopped"]
  /\ DeliveryFrame

\* The seal: the result and the context under their own interval.
Seal == Guard("seal", now < Delivery, {"records"}, dl)

\* The budget, the admission, the export's return and its manifest.
SealInputs == Guard("seal-inputs", now < Delivery, {"records", "packet"}, dl)

\* verify_phase_bindings: every recorded phase against its files.
SealPhases == Guard("seal-phases", now < Delivery, {"records"}, dl)

\* The frozen receipts of seed and cache, and the frozen records of the
\* packaging, against the originals.
SealPackets == Guard("seal-packets", now < Delivery, {"receipts", "package"}, dl)

\* The supplements, the simulator and the ABI of a full profile.
SealFull == Guard("seal-full", now < Delivery, {"records"}, dl)

\* The profile's result is recomputed from the records.
SealWrite == Guard("seal-write", now < Delivery, {}, [dl EXCEPT !.sealed = c.result])

\* The result, the manifest and the packets once more, then the outputs of the
\* step.
SealAgain == Guard("seal-again", now < Delivery, {"records", "receipts", "package"}, dl)

\* The sealed manifest and the bytes of the artifact; the upload's interval.
EvidenceBefore ==
  Guard("evidence-before", now < Delivery, {"records", "packet"},
        [dl EXCEPT !.end = IF now + Upload < Delivery THEN now + Upload ELSE Delivery])

\* The steps of an upload, by what it delivers.
Before == [evidence |-> "evidence-before", desktop |-> "desktop-before", android |-> "android-before"]
Uploading == [evidence |-> "evidence-upload", desktop |-> "desktop-upload", android |-> "android-upload"]
Afterwards == [evidence |-> "evidence-after", desktop |-> "desktop-after", android |-> "android-after"]

\* The upload action takes what is there.
UploadAction(k, f) ==
  /\ Open /\ dl.step = Uploading[k] /\ Smooth
  /\ dl' = [dl EXCEPT !.step = Following(@), !.uploaded = @ \cup {<<k, ~Originals({f})>>}]
  /\ DeliveryFrame

\* Fault: the guard after the upload trusts the guard before it.
EvidenceAfterTrusting ==
  Guard("evidence-after", now < dl.end, {"records"}, [dl EXCEPT !.complete = @ \cup {"evidence"}])

\* The original before record, its interval and the bytes once more.
EvidenceAfter ==
  Guard("evidence-after", now < dl.end, {"records", "packet"}, [dl EXCEPT !.complete = @ \cup {"evidence"}])

\* package_samples_guard: a passed profile whose evidence was delivered, the
\* records of the packaging and the snapshot of the applications.
PackageGuard ==
  Guard("package", now < Delivery /\ "evidence" \in dl.complete /\ dl.sealed = "passed", {"records", "package", "apps"}, dl)

\* One window for both platforms, opened by the first.
SampleBefore(k) ==
  Guard(Before[k], now < (IF k = "android" THEN dl.end ELSE Delivery), {"records", "package", "apps"},
        IF k = "desktop" THEN [dl EXCEPT !.end = IF now + Upload < Delivery THEN now + Upload ELSE Delivery] ELSE dl)

SampleAfter(k) ==
  Guard(Afterwards[k], now < dl.end, {"records", "package", "apps"}, [dl EXCEPT !.complete = @ \cup {k}])

\* Only one of the hosts has applications for Android; elsewhere the workflow
\* skips the three steps.
AndroidSkipped ==
  /\ Open /\ dl.step = "android-before" /\ Smooth /\ dl' = [dl EXCEPT !.step = "sample-delivery"] /\ DeliveryFrame

\* sample_delivery_guard: the records of both uploads, not their bytes.
SampleDelivery == Guard("sample-delivery", now < Delivery, {"records", "package"}, dl)

DeliveryNext ==
  \/ Seal \/ SealInputs \/ SealPhases \/ SealPackets \/ SealFull \/ SealWrite \/ SealAgain
  \/ EvidenceBefore \/ EvidenceAfter \/ PackageGuard \/ UploadAction("evidence", "packet")
  \/ AndroidSkipped \/ SampleDelivery
  \/ \E k \in {"desktop", "android"} : SampleBefore(k) \/ UploadAction(k, "apps") \/ SampleAfter(k)

-----------------------------------------------------------------------------

Init == ControllerInit /\ DeliveryInit

Finished ==
  /\ c.exit = "hold" \/ (c.exit = "zero" /\ dl.step \in {"delivered", "stopped"})
  /\ UNCHANGED testVars

Next ==
  \/ /\ \/ Tick \/ Signal \/ ForeignBoot \/ ChildActs \/ ChildReturns \/ PhaseNext \/ RestoreNext \/ ProfileNext
        \/ \E f \in {"receipts", "records", "packet", "package", "apps"} : Replace(f)
     /\ UNCHANGED dl
  \/ DeliveryNext
  \/ Finished

Spec == Init /\ [][Next]_testVars

-----------------------------------------------------------------------------

\* A device that a child of the controller booted is shut down again before
\* the controller returns, or its return says that it does not know: however
\* the product, the observations and the shutdown itself ended, and although
\* the retirement is attempted once only (retire_simulator, finish_swift).
DeviceRetired == c.exit # "none" /\ world.device = "Booted" /\ world.by = "own" => c.unknown

\* A result that says "passed" is true of the machine: the product returned
\* zero before the cutoff, its loader is gone, its keys are removed and its
\* device is shut down (profile_passed, _run).
PassTruthful ==
  c.exit = "zero" /\ c.result = "passed" =>
    world.product = "passed" /\ ~world.loader /\ world.keys # "present" /\ world.by # "own"

\* Nothing is exported while signing keys of the bundle tests may be among it
\* (Full.freeze, finish_central).
KeysNeverExported == "export" \in rows.all => world.keys # "present"

\* A canonical child is asked to cancel at most once, never after its return
\* was consumed, and one that is killed after the controller saw the cutoff
\* in its phase has been asked before (check_phase_budget, phase).
RequestFenced ==
  [][/\ requests' # requests => child.st # "consumed" /\ \A i \in 1 .. Len(requests) : requests[i] # ctl.op
     /\ child.st = "running" /\ child'.st = "killed" /\ ctl.op \in Canonical /\ c.exhausted =>
          \E i \in 1 .. Len(requests) : requests[i] = ctl.op]_testVars

\* What is reported delivered are the originals: the encrypted evidence, whose
\* receipts of restore and seeding nobody replaced before the controller
\* returned, then applications of a passed profile only (_validate_public and
\* the upload guards).  A delivery that ends well reports all it uploaded
\* (sample_delivery_guard).
CompleteTruthful ==
  /\ \A k \in dl.complete :
       /\ <<k, FALSE>> \in dl.uploaded /\ <<"receipts", "none">> \notin world.swapped
       /\ (k # "evidence" => "evidence" \in dl.complete /\ dl.sealed = "passed")
  /\ dl.step = "delivered" => \A u \in dl.uploaded : u[1] \in dl.complete

=============================================================================
