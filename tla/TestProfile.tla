---------------------------- MODULE TestProfile -----------------------------
(* The operations of the controller between its phases, in the order of _run: *)
(* setup and product_run, collect, retire_simulator, retain_primary_abi, the  *)
(* supplements (Full.run), package_samples, export, the result and the close. *)
EXTENDS TestController

\* What follows a phase's return: o, when the row is good enough.
Returned(l) == ctl.op = l /\ ctl.pc = "ret"
Zero == ~ph.raised /\ ph.code = "zero"
After(l, o, ok, k) ==
  /\ Returned(l)
  /\ \/ ok /\ Smooth /\ Goto(o) /\ c' = k
     \/ ~ok /\ Smooth /\ Leave /\ c' = [c EXCEPT !.errors = TRUE]
     \/ ok /\ Raised /\ Leave /\ \E u \in BOOLEAN : c' = [c EXCEPT !.errors = TRUE, !.unknown = @ \/ u]
  /\ UNCHANGED <<ph, world>> /\ OpFrame

\* crypto_operation, crypto_return: a crypto child that was launched and did
\* not return a known result leaves its own resources unknown.
AfterCrypto(l, o, k) ==
  /\ Returned(l)
  /\ \/ Zero /\ Smooth /\ Goto(o) /\ c' = k
     \/ /\ IF Zero THEN Raised ELSE Smooth
        /\ Leave /\ c' = [c EXCEPT !.errors = TRUE, !.unknown = @ \/ ph.launched]
  /\ UNCHANGED <<ph, world>> /\ OpFrame

-----------------------------------------------------------------------------
(* setup and product_run.                                                     *)

\* prepare_identity: a new process adopts the preparation and the restore.
Adopt == Op("adopt", "seed-intent", FALSE, Originals({"receipts"}), c)

\* prepare_seed_intent: the stage, the inputs and the restore once more.
SeedIntent == Op("seed-intent", "recipient-validation", FALSE, Originals({"receipts"}), c)

ValidateReturn == AfterCrypto("recipient-validation", "audit-init", [c EXCEPT !.recipient = TRUE])
InitReturn == After("audit-init", IF Full THEN "sim-prepare" ELSE "seed", Zero, c)

\* admit_simulator selects a device.
SimPrepareReturn == After("sim-prepare", "seed", Zero, [c EXCEPT !.selected = TRUE])

\* seed_dependencies: the admitted of the restored files are copied, then their
\* receipt.
Seed == Op("seed", "seed-receipt", FALSE, TRUE, c)
SeedReceipt == Op("seed-receipt", "custody-prepare", FALSE, TRUE, [c EXCEPT !.seeded = TRUE])

PrepareReturn ==
  After("custody-prepare", IF Full THEN "sim-prelaunch" ELSE "product", Zero, [c EXCEPT !.request = TRUE])

\* prelaunch_record: the device is shut down before the product is launched.
PrelaunchReturn == After("sim-prelaunch", "product", Zero /\ child.seen = "Shutdown", c)

\* The exit code of the product is judged later.
ProductReturned ==
  /\ Returned("product") /\ Smooth
  /\ IF Full /\ ~c.unknown
     THEN Goto("authority") /\ c' = [c EXCEPT !.fail = IF ph.raised THEN "product" ELSE "no"]
     ELSE IF ph.raised THEN Leave /\ c' = [c EXCEPT !.errors = TRUE] ELSE Goto("collect") /\ UNCHANGED c
  /\ UNCHANGED <<ph, world>> /\ OpFrame

\* capture_simulator_authority: frozen after the known drain of a product that
\* was really created, before the collection can change anything.
Authority ==
  /\ ctl.op = "authority" /\ ctl.pc = "op"
  /\ \/ /\ Smooth /\ (~c.created \/ now < Return)
        /\ IF c.fail = "no" THEN Goto("collect") ELSE Leave
        /\ c' = [c EXCEPT !.authority = c.created, !.errors = @ \/ c.fail # "no"]
     \/ /\ c.created /\ (IF now < Return THEN Raised ELSE Smooth) /\ Leave
        /\ \E u \in BOOLEAN : c' = [c EXCEPT !.errors = TRUE, !.unknown = @ \/ u]
  /\ UNCHANGED <<ph, world>> /\ OpFrame

-----------------------------------------------------------------------------
(* collect: the collector and the removal of its loader, each once.           *)

AfterCollect == IF ctl.mode = "main" /\ ~Full THEN "package" ELSE "retire"

Collect ==
  /\ ctl.op = "collect" /\ ctl.pc = "op" /\ Smooth
  /\ \/ /\ ~c.request \/ c.unknown \/ ("collect" \in c.attempted /\ (c.custody = "none" \/ "uninstall" \in c.attempted))
        /\ Goto(AfterCollect) /\ UNCHANGED c
     \/ /\ c.request /\ ~c.unknown /\ "collect" \notin c.attempted
        /\ Goto("custody-collect") /\ c' = [c EXCEPT !.attempted = @ \cup {"collect"}]
     \/ /\ c.request /\ ~c.unknown /\ "collect" \in c.attempted /\ c.custody # "none" /\ "uninstall" \notin c.attempted
        /\ Goto("custody-uninstall") /\ c' = [c EXCEPT !.attempted = @ \cup {"uninstall"}]
  /\ UNCHANGED <<ph, world>> /\ OpFrame

\* A collector that reports an unknown retirement is the controller's unknown.
\* A result that cannot be read, a late reading and an unsupported exit are
\* known errors; the result may have been taken, and the second entry then
\* goes on with the removal.
CollectReturn ==
  /\ Returned("custody-collect")
  /\ LET result == IF ph.code = "zero" /\ world.product \in {"passed", "late"} THEN "RETAINED" ELSE "FAILED"
     IN \/ /\ ~ph.raised /\ now < Return /\ Smooth /\ Goto("custody-uninstall")
           /\ c' = [c EXCEPT !.attempted = @ \cup {"uninstall"}, !.custody = result]
        \/ /\ ~ph.raised /\ (IF now < Return THEN Raised ELSE Smooth) /\ Leave
           /\ \E u \in BOOLEAN, v \in {"none", result} :
                c' = [c EXCEPT !.errors = TRUE, !.unknown = @ \/ u, !.custody = v]
        \/ ph.raised /\ Smooth /\ Leave /\ c' = [c EXCEPT !.errors = TRUE]
  /\ UNCHANGED <<ph, world>> /\ OpFrame

UninstallReturn == After("custody-uninstall", AfterCollect, Zero, c)

-----------------------------------------------------------------------------
(* retire_simulator and finish_swift: before, shutdown, after.                *)

AfterRetire == IF ctl.mode = "main" THEN "barrier" ELSE "abi"

\* The inputs are verified, but damaged evidence does not keep the owner from
\* retiring what it launched.
Retire ==
  /\ ctl.op = "retire" /\ ctl.pc = "op"
  /\ \/ /\ ~Full \/ ~c.selected \/ "retire" \in c.attempted
        /\ Smooth /\ Goto(AfterRetire) /\ UNCHANGED c
     \/ /\ Full /\ c.selected /\ "retire" \notin c.attempted /\ Goto("sim-before")
        /\ LET k == [c EXCEPT !.attempted = @ \cup {"retire"}, !.terminal = "HOLD", !.after = FALSE]
           IN \/ Smooth /\ c' = [k EXCEPT !.fail = IF Check(TRUE) THEN "no" ELSE "finish", !.errors = @ \/ ~Check(TRUE)]
              \/ /\ Check(TRUE) /\ Raised
                 /\ \E u \in BOOLEAN : c' = [k EXCEPT !.fail = "finish", !.errors = TRUE, !.unknown = @ \/ u]
  /\ UNCHANGED <<ph, world>> /\ OpFrame

\* An observation or the shutdown failed: the terminal inventory is still
\* taken, unless a native owner is unknown.
Failed == [c EXCEPT !.fail = "finish", !.errors = TRUE]
Inventory(after, record) == Goto(IF c.unknown THEN record ELSE after)

\* A device that is not shut down is only shut down with the authority of a
\* launch of this controller.
BeforeReturn(before, shutdown, after, record) ==
  /\ Returned(before) /\ Smooth
  /\ \/ Zero /\ child.seen = "Shutdown" /\ Goto(after) /\ UNCHANGED c
     \/ Zero /\ child.seen # "Shutdown" /\ c.authority /\ Goto(shutdown) /\ UNCHANGED c
     \/ ~(Zero /\ (child.seen = "Shutdown" \/ c.authority)) /\ Inventory(after, record) /\ c' = Failed
  /\ UNCHANGED <<ph, world>> /\ OpFrame

ShutdownReturn(shutdown, after, record) ==
  /\ Returned(shutdown) /\ Smooth
  /\ IF Zero THEN Goto(after) /\ UNCHANGED c ELSE Inventory(after, record) /\ c' = Failed
  /\ UNCHANGED <<ph, world>> /\ OpFrame

AfterReturn(after, record) ==
  /\ Returned(after) /\ Smooth /\ Goto(record)
  /\ c' = IF Zero /\ child.seen = "Shutdown" THEN [c EXCEPT !.after = TRUE] ELSE Failed
  /\ UNCHANGED <<ph, world>> /\ OpFrame

\* Fault: a failed retirement is one more error.
RetireRecordKnown ==
  /\ ctl.op = "sim-record" /\ ctl.pc = "op" /\ Smooth
  /\ IF c.fail = "no" THEN Goto(AfterRetire) ELSE Leave
  /\ c' = [c EXCEPT !.terminal = IF c.fail = "no" THEN "KNOWN" ELSE "HOLD", !.errors = @ \/ c.fail # "no"]
  /\ UNCHANGED <<ph, world>> /\ OpFrame

\* retirement.json; whatever failed until here leaves the device unknown.
RetireRecord ==
  /\ ctl.op = "sim-record" /\ ctl.pc = "op"
  /\ \E bad \in BOOLEAN :
       /\ (c.fail # "no" \/ c.unknown \/ now >= Return) => bad
       /\ IF bad /\ c.fail = "no" /\ ~c.unknown /\ now < Return THEN Raised ELSE Smooth
       /\ IF bad THEN Leave /\ c' = [c EXCEPT !.unknown = TRUE, !.errors = TRUE]
          ELSE Goto(AfterRetire) /\ c' = [c EXCEPT !.terminal = "KNOWN"]
  /\ UNCHANGED <<ph, world>> /\ OpFrame

RetireNext ==
  \/ Retire \/ BeforeReturn("sim-before", "sim-shutdown", "sim-after", "sim-record")
  \/ ShutdownReturn("sim-shutdown", "sim-after", "sim-record") \/ AfterReturn("sim-after", "sim-record") \/ RetireRecord

-----------------------------------------------------------------------------
(* The primary barrier, the ABI and the supplements.                          *)

\* primary_barrier_passed
BarrierPassed ==
  /\ ~c.errors /\ ~cancelled /\ ~c.unknown /\ ~c.exhausted /\ c.active = "none"
  /\ {"collect", "uninstall", "retire"} \subseteq c.attempted
  /\ {"product", "custody-collect", "custody-uninstall"} \subseteq rows.clean
  /\ c.custody = "RETAINED" /\ c.terminal = "KNOWN"

Barrier == Op("barrier", "abi", FALSE, BarrierPassed, c)

\* retain_primary_abi: one attempt, latched before anything can fail.
Abi ==
  /\ ctl.op = "abi" /\ ctl.pc = "op" /\ Smooth
  /\ \/ /\ ctl.mode = "final" /\ (~Full \/ ~c.request \/ ~c.product \/ "abi" \in c.attempted)
        /\ Goto("freeze") /\ UNCHANGED c
     \/ /\ ctl.mode = "main" \/ (Full /\ c.request /\ c.product /\ "abi" \notin c.attempted)
        /\ Goto("abi-generated") /\ c' = [c EXCEPT !.attempted = @ \cup {"abi"}, !.abi = "HOLD"]
  /\ UNCHANGED <<ph, world>> /\ OpFrame

\* The generated files before the references of the source and the inputs of
\* the primary run; a late write of the record keeps the HOLD.
AbiGenerated == Op("abi-generated", "abi-references", ctl.mode = "final", TRUE, c)
AbiReferences == Op("abi-references", "abi-inputs", ctl.mode = "final", TRUE, c)
AbiInputs == Op("abi-inputs", "abi-record", ctl.mode = "final", TRUE, c)
AbiRecord ==
  Op("abi-record", IF ctl.mode = "main" THEN "supplement" ELSE "freeze", ctl.mode = "final", TRUE,
     [c EXCEPT !.abi = "PASS"])
AbiNext == Abi \/ AbiGenerated \/ AbiReferences \/ AbiInputs \/ AbiRecord

\* Full.run: the next scope starts under a clean controller only.
NextScope(p, o, k) == Op(p, o, FALSE, ~c.errors /\ c.active = "none", k)
Supplement == NextScope("supplement", "lock-policy", c)
LockPolicyReturn == After("lock-policy", "swift", Zero /\ Check(FALSE), [c EXCEPT !.completed = @ \cup {"lock-policy"}])

\* prepare_swift: the device is shut down again.
Swift == NextScope("swift", "swift-prelaunch", [c EXCEPT !.authority = FALSE])
SwiftPrelaunchReturn ==
  After("swift-prelaunch", "swift-ui", Zero /\ child.seen = "Shutdown", [c EXCEPT !.swift = "PENDING"])

SwiftReturn ==
  /\ Returned("swift-ui") /\ Smooth /\ Goto("swift-finish")
  /\ c' = [c EXCEPT !.fail = IF Zero THEN "no" ELSE "product"]
  /\ UNCHANGED <<ph, world>> /\ OpFrame

\* finish_swift, once: the authority of a launched and known phase.
SwiftFinish ==
  /\ ctl.op = "swift-finish" /\ ctl.pc = "op" /\ Goto("swift-before")
  /\ LET k == [c EXCEPT !.attempted = @ \cup {"swift"}, !.after = FALSE]
     IN \/ /\ Smooth
           /\ c' = IF Check(TRUE) THEN [k EXCEPT !.authority = ph.launched] ELSE [k EXCEPT !.fail = "finish"]
        \/ Check(TRUE) /\ Raised /\ \E u \in BOOLEAN : c' = [k EXCEPT !.fail = "finish", !.unknown = @ \/ u]
  /\ UNCHANGED <<ph, world>> /\ OpFrame

\* A device that is not known to be shut down is unknown; otherwise the
\* results are kept and, if nothing failed, inspected.
SwiftClose ==
  /\ ctl.op = "swift-close" /\ ctl.pc = "op"
  /\ \/ /\ (c.unknown \/ ~c.after) /\ Smooth /\ Leave
        /\ c' = [c EXCEPT !.unknown = TRUE, !.swift = "UNKNOWN", !.errors = TRUE]
     \/ /\ ~c.unknown /\ c.after /\ c.fail = "no" /\ c.authority /\ Check(FALSE) /\ Smooth
        /\ Goto("swift-results") /\ c' = [c EXCEPT !.swift = "KNOWN_SHUTDOWN"]
     \/ /\ ~c.unknown /\ c.after /\ Leave
        /\ IF c.fail = "no" /\ c.authority /\ Check(FALSE) THEN Raised ELSE Smooth
        /\ c' = [c EXCEPT !.swift = "HOLD", !.errors = TRUE]
  /\ UNCHANGED <<ph, world>> /\ OpFrame

\* The inspector's own return is required: without it its sinks are unknown.
\* With it a failed inspection, or cases that cannot be read, are known.
SwiftResultsReturn ==
  /\ Returned("swift-results")
  /\ LET good == Zero /\ Check(FALSE)
     IN \/ good /\ Smooth /\ Goto("central") /\ c' = [c EXCEPT !.completed = @ \cup {"swift-ui"}]
        \/ /\ Leave /\ IF good THEN Raised ELSE Smooth
           /\ c' \in {[c EXCEPT !.errors = TRUE, !.unknown = u \/ @] : u \in BOOLEAN}
           /\ (ph.code = "none" => c'.unknown)
  /\ UNCHANGED <<ph, world>> /\ OpFrame

SwiftNext ==
  \/ Swift \/ SwiftPrelaunchReturn \/ SwiftReturn \/ SwiftFinish
  \/ BeforeReturn("swift-before", "swift-shutdown", "swift-after", "swift-close")
  \/ ShutdownReturn("swift-shutdown", "swift-after", "swift-close") \/ AfterReturn("swift-after", "swift-close")
  \/ SwiftClose \/ SwiftResultsReturn

\* The bundle's tests create keys: raw evidence stays private from here on.
Central ==
  NextScope("central", "central-bundle", [c EXCEPT !.attempted = @ \cup {"central"}, !.central = "PENDING"])

\* finish_central: a known and clean return only; the helper prepares.
CentralReturn ==
  /\ Returned("central-bundle") /\ Smooth
  /\ IF ~c.unknown /\ "central-bundle" \in rows.all /\ ~ph.errs /\ now < Return
     THEN Goto("central-retire") /\ c' = [c EXCEPT !.fail = IF Zero THEN "no" ELSE "product"]
     ELSE Leave /\ c' = [c EXCEPT !.errors = TRUE]
  /\ UNCHANGED <<ph, world>> /\ OpFrame

CentralRetireReturn == After("central-retire", "screen", Zero, c)

\* The streams are screened twice for the keys, then work and homes removed;
\* the status changes after the last check only.
Screen ==
  /\ ctl.op = "screen" /\ ctl.pc = "op" /\ Leave
  /\ \/ /\ Check(TRUE) /\ Smooth /\ world' = [world EXCEPT !.keys = IF @ = "none" THEN @ ELSE "removed"]
        /\ c' = [c EXCEPT !.central = "SCREENED_AND_REMOVED", !.errors = @ \/ c.fail # "no" \/ ~Check(FALSE),
                          !.exhausted = Marked(FALSE),
                          !.completed = IF c.fail = "no" /\ Check(FALSE) THEN @ \cup {"central-bundle"} ELSE @]
     \/ /\ IF Check(TRUE) THEN Raised ELSE Smooth
        /\ c' = [c EXCEPT !.errors = TRUE]
        /\ world' \in {world, [world EXCEPT !.keys = IF @ = "none" THEN @ ELSE "removed"]}
  /\ UNCHANGED ph /\ OpFrame

-----------------------------------------------------------------------------
(* package_samples, export, the result and the close.                         *)

FullLabels == Labels \ {"job-time", "sim-shutdown", "swift-shutdown", "sample-packaging", "export"}
SampleLabels == {"recipient-validation", "audit-init", "custody-prepare", "product", "custody-collect",
                 "custody-uninstall"}

\* Fault: the profile is judged by the recorded errors.
PassedByErrors(packaged) == c.product /\ ~cancelled /\ ~c.unknown /\ ~c.errors

\* profile_passed: no label overrules what the phases really returned.
Passed(packaged) ==
  /\ c.product /\ ~cancelled /\ ~c.unknown /\ ~c.errors /\ ~c.exhausted /\ requests = <<>>
  /\ rows.all = rows.clean /\ c.custody = "RETAINED"
  /\ (IF Full THEN FullLabels ELSE SampleLabels) \subseteq rows.all
  /\ Full => /\ c.abi = "PASS" /\ c.completed = {"lock-policy", "swift-ui", "central-bundle"}
             /\ c.terminal = "KNOWN"
  /\ ~Full /\ packaged => c.samples = "PASS"

Package ==
  Op("package", "sample-packaging", TRUE,
     {"collect", "uninstall"} \subseteq c.attempted /\ Passed(FALSE) /\ ~cancelled,
     [c EXCEPT !.attempted = @ \cup {"samples"}])

\* The snapshot of the applications; a late write keeps the failure.
PackageReturn ==
  /\ Returned("sample-packaging") /\ Leave
  /\ LET live == Zero /\ Check(TRUE) /\ ~cancelled
     IN \/ live /\ Smooth /\ c' = [c EXCEPT !.samples = "PASS"]
        \/ (IF live THEN Raised ELSE Smooth) /\ c' = [c EXCEPT !.samples = "FAILED", !.errors = TRUE]
  /\ UNCHANGED <<ph, world>> /\ OpFrame

\* Fault: what was not screened is frozen with the rest.
FreezeUnscreened == Op("freeze", "export", TRUE, c.recipient /\ c.seeded, c)

\* export: a bundle that was attempted must have been screened and removed;
\* one that was not, as in any other profile, has left neither a record nor
\* anything of its own.
Freeze ==
  Op("freeze", "export", TRUE,
     /\ c.recipient /\ c.seeded
     /\ IF "central" \in c.attempted THEN c.central = "SCREENED_AND_REMOVED"
        ELSE "central-bundle" \notin rows.all /\ world.keys = "none", c)

\* The child's return and its output; then the frozen receipts against the
\* originals, and the frozen records of the packaging.
ExportReturn == AfterCrypto("export", "verify", c)
VerifyExport == Op("verify", "verify-packets", TRUE, TRUE, c)
VerifyPackets == Op("verify-packets", "verify-samples", TRUE, Originals({"receipts"}), c)
VerifySamples == Op("verify-samples", "result", TRUE, Originals({"package"}), [c EXCEPT !.encrypted = TRUE])

\* controller-result.json, then the close of every owner.
Result ==
  /\ ctl.op = "result" /\ ctl.pc = "op" /\ Goto("close")
  /\ LET live == Check(TRUE)
         value == IF c.encrypted /\ ~c.unknown THEN IF Passed(TRUE) THEN "passed" ELSE "ready" ELSE "hold"
     IN \/ live /\ Smooth /\ c' = [c EXCEPT !.result = value, !.signalled = cancelled]
        \/ (IF live THEN Raised ELSE Smooth) /\ c' = [c EXCEPT !.errors = TRUE]
  /\ UNCHANGED <<ph, world>> /\ OpFrame

\* The exit: the result read back equals the controller's state at the end.
Close ==
  /\ ctl.op = "close" /\ ctl.pc = "op" /\ ctl' = [ctl EXCEPT !.pc = "done"]
  /\ LET same == cancelled = c.signalled /\ c.result = IF Passed(TRUE) THEN "passed" ELSE "ready"
     IN \/ /\ Smooth
           /\ c' = [c EXCEPT !.exit = IF ~c.unknown /\ same /\ c.encrypted /\ now < Return THEN "zero" ELSE "hold"]
        \/ ~c.unknown /\ Raised /\ c' = [c EXCEPT !.unknown = TRUE, !.errors = TRUE, !.exit = "hold"]
  /\ UNCHANGED <<ph, world>> /\ OpFrame

ProfileNext ==
  \/ Adopt \/ SeedIntent \/ Seed \/ SeedReceipt \/ ValidateReturn \/ InitReturn \/ SimPrepareReturn \/ PrepareReturn \/ PrelaunchReturn \/ ProductReturned
  \/ Authority \/ Collect \/ CollectReturn \/ UninstallReturn \/ RetireNext \/ Barrier \/ AbiNext
  \/ Supplement \/ LockPolicyReturn \/ SwiftNext \/ Central \/ CentralReturn \/ CentralRetireReturn \/ Screen
  \/ Package \/ PackageReturn \/ Freeze \/ ExportReturn \/ VerifyExport \/ VerifyPackets \/ VerifySamples
  \/ Result \/ Close

=============================================================================
