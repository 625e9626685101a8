--------------------------- MODULE TestController ---------------------------
(* The controller of scripts/run-hosted-test-custody.py and the supplements   *)
(* of scripts/hosted_full_supplements.py.  _run prepares, runs the product    *)
(* under an audit owner, collects its custody, retires the simulator, retains *)
(* the ABI, runs the supplements and, however that ended, collects, retires   *)
(* and exports once more: each of those acts once, whoever comes first.  All  *)
(* native work goes through one function, phase.  The labels of the phases    *)
(* keep the code's names; of the eleven supplements the two with a retirement *)
(* of their own and one of the plain ones are told apart.                     *)
EXTENDS Naturals, Sequences

CONSTANTS
  Productive,     \* the productive cutoff
  ProductReturn,  \* the end of the cooperative slot after it
  Return,         \* the end of the controller's return
  Delivery,       \* the end of the delivery, the last instant
  Upload,         \* an upload's interval, in ticks
  MaxTrouble,     \* bound: failed operations, exits, signals, foreign boots
  Profiles        \* "full", or "samples": desktop with sample packaging

ASSUME FenceAssumption ==
  /\ Productive \in Nat /\ ProductReturn \in Nat /\ Return \in Nat /\ Delivery \in Nat /\ Upload \in Nat
  /\ MaxTrouble \in Nat /\ Return < Delivery /\ 0 < Upload
  /\ 0 < Productive /\ Productive < ProductReturn /\ ProductReturn < Return

VARIABLES
  now,       \* the job's monotonic clock
  trouble,   \* troubles so far
  cancelled, \* a signal was received
  ctl,       \* control: [profile, mode, op, pc]
  c,         \* the Controller
  ph,        \* locals of phase: [raised, code, scope, launched, asked, late, errs]
  rows,      \* the records: [all, clean], sets of labels
  child,     \* the native child: [st, code, seen]
  requests,  \* the canonical children that were asked to cancel, in order
  world      \* what children leave: [device, by, keys, loader, product, swapped]

controllerVars == <<now, trouble, cancelled, ctl, c, ph, rows, child, requests, world>>

Finalizing == {"custody-collect", "custody-uninstall", "sim-before", "sim-shutdown", "sim-after", "swift-before",
               "swift-shutdown", "swift-after", "central-retire", "sample-packaging", "export"}
Canonical == {"product", "lock-policy", "swift-ui", "central-bundle"}
Preparing == {"job-time", "recipient-validation", "audit-init", "sim-prepare", "custody-prepare", "sim-prelaunch",
              "swift-prelaunch", "swift-results"}
Labels == Finalizing \cup Canonical \cup Preparing

Full == ctl.profile = "full"
Fin == ctl.op \in Finalizing

\* FULL_STAGE: the fence of a phase's work.
WorkEnd(l) ==
  CASE l \in Preparing -> Productive
    [] l \in Canonical -> ProductReturn
    [] OTHER -> Return

NoPhase == [raised |-> FALSE, code |-> "none", scope |-> FALSE, launched |-> FALSE, asked |-> FALSE, late |-> FALSE,
            errs |-> FALSE]
NoChild == [st |-> "none", code |-> "none", seen |-> "none"]

ControllerInit ==
  /\ now = 0 /\ trouble = 0 /\ cancelled = FALSE
  /\ \E p \in Profiles : ctl = [profile |-> p, mode |-> "restore", op |-> "identity", pc |-> "op"]
  /\ c = [errors |-> FALSE, unknown |-> FALSE, exhausted |-> FALSE, active |-> "none", request |-> FALSE,
          recipient |-> FALSE, seeded |-> FALSE, product |-> FALSE, created |-> FALSE, custody |-> "none",
          selected |-> FALSE, authority |-> FALSE, after |-> FALSE, terminal |-> "none", fail |-> "no", abi |-> "none",
          completed |-> {}, swift |-> "NOT_REACHED", central |-> "NOT_REACHED", samples |-> "none",
          encrypted |-> FALSE, attempted |-> {}, result |-> "none", signalled |-> FALSE, exit |-> "none"]
  /\ ph = NoPhase /\ rows = [all |-> {}, clean |-> {}] /\ child = NoChild /\ requests = <<>>
  /\ world = [device |-> "Shutdown", by |-> "none", keys |-> "none", loader |-> FALSE, product |-> "none",
              swapped |-> {}]

Smooth == trouble' = trouble
Raised == trouble < MaxTrouble /\ trouble' = trouble + 1

-----------------------------------------------------------------------------
(* The environment.                                                           *)

Tick ==
  /\ c.exit # "hold" /\ now < Delivery /\ now' = now + 1
  /\ UNCHANGED <<trouble, cancelled, ctl, c, ph, rows, child, requests, world>>

\* The handler appends the signal; nothing else happens in it.
Signal ==
  /\ c.exit = "none" /\ ~cancelled /\ Raised /\ cancelled' = TRUE
  /\ UNCHANGED <<now, ctl, c, ph, rows, child, requests, world>>

\* A user of the machine boots the device.
ForeignBoot ==
  /\ c.exit = "none" /\ Full /\ world.device = "Shutdown" /\ Raised
  /\ world' = [world EXCEPT !.device = "Booted", !.by = "other"]
  /\ UNCHANGED <<now, cancelled, ctl, c, ph, rows, child, requests>>

\* Retained originals are no longer what was retained: the receipts of the
\* restore and the seeding, the records of the packaging, the packaged
\* applications, the records of the controller or the encrypted packet.  The
\* restored files themselves are never opened again once they were seeded.
Exists(f) ==
  CASE f = "receipts" -> ctl.mode # "restore"
    [] f \in {"package", "apps"} -> c.samples = "PASS"
    [] OTHER -> c.encrypted

Replace(f) ==
  /\ c.exit # "hold" /\ Exists(f) /\ Raised
  /\ \A s \in world.swapped : s[1] # f
  /\ world' = [world EXCEPT !.swapped = @ \cup {<<f, c.exit>>}]
  /\ UNCHANGED <<now, cancelled, ctl, c, ph, rows, child, requests>>

Originals(fs) == \A s \in world.swapped : s[1] \notin fs

\* The product and the Swift tests boot the device, the bundle's tests create
\* signing keys, custody-prepare installs a loader.
ChildActs ==
  /\ child.st = "running" /\ Smooth
  /\ \/ /\ ctl.op \in {"product", "swift-ui"} /\ Full /\ world.device = "Shutdown"
        /\ world' = [world EXCEPT !.device = "Booted", !.by = "own"]
     \/ ctl.op = "central-bundle" /\ world.keys = "none" /\ world' = [world EXCEPT !.keys = "present"]
     \/ ctl.op = "custody-prepare" /\ ~world.loader /\ world' = [world EXCEPT !.loader = TRUE]
  /\ UNCHANGED <<now, cancelled, ctl, c, ph, rows, child, requests>>

\* A child returns; one that was asked to cancel returns with an error.
ChildReturns ==
  /\ child.st = "running"
  /\ ctl.op = "custody-prepare" => world.loader
  /\ \E ok \in BOOLEAN :
       /\ IF ok \/ ph.asked THEN Smooth ELSE Raised
       /\ ph.asked => ~ok
       /\ child' = [st |-> "returned", code |-> IF ok THEN "zero" ELSE "nonzero", seen |-> world.device]
       /\ world' =
            CASE ok /\ ctl.op \in {"sim-shutdown", "swift-shutdown"} ->
                   [world EXCEPT !.device = "Shutdown", !.by = "none"]
              [] ok /\ ctl.op = "custody-uninstall" -> [world EXCEPT !.loader = FALSE]
              [] ctl.op = "product" ->
                   [world EXCEPT !.product = IF ~ok THEN "failed" ELSE IF now < Productive THEN "passed" ELSE "late"]
              [] OTHER -> world
  /\ UNCHANGED <<now, cancelled, ctl, c, ph, rows, requests>>

-----------------------------------------------------------------------------
(* check, the errors and the control around the operations.                   *)

\* check: an admission after the cutoff marks the budget as exhausted.
Check(fin) ==
  /\ ~c.unknown /\ now < Return
  /\ fin \/ (now < Productive /\ ~c.exhausted /\ ~cancelled)
Marked(fin) == c.exhausted \/ (~fin /\ ~c.unknown /\ now >= Productive /\ now < Return)

Goto(o) == ctl' = [ctl EXCEPT !.op = o, !.pc = "op"]

\* The finally of _run: collect, retire_simulator, retain_primary_abi, export.
FinalAfter(o) ==
  CASE o \in {"collect", "custody-collect", "custody-uninstall"} -> "retire"
    [] o \in {"retire", "sim-before", "sim-shutdown", "sim-after", "sim-record"} -> "abi"
    [] o \in {"abi", "abi-generated", "abi-references", "abi-inputs", "abi-record"} -> "freeze"
    [] OTHER -> "result"

\* An exception leaves the main part for the finally, or one operation of the
\* finally for the next.
Leave ==
  ctl' = CASE ctl.mode = "restore" -> [ctl EXCEPT !.op = "restore-close", !.pc = "op"]
           [] ctl.mode = "main" -> [ctl EXCEPT !.mode = "final", !.op = "collect", !.pc = "op"]
           [] OTHER -> [ctl EXCEPT !.op = FinalAfter(ctl.op), !.pc = "op"]

OpFrame == UNCHANGED <<now, cancelled, rows, child, requests>>

\* An operation without native work: it goes on to o with the controller k, or
\* it is refused, or it fails with something left open.
Op(p, o, fin, live, k) ==
  /\ ctl.op = p /\ ctl.pc = "op"
  /\ \/ Check(fin) /\ live /\ Smooth /\ Goto(o) /\ c' = k
     \/ /\ ~(Check(fin) /\ live) /\ Smooth /\ Leave
        /\ c' = [c EXCEPT !.errors = TRUE, !.exhausted = Marked(fin)]
     \/ /\ Check(fin) /\ live /\ Raised /\ Leave
        /\ \E u \in BOOLEAN : c' = [c EXCEPT !.errors = TRUE, !.unknown = @ \/ u]
  /\ UNCHANGED <<ph, world>> /\ OpFrame

-----------------------------------------------------------------------------
(* phase: one native child under the controller.                              *)

Phase(p) == ctl.op \in Labels /\ ctl.pc = p
PhaseGo(p) == ctl' = [ctl EXCEPT !.pc = p]

\* Admission: refused before there is a record, or the phase's directory.
PhaseAdmit ==
  /\ Phase("op")
  /\ LET live == Check(Fin) /\ c.active = "none" /\ now < WorkEnd(ctl.op) /\ (ctl.op = "sample-packaging" => ~cancelled)
         k == [c EXCEPT !.exhausted = Marked(Fin)]
     IN \/ /\ live /\ Smooth /\ PhaseGo("open") /\ c' = k /\ ph' = NoPhase
           /\ rows' = [rows EXCEPT !.all = @ \cup {ctl.op}]
        \/ ~live /\ Smooth /\ PhaseGo("ret") /\ c' = k /\ ph' = [NoPhase EXCEPT !.raised = TRUE] /\ UNCHANGED rows
        \/ /\ live /\ Raised /\ PhaseGo("ret") /\ ph' = [NoPhase EXCEPT !.raised = TRUE] /\ UNCHANGED rows
           /\ c' = [k EXCEPT !.errors = TRUE, !.unknown = TRUE]
  /\ child' = NoChild
  /\ UNCHANGED <<now, cancelled, requests, world>>

\* An exception in the body of phase is recorded and goes to its finally; the
\* budget of a running canonical child is looked at once more on the way.
PhaseRaise(k) ==
  /\ PhaseGo(IF k.active = ctl.op THEN "caught" ELSE "drain")
  /\ c' = [k EXCEPT !.errors = TRUE] /\ ph' = [ph EXCEPT !.raised = TRUE, !.errs = TRUE]

\* start.json, the streams, the scope and its baseline.
PhaseOpen ==
  /\ Phase("open")
  /\ LET k == [c EXCEPT !.exhausted = Marked(Fin)]
     IN \/ Check(Fin) /\ Smooth /\ PhaseGo("spawn") /\ c' = k /\ ph' = [ph EXCEPT !.scope = TRUE]
        \/ ~Check(Fin) /\ Smooth /\ PhaseRaise(k)
        \/ Check(Fin) /\ Raised /\ \E u \in BOOLEAN : PhaseRaise([c EXCEPT !.unknown = @ \/ u])
  /\ UNCHANGED <<now, cancelled, rows, child, requests, world>>

\* The canonical child is the cancellation target once it was really created;
\* an exception after the spawn leaves a child that is not.
PhaseSpawn ==
  /\ Phase("spawn")
  /\ LET k == [c EXCEPT !.exhausted = Marked(Fin)]
         launched == [k EXCEPT !.product = @ \/ ctl.op = "product"]
     IN \/ /\ Check(Fin) /\ now < WorkEnd(ctl.op) /\ Smooth /\ PhaseGo("check")
           /\ c' = [launched EXCEPT !.active = IF ctl.op \in Canonical THEN ctl.op ELSE @,
                                    !.created = @ \/ ctl.op = "product"]
           /\ child' = [NoChild EXCEPT !.st = "running"] /\ ph' = [ph EXCEPT !.launched = TRUE]
        \/ ~(Check(Fin) /\ now < WorkEnd(ctl.op)) /\ Smooth /\ PhaseRaise(k) /\ UNCHANGED child
        \/ /\ Check(Fin) /\ now < WorkEnd(ctl.op) /\ Raised /\ PhaseGo("drain")
           /\ \E born \in BOOLEAN :
                /\ child' = IF born THEN [NoChild EXCEPT !.st = "running"] ELSE child
                /\ c' = [launched EXCEPT !.errors = TRUE, !.created = @ \/ (born /\ ctl.op = "product")]
           /\ ph' = [ph EXCEPT !.raised = TRUE, !.errs = TRUE, !.launched = TRUE]
  /\ UNCHANGED <<now, cancelled, rows, requests, world>>

\* check_phase_budget: at the cutoff or on a signal a running canonical child
\* is asked to cancel, once; any other phase is given up.
Cutoff == ~Fin /\ now >= Productive
Stop == (Cutoff \/ cancelled) /\ (~Fin \/ ctl.op = "sample-packaging")
Ask == Stop /\ c.active = ctl.op /\ ~ph.asked
GiveUp == Stop /\ ctl.op \notin Canonical
Seen(k) == [k EXCEPT !.exhausted = @ \/ Cutoff]

\* The request is recorded as attempted before the writer is entered; a failed
\* call is not retried.
Request == requests' = IF Ask THEN Append(requests, ctl.op) ELSE requests

\* The head of the polling loop.
PhaseCheck ==
  /\ Phase("check") /\ Request
  /\ LET live == ~GiveUp /\ now < WorkEnd(ctl.op)
     IN \/ live /\ Smooth /\ PhaseGo("look") /\ c' = Seen(c) /\ ph' = [ph EXCEPT !.asked = @ \/ Ask]
        \/ /\ IF live THEN Raised ELSE Smooth
           /\ PhaseGo(IF c.active = ctl.op THEN "caught" ELSE "drain")
           /\ c' = [Seen(c) EXCEPT !.errors = TRUE] /\ ph' = [ph EXCEPT !.raised = TRUE, !.errs = TRUE, !.asked = @ \/ Ask]
  /\ UNCHANGED <<now, cancelled, rows, child, world>>

\* Fault: the target is kept until the scope is drained.
LookKeepsTarget ==
  /\ Phase("look")
  /\ \/ /\ child.st = "returned" /\ Smooth /\ PhaseGo("again")
        /\ ph' = [ph EXCEPT !.code = child.code] /\ child' = [child EXCEPT !.st = "consumed"] /\ UNCHANGED c
     \/ child.st # "returned" /\ Smooth /\ PhaseGo("check") /\ UNCHANGED <<c, ph, child>>
  /\ UNCHANGED <<now, cancelled, rows, requests, world>>

\* poll: a return is consumed before anything else can fail, and the child is
\* no longer a target.
PhaseLook ==
  /\ Phase("look")
  /\ \/ /\ child.st = "returned" /\ Smooth /\ PhaseGo("again")
        /\ c' = [c EXCEPT !.active = "none"]
        /\ ph' = [ph EXCEPT !.code = child.code] /\ child' = [child EXCEPT !.st = "consumed"]
     \/ child.st # "returned" /\ Smooth /\ PhaseGo("check") /\ UNCHANGED <<c, ph, child>>
     \/ Raised /\ PhaseRaise(c) /\ UNCHANGED child
  /\ UNCHANGED <<now, cancelled, rows, requests, world>>

\* The budget after the return: a late return still fails.
PhaseAgain ==
  /\ Phase("again") /\ Request /\ Smooth
  /\ LET bad == GiveUp \/ now >= WorkEnd(ctl.op)
     IN /\ PhaseGo("drain")
        /\ c' = [Seen(c) EXCEPT !.errors = @ \/ bad]
        /\ ph' = [ph EXCEPT !.raised = bad, !.errs = bad, !.late = now >= Productive, !.asked = @ \/ Ask]
  /\ UNCHANGED <<now, cancelled, rows, child, world>>

\* The handler of an exception: the one request still precedes the cleanup.
PhaseCaught ==
  /\ Phase("caught") /\ Request /\ Smooth /\ PhaseGo("drain")
  /\ c' = Seen(c) /\ ph' = [ph EXCEPT !.asked = @ \/ Ask]
  /\ UNCHANGED <<now, cancelled, rows, child, world>>

\* The scope is drained and closed; the captures only under a known writer.
PhaseDrain ==
  /\ Phase("drain") /\ PhaseGo("receipt")
  /\ \/ /\ Smooth /\ ~c.unknown /\ UNCHANGED ph
        /\ child' = IF child.st = "running" THEN [child EXCEPT !.st = "killed"] ELSE child
        /\ c' = [c EXCEPT !.active = "none"]
     \/ /\ ~c.unknown /\ ph.scope /\ Raised
        /\ child' \in {child, IF child.st = "running" THEN [child EXCEPT !.st = "killed"] ELSE child}
        /\ c' = [c EXCEPT !.unknown = TRUE, !.errors = TRUE] /\ ph' = [ph EXCEPT !.errs = TRUE]
     \/ /\ c.unknown /\ Smooth /\ UNCHANGED <<c, ph>>
        /\ child' = IF ph.scope /\ child.st = "running" THEN [child EXCEPT !.st = "killed"] ELSE child
  /\ UNCHANGED <<now, cancelled, rows, requests, world>>

\* result.json in the final slot; the phase returns its row, or raises.
PhaseReceipt ==
  /\ Phase("receipt") /\ PhaseGo("ret")
  /\ \E kept \in BOOLEAN :
       /\ kept => now < Return
       /\ IF kept \/ now >= Return THEN Smooth ELSE Raised
       /\ c' = [c EXCEPT !.errors = @ \/ ~kept]
       /\ LET good == kept /\ ~c.unknown /\ ~ph.errs
              stopped == (cancelled /\ (~Fin \/ ctl.op = "sample-packaging")) \/ (~Fin /\ c.exhausted)
          IN /\ ph' = [ph EXCEPT !.errs = ~good, !.raised = @ \/ ~good \/ stopped]
             /\ rows' = IF good /\ ph.code = "zero" /\ (Fin \/ ~ph.late)
                        THEN [rows EXCEPT !.clean = @ \cup {ctl.op}] ELSE rows
  /\ UNCHANGED <<now, cancelled, child, requests, world>>

PhaseNext ==
  \/ PhaseAdmit \/ PhaseOpen \/ PhaseSpawn \/ PhaseCheck \/ PhaseLook \/ PhaseAgain \/ PhaseCaught
  \/ PhaseDrain \/ PhaseReceipt

-----------------------------------------------------------------------------
(* The process before the controller's run: native_prepare_restore acquires   *)
(* the job's time, plans the restore of the dependency cache, lets a native   *)
(* provider restore it in an interval of its own, reads everything back and   *)
(* hands it to the run.  Three ProviderEpisodes own what is opened meanwhile; *)
(* the controller is unknown when one of them is.  (prepare_consume and       *)
(* restore_guard are the same with the provider as a step of the workflow.)   *)
\* The identity of the source, and the phase that acquires the job's time.
Identity == Op("identity", "job-time", FALSE, TRUE, c)
JobTimeReturn ==
  /\ ctl.op = "job-time" /\ ctl.pc = "ret"
  /\ LET ok == ~ph.raised /\ ph.code = "zero"
     IN \/ ok /\ Smooth /\ Goto("plan") /\ UNCHANGED c
        \/ /\ IF ok THEN Raised ELSE Smooth
           /\ Leave /\ c' = [c EXCEPT !.errors = TRUE]
  /\ UNCHANGED <<ph, world>> /\ OpFrame

\* The stage, the inputs and the plan; then the first episode: request and
\* bundle of the provider.
Plan == Op("plan", "episode", FALSE, TRUE, c)
Episode == Op("episode", "service", FALSE, TRUE, c)

\* provider_service: input, sinks and the scope.
ServiceOpen ==
  /\ ctl.op = "service" /\ ctl.pc = "op"
  /\ \/ Check(FALSE) /\ Smooth /\ PhaseGo("spawn") /\ UNCHANGED c /\ ph' = [NoPhase EXCEPT !.scope = TRUE]
     \/ /\ IF Check(FALSE) THEN Raised ELSE Smooth
        /\ PhaseGo("drain") /\ ph' = [NoPhase EXCEPT !.raised = TRUE]
        /\ \E u \in BOOLEAN : c' = [c EXCEPT !.errors = TRUE, !.unknown = u /\ Check(FALSE)]
  /\ child' = NoChild /\ UNCHANGED <<now, cancelled, rows, requests, world>>

ServiceSpawn ==
  /\ ctl.op = "service" /\ ctl.pc = "spawn"
  /\ \/ /\ Check(FALSE) /\ Smooth /\ PhaseGo("poll") /\ child' = [NoChild EXCEPT !.st = "running"]
        /\ UNCHANGED <<c, ph>>
     \/ /\ IF Check(FALSE) THEN Raised ELSE Smooth
        /\ PhaseGo("drain") /\ ph' = [ph EXCEPT !.raised = TRUE] /\ c' = [c EXCEPT !.errors = TRUE] /\ UNCHANGED child
  /\ UNCHANGED <<now, cancelled, rows, requests, world>>

\* A signal or the end of the interval is an exception; so is a late return.
ServicePoll ==
  /\ ctl.op = "service" /\ ctl.pc = "poll"
  /\ \/ /\ Check(FALSE) /\ child.st = "returned" /\ Smooth /\ PhaseGo("drain")
        /\ ph' = [ph EXCEPT !.code = child.code, !.raised = child.code # "zero"] /\ UNCHANGED c
     \/ /\ IF Check(FALSE) THEN Raised ELSE Smooth
        /\ PhaseGo("drain") /\ ph' = [ph EXCEPT !.raised = TRUE] /\ c' = [c EXCEPT !.errors = TRUE]
  /\ UNCHANGED <<now, cancelled, rows, child, requests, world>>

\* Captures and input are closed, and the return is read, only under a known
\* drain.
ServiceDrain ==
  /\ ctl.op = "service" /\ ctl.pc = "drain" /\ PhaseGo("ret")
  /\ child' \in {child, IF child.st = "running" THEN [child EXCEPT !.st = "killed"] ELSE child}
  /\ \/ /\ ~c.unknown /\ Smooth /\ UNCHANGED <<c, ph>> /\ child'.st # "running"
     \/ /\ ~c.unknown /\ ph.scope /\ Raised /\ c' = [c EXCEPT !.unknown = TRUE, !.errors = TRUE]
        /\ ph' = [ph EXCEPT !.raised = TRUE]
     \/ c.unknown /\ Smooth /\ UNCHANGED <<c, ph, child>>
  /\ UNCHANGED <<now, cancelled, rows, requests, world>>

\* The acknowledgement and the native record; the episode is closed.
ServiceReturn ==
  /\ ctl.op = "service" /\ ctl.pc = "ret"
  /\ LET ok == ~ph.raised /\ Check(FALSE)
     IN \/ ok /\ Smooth /\ Goto("readback") /\ UNCHANGED c
        \/ /\ IF ok THEN Raised ELSE Smooth
           /\ Leave /\ \E u \in BOOLEAN : c' = [c EXCEPT !.errors = TRUE, !.unknown = @ \/ (u /\ ok)]
  /\ UNCHANGED <<ph, world>> /\ OpFrame

\* The provider's originals are read and copied in the third episode.
Readback == Op("readback", "accept", FALSE, TRUE, c)

\* Classification, provider record and acceptance.
Accept == Op("accept", "restore-close", FALSE, TRUE, c)

\* The process ends; the run is a new one with a controller of its own.
RestoreClose ==
  /\ ctl.op = "restore-close" /\ ctl.pc = "op"
  /\ \/ /\ ~c.errors /\ ~c.unknown /\ Check(FALSE) /\ Smooth /\ UNCHANGED c
        /\ ctl' = [ctl EXCEPT !.mode = "main", !.op = "adopt"]
     \/ /\ IF ~c.errors /\ ~c.unknown /\ Check(FALSE) THEN Raised ELSE Smooth
        /\ ctl' = [ctl EXCEPT !.pc = "done"] /\ c' = [c EXCEPT !.exit = "hold"]
  /\ UNCHANGED <<ph, world>> /\ OpFrame

RestoreNext ==
  \/ Identity \/ JobTimeReturn \/ Plan \/ Episode \/ ServiceOpen \/ ServiceSpawn \/ ServicePoll \/ ServiceDrain
  \/ ServiceReturn \/ Readback \/ Accept \/ RestoreClose

=============================================================================
