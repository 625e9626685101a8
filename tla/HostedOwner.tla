---------------------------- MODULE HostedOwner -----------------------------
(* What the hosted stages of scripts/run-hosted-cache-bootstrap.py share: an  *)
(* Owner of private directories, streams and a native scope, the fences that  *)
(* bound its work and its cleanup, the native child, and the private records  *)
(* by which one stage hands its originals to the next.  A stage opens an      *)
(* owner, runs its steps, retains a failure record, closes the owner and only *)
(* then returns.  An operation that raises while it may have acquired         *)
(* something makes the owner UNKNOWN; an unknown owner is never cleaned up    *)
(* further and goes to QUARANTINE.                                            *)
EXTENDS Naturals, FiniteSets

CONSTANTS
  JobEnd,      \* bound: the last instant of the clock, the end of the job
  Work,        \* a stage's working interval, in ticks
  Clean,       \* the cleanup interval after it
  MaxTrouble,  \* bound: raised operations, replaced records, cancellations
  Replaceable  \* bound: the records that may be replaced

ASSUME BoundsAssumption ==
  JobEnd \in Nat /\ Work \in Nat \ {0} /\ Clean \in Nat \ {0} /\ MaxTrouble \in Nat

VARIABLES
  now,         \* the monotonic clock
  trouble,     \* troubles so far
  cancelled,   \* the job's cancellation was signalled
  at,          \* control: [stage, pc]
  own,         \* the stage's Owner
  disk,        \* private records: [written, swapped], swapped holds <<record, stage>>
  child,       \* the native child: [st, ok, tree]
  quarantine,  \* an owner of this process is in QUARANTINE
  published    \* the stages that returned their result

ownerVars == <<now, trouble, cancelled, at, own, disk, child, quarantine, published>>

NoChild == [st |-> "none", ok |-> FALSE, tree |-> FALSE]
Alive == child.st \in {"running", "wrote"} \/ child.tree

Least(a, b) == IF a < b THEN a ELSE b

In(s) == at.stage = s

\* A fence: work, final and read end, never beyond the job; outer holds the
\* owner that waits for this one.
Opened(w, c) ==
  [held |-> {}, failed |-> FALSE, unknown |-> FALSE, closed |-> FALSE, phase |-> "WORK",
   old |-> <<0, 0>>, outer |-> <<>>, work |-> Least(now + w, JobEnd), final |-> Least(now + w + c, JobEnd),
   read |-> Least(now + w + c + c, JobEnd)]

OwnerInit ==
  /\ now = 0 /\ trouble = 0 /\ cancelled = FALSE
  /\ own = Opened(Work, Clean)
  /\ disk = [written |-> {}, swapped |-> {}]
  /\ child = NoChild /\ quarantine = FALSE /\ published = {}

Smooth == trouble' = trouble
Raised == trouble < MaxTrouble /\ trouble' = trouble + 1

-----------------------------------------------------------------------------
(* The environment.                                                           *)

Ended == at.pc \in {"raised", "done"}

Tick ==
  /\ ~Ended /\ now < JobEnd /\ now' = now + 1
  /\ UNCHANGED <<trouble, cancelled, at, own, disk, child, quarantine, published>>

\* A signal handler only sets the flag that cancellation() tests.
Cancel ==
  /\ ~Ended /\ ~cancelled /\ Raised /\ cancelled' = TRUE
  /\ UNCHANGED <<now, at, own, disk, child, quarantine, published>>

\* A retained private record is no longer the original.
Swap(f) ==
  /\ ~Ended /\ f \in disk.written \cap Replaceable /\ \A s \in disk.swapped : s[1] # f
  /\ Raised
  /\ disk' = [disk EXCEPT !.swapped = @ \cup {<<f, at.stage>>}]
  /\ UNCHANGED <<now, cancelled, at, own, child, quarantine, published>>

-----------------------------------------------------------------------------
(* Owner.end, acquire, read, write and error.                                 *)

Live(final) ==
  /\ ~own.closed /\ ~own.unknown /\ ~quarantine
  /\ now < IF final THEN own.final ELSE own.work
  /\ final \/ (~own.failed /\ ~cancelled)

\* Fault: a record is only looked for, not compared.
Present(fs) == fs \subseteq disk.written

Originals(fs) == fs \subseteq disk.written /\ \A s \in disk.swapped : s[1] \notin fs

Frame == UNCHANGED <<now, cancelled, published>>

\* One function of a stage: it compares the records rd with their originals,
\* writes wr and takes the resources tk, or goes to e with the first error.
\* A refusal is a known failure; an allocation or a read that raises leaves
\* something unknown; a write that raises is known once its stream is closed.
Step(p, q, e, live, rd, wr, tk) ==
  /\ at.pc = p
  /\ \/ /\ live /\ Originals(rd) /\ Smooth
        /\ at' = [at EXCEPT !.pc = q]
        /\ own' = [own EXCEPT !.held = @ \cup tk]
        /\ disk' = [disk EXCEPT !.written = @ \cup wr]
     \/ /\ ~(live /\ Originals(rd)) /\ Smooth
        /\ at' = [at EXCEPT !.pc = e]
        /\ own' = [own EXCEPT !.failed = TRUE] /\ UNCHANGED disk
     \/ /\ live /\ Originals(rd) /\ Raised
        /\ at' = [at EXCEPT !.pc = e]
        /\ \/ rd \cup tk # {} /\ own' = [own EXCEPT !.failed = TRUE, !.unknown = TRUE]
           \/ wr # {} /\ own' = [own EXCEPT !.failed = TRUE, !.held = @ \cup tk]
        /\ UNCHANGED disk
  /\ UNCHANGED <<child, quarantine>> /\ Frame

\* The failure record of a stage, written in the cleanup interval if it can be.
Retain(p, q, f) ==
  /\ at.pc = p /\ at' = [at EXCEPT !.pc = q]
  /\ \/ /\ Smooth
        /\ disk' = IF Live(TRUE) THEN [disk EXCEPT !.written = @ \cup {f}] ELSE disk
     \/ Live(TRUE) /\ Raised /\ UNCHANGED disk
  /\ UNCHANGED <<own, child, quarantine>> /\ Frame

\* Owner.close: each resource once, in reverse order, until one cannot be
\* closed; an expired fence is an error but never skips the cleanup.
CloseKnown(p, q) ==
  /\ at.pc = p /\ at' = [at EXCEPT !.pc = q]
  /\ ~own.unknown /\ Smooth
  /\ own' = [own EXCEPT !.held = {}, !.closed = TRUE, !.failed = @ \/ now >= own.final]
  /\ UNCHANGED <<disk, child, quarantine>> /\ Frame

CloseUnknown(p, q) ==
  /\ at.pc = p /\ at' = [at EXCEPT !.pc = q]
  /\ \/ /\ own.unknown /\ Smooth
        /\ own' = [own EXCEPT !.closed = TRUE]
     \/ /\ ~own.unknown /\ own.held # {} /\ Raised
        /\ \E kept \in SUBSET own.held \ {{}} :
             own' = [own EXCEPT !.held = kept, !.unknown = TRUE, !.failed = TRUE,
                                !.closed = TRUE]
  /\ quarantine' = TRUE
  /\ UNCHANGED <<disk, child>> /\ Frame

CloseOwner(p, q) == CloseKnown(p, q) \/ CloseUnknown(p, q)

\* A leaf closes what it opened through the owner before it returns or raises;
\* what it cannot close is the owner's unknown.
LeafClose(p, q) ==
  /\ at.pc = p
  /\ \/ /\ Smooth /\ at' = [at EXCEPT !.pc = IF own.failed THEN "closing" ELSE q]
        /\ own' = IF own.unknown THEN own ELSE [own EXCEPT !.held = @ \ {"leaf"}]
     \/ /\ ~own.unknown /\ "leaf" \in own.held /\ Raised
        /\ at' = [at EXCEPT !.pc = "closing"]
        /\ own' = [own EXCEPT !.failed = TRUE, !.unknown = TRUE]
  /\ UNCHANGED <<disk, child, quarantine>> /\ Frame

-----------------------------------------------------------------------------
(* The native child and its scope.                                            *)

\* scope.spawn: the record of the launch is written after the spawn.
Spawn(p, q, e, live, rd) ==
  /\ at.pc = p
  /\ \/ /\ live /\ Originals(rd) /\ Smooth
        /\ at' = [at EXCEPT !.pc = q] /\ UNCHANGED own
        /\ child' = [NoChild EXCEPT !.st = "running"]
     \/ /\ ~(live /\ Originals(rd)) /\ Smooth
        /\ at' = [at EXCEPT !.pc = e] /\ own' = [own EXCEPT !.failed = TRUE]
        /\ UNCHANGED child
     \/ /\ live /\ Originals(rd) /\ Raised
        /\ at' = [at EXCEPT !.pc = e] /\ own' = [own EXCEPT !.failed = TRUE]
        /\ child' \in {[NoChild EXCEPT !.st = st] : st \in {"gone", "running"}}
  /\ UNCHANGED <<disk, quarantine>> /\ Frame

\* A part of the child's work before its last: it reads rd and writes wr once.
ChildPart(rd, wr) ==
  /\ child.st = "running" /\ now < own.work /\ Originals(rd) /\ Smooth
  /\ wr \cap disk.written = {}
  /\ disk' = [disk EXCEPT !.written = @ \cup wr]
  /\ UNCHANGED <<at, own, child, quarantine>> /\ Frame

\* The child reads the originals rd, does its work and writes its records wr.
ChildWrites(rd, wr) ==
  /\ child.st = "running" /\ now < own.work /\ Originals(rd) /\ Smooth
  /\ child' = [child EXCEPT !.st = "wrote"]
  /\ disk' = [disk EXCEPT !.written = @ \cup wr]
  /\ UNCHANGED <<at, own, quarantine>> /\ Frame

\* It closes its own owner, in time, and acknowledges; it may leave a
\* descendant behind.
ChildReturns ==
  /\ child.st = "wrote" /\ now < own.work
  /\ \/ Smooth /\ child' = [child EXCEPT !.st = "exited", !.ok = TRUE]
     \/ Raised /\ child' = [child EXCEPT !.st = "exited", !.ok = TRUE, !.tree = TRUE]
  /\ UNCHANGED <<at, own, disk, quarantine>> /\ Frame

\* Any failure in the child ends it with another code.
ChildFails(rd) ==
  /\ child.st \in {"running", "wrote"}
  /\ IF now < own.work /\ Originals(rd) THEN Raised ELSE Smooth
  /\ child' = [child EXCEPT !.st = "exited", !.ok = FALSE]
  /\ UNCHANGED <<at, own, disk, quarantine>> /\ Frame

\* Fault: the loop waits for the child whatever the time.
PollUntilExit(p, q, live) ==
  /\ at.pc = p /\ Smooth /\ child.st = "exited"
  /\ at' = [at EXCEPT !.pc = q]
  /\ own' = [own EXCEPT !.failed = @ \/ ~live \/ ~child.ok \/ child.tree]
  /\ UNCHANGED <<disk, child, quarantine>> /\ Frame

\* The poll loop: the child must exit 0 and leave nothing behind, in time.
Poll(p, q, live) ==
  /\ at.pc = p /\ Smooth
  /\ ~live \/ child.st = "exited"
  /\ at' = [at EXCEPT !.pc = q]
  /\ own' = [own EXCEPT !.failed = @ \/ ~live \/ ~child.ok \/ child.tree]
  /\ UNCHANGED <<disk, child, quarantine>> /\ Frame

\* scope.drain under the cleanup fence, then the scope is closed once.  What
\* cannot be shown retired is unknown.
DrainKnown(p, q) ==
  /\ at.pc = p /\ at' = [at EXCEPT !.pc = q]
  /\ Smooth /\ ~own.unknown /\ ("scope" \in own.held => now < own.final)
  /\ child' = IF child.st = "none" THEN child ELSE [child EXCEPT !.st = "gone", !.tree = FALSE]
  /\ own' = [own EXCEPT !.held = @ \ {"scope"}]
  /\ UNCHANGED <<disk, quarantine>> /\ Frame

\* Fault: a failed drain is an ordinary failure.
DrainAssumed(p, q) ==
  /\ at.pc = p /\ at' = [at EXCEPT !.pc = q]
  /\ IF own.unknown \/ ("scope" \in own.held /\ now >= own.final) THEN Smooth ELSE Raised
  /\ child' = child
  /\ own' = [own EXCEPT !.failed = TRUE]
  /\ UNCHANGED <<disk, quarantine>> /\ Frame

DrainUnknown(p, q) ==
  /\ at.pc = p /\ at' = [at EXCEPT !.pc = q]
  /\ IF own.unknown \/ ("scope" \in own.held /\ now >= own.final) THEN Smooth ELSE Raised
  /\ child' \in {child, [child EXCEPT !.st = IF @ = "none" THEN @ ELSE "gone", !.tree = FALSE]}
  /\ own' = [own EXCEPT !.unknown = TRUE, !.failed = TRUE]
  /\ UNCHANGED <<disk, quarantine>> /\ Frame

Drain(p, q) == DrainKnown(p, q) \/ DrainUnknown(p, q)

\* The captures of a native child are closed after a known drain only; any
\* failure after the launch was attempted leaves the child's effects unknown.
NativeCaptures(p, q, e) ==
  /\ at.pc = p
  /\ \E kept \in SUBSET ({"stdout", "stderr"} \cap own.held) :
       /\ IF kept = {} \/ own.unknown THEN Smooth ELSE Raised
       /\ own.unknown => kept = {"stdout", "stderr"} \cap own.held
       /\ LET bad == own.failed \/ kept # {} \/ own.unknown \/ now >= own.final
          IN /\ own' = [own EXCEPT !.held = (@ \ {"stdout", "stderr"}) \cup kept, !.failed = bad,
                                   !.unknown = @ \/ kept # {} \/ (bad /\ child.st # "none")]
             /\ at' = [at EXCEPT !.pc = IF bad THEN e ELSE q]
  /\ UNCHANGED <<disk, child, quarantine>> /\ Frame

-----------------------------------------------------------------------------
(* Returning.                                                                 *)

\* After the close the stage checks its fences and the cancellation once more
\* and only then publishes.  The next stage starts in the given owner; what the
\* old one left open and a child that still runs are not gone by that.
Publish(p, s, ok, next) ==
  /\ at = [stage |-> s, pc |-> p] /\ Smooth
  /\ IF ok /\ ~own.failed /\ ~own.unknown
       THEN at' = [stage |-> s + 1, pc |-> "start"] /\ published' = published \cup {s}
            /\ own' = [next EXCEPT !.held = own.held] /\ child' = IF Alive THEN child ELSE NoChild
       ELSE at' = [at EXCEPT !.pc = "raised"] /\ UNCHANGED <<published, own, child>>
  /\ UNCHANGED <<now, cancelled, disk, quarantine>>

\* The last checks before a return: the final fence and the cancellation.
InTime == now < own.final /\ ~cancelled

\* A further owner in the same process, only after a known close in time.
Reopen(p, q, next) ==
  /\ at.pc = p /\ Smooth
  /\ IF own.failed \/ own.unknown \/ ~InTime
       THEN at' = [at EXCEPT !.pc = "raised"] /\ UNCHANGED own
       ELSE at' = [at EXCEPT !.pc = q] /\ own' = [next EXCEPT !.held = own.held]
  /\ UNCHANGED <<disk, child, quarantine>> /\ Frame

Exited == Ended /\ UNCHANGED ownerVars

-----------------------------------------------------------------------------
(* What the stages promise together.                                          *)

\* Nothing is lost silently: when the process ends or moves on to another
\* stage, a resource that is still open or a child that may still run has been
\* recorded as unknown, whatever failed before and whatever failed during the
\* cleanup (Owner.close, _close_parent, finish_native).
LeaksRecorded ==
  at.pc \in {"raised", "done", "start"} /\ (own.held # {} \/ Alive) => quarantine

\* A stage does not return a result over a record that was replaced before the
\* stage began: every stage compares all the originals it inherits.
StaleSince(s) == {r[1] : r \in {t \in disk.swapped : t[2] < s}}

-----------------------------------------------------------------------------
(* _phase_owned (scripts/run-hosted-cache-bootstrap.py): one service child in *)
(* a native scope, its captures and its receipt.  It runs inside the owner of *)
(* the stage that calls it, under limits shorter than the stage's, and        *)
(* restores them on every path.                                               *)
PhaseRecords == {"start", "baseline", "native-start", "captures", "result"}
ChildRecords == {"responses", "child-result"}

\* The service directory of a phase is new: no record of it exists yet.
NewService ==
  LET old == PhaseRecords \cup ChildRecords
  IN [written |-> disk.written \ old, swapped |-> {s \in disk.swapped : s[1] \notin old}]

\* The route's enter_*_phase: fences never beyond the stage's; old_limits are
\* kept for the return.
PhaseEnter ==
  /\ at.pc = "phase" /\ Smooth /\ disk' = NewService
  /\ UNCHANGED <<child, quarantine>> /\ Frame
  /\ IF Live(FALSE)
       THEN /\ at' = [at EXCEPT !.pc = "phase-setup"]
            /\ own' = [own EXCEPT !.work = Least(@, now + Clean), !.old = <<own.work, own.final>>,
                                  !.final = Least(@, Least(own.work, now + Clean) + Clean)]
       ELSE /\ at' = [at EXCEPT !.pc = "failed"]
            /\ own' = [own EXCEPT !.failed = TRUE]

\* The fixed command line and start.json.
PhaseSetup ==
  Step("phase-setup", "phase-streams", "failed", Live(FALSE), {}, {"start"}, {"directories"})

\* Both capture streams and the scope, then the baseline of running processes.
PhaseStreams ==
  Step("phase-streams", "phase-spawn", "phase-drain", Live(FALSE), {}, {"baseline"},
       {"stdout", "stderr", "scope"})

\* The token leaves this process with the environment of the child.
PhaseSpawn == Spawn("phase-spawn", "phase-birth", "phase-drain", Live(FALSE), {})

PhaseBirth ==
  Step("phase-birth", "phase-poll", "phase-drain", Live(FALSE), {}, {"native-start"}, {})

PhasePoll == Poll("phase-poll", "phase-drain", Live(FALSE))

PhaseDrain == Drain("phase-drain", "phase-captures")

\* sync, verify, close and read back both captures, only after a known drain.
PhaseCaptures ==
  /\ at.pc = "phase-captures" /\ at' = [at EXCEPT !.pc = "phase-receipt"]
  /\ \/ /\ ~own.unknown /\ Smooth
        /\ own' = [own EXCEPT !.held = @ \ {"stdout", "stderr"}, !.failed = @ \/ ~Live(TRUE)]
        /\ disk' = IF {"stdout", "stderr"} \subseteq own.held /\ Live(TRUE)
                     THEN [disk EXCEPT !.written = @ \cup {"captures"}] ELSE disk
     \/ /\ ~own.unknown /\ {"stdout", "stderr"} \subseteq own.held /\ Raised
        /\ \E kept \in SUBSET {"stdout", "stderr"} :
             own' = [own EXCEPT !.held = (@ \ {"stdout", "stderr"}) \cup kept, !.failed = TRUE,
                                !.unknown = TRUE]
        /\ UNCHANGED disk
     \/ own.unknown /\ Smooth /\ UNCHANGED <<own, disk>>
  /\ UNCHANGED <<child, quarantine>> /\ Frame

\* result.json is written whenever the owner still may, a failure included.
PhaseReceipt ==
  /\ at.pc = "phase-receipt" /\ at' = [at EXCEPT !.pc = "phase-leave"]
  /\ \/ /\ Smooth
        /\ own' = [own EXCEPT !.failed = @ \/ ~Live(TRUE)]
        /\ disk' = IF Live(TRUE) THEN [disk EXCEPT !.written = @ \cup {"result"}] ELSE disk
     \/ Live(TRUE) /\ Raised /\ own' = [own EXCEPT !.failed = TRUE] /\ UNCHANGED disk
  /\ UNCHANGED <<child, quarantine>> /\ Frame

\* The route's leave_*_phase; only an accepted return goes on.
PhaseLeave(q) ==
  /\ at.pc = "phase-leave" /\ Smooth
  /\ at' = [at EXCEPT !.pc = IF own.failed THEN "failed" ELSE q]
  /\ own' = [own EXCEPT !.work = own.old[1], !.final = own.old[2], !.old = <<0, 0>>]
  /\ UNCHANGED <<disk, child, quarantine>> /\ Frame

\* The child's own owner: metadata, the two retained responses, child-result,
\* close, acknowledgement.
ServiceChild(rd) ==
  \/ ChildWrites(rd \cup {"start"}, ChildRecords)
  \/ ChildReturns
  \/ ChildFails(rd \cup {"start"})

=============================================================================
