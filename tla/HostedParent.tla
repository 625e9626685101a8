---------------------------- MODULE HostedParent ----------------------------
(* The parent of a native child in scripts/run-hosted-cache-bootstrap.py:     *)
(* _RecipientParentWindow, _RecipientParent, _close_parent and the return of  *)
(* _recipient_after_entry, which the initializer reuses.  The window moves    *)
(* WORK -> FINAL -> READ: the child is retired in FINAL, its records are read *)
(* in READ, and READ opens only when every writer is closed.  Once a launch   *)
(* was attempted, any failure makes the owner unknown.                        *)
EXTENDS HostedOwner

Launched == child.st # "none"

\* check, live and now: no quarantine, the predecessor graph and the roster
\* unchanged, the phase's own limit, no cancellation.
ParentLive ==
  /\ ~own.closed /\ ~own.unknown /\ ~own.failed /\ ~cancelled /\ ~quarantine
  /\ \/ own.phase = "WORK" /\ now < own.work
     \/ own.phase = "READ" /\ now < own.read

Broken == [own EXCEPT !.failed = TRUE, !.unknown = @ \/ Launched]

\* One function of a parent.
ParentStep(p, q, rd, wr, tk) ==
  /\ at.pc = p
  /\ \/ /\ ParentLive /\ Originals(rd) /\ Smooth
        /\ at' = [at EXCEPT !.pc = q]
        /\ own' = [own EXCEPT !.held = @ \cup tk]
        /\ disk' = [disk EXCEPT !.written = @ \cup wr]
     \/ /\ ~(ParentLive /\ Originals(rd)) /\ Smooth
        /\ at' = [at EXCEPT !.pc = "failed"] /\ own' = Broken /\ UNCHANGED disk
     \/ /\ ParentLive /\ Originals(rd) /\ Raised
        /\ at' = [at EXCEPT !.pc = "failed"] /\ UNCHANGED disk
        /\ \/ rd \cup tk # {} /\ own' = [Broken EXCEPT !.unknown = TRUE]
           \/ wr # {} /\ own' = [Broken EXCEPT !.held = @ \cup tk]
  /\ UNCHANGED <<child, quarantine>> /\ Frame

\* launch: captures, scope and baseline; the originals and the private inputs
\* are compared again immediately before the spawn.
ParentStreams(p, q, wr) ==
  Step(p, q, "finish", ParentLive, {}, wr, {"stdout", "stderr", "scope"})

ParentSpawn(p, q, rd) == Spawn(p, q, "finish", ParentLive, rd)

ParentBirth(p, q, wr) == Step(p, q, "finish", ParentLive, {}, wr, {})

ParentPoll(p) == Poll(p, "finish", ParentLive)

\* begin_final: the old limit is void first; the new one is never later.
Final == [own EXCEPT !.phase = "FINAL", !.final = Least(@, now + Clean)]

\* finish_native: drain, close the scope, then the captures.
FinishKnown(q) ==
  /\ at.pc = "finish" /\ Smooth /\ ~own.unknown
  /\ "scope" \in own.held => now < own.final
  /\ child' = IF Launched THEN [child EXCEPT !.st = "gone", !.tree = FALSE] ELSE child
  /\ LET late == now >= own.final
         bad  == own.failed \/ late
     IN /\ own' = [Final EXCEPT !.held = @ \ {"scope", "stdout", "stderr"}, !.failed = bad,
                                !.unknown = bad /\ Launched]
        /\ at' = [at EXCEPT !.pc = IF bad THEN "failed" ELSE q]
  /\ UNCHANGED <<disk, quarantine>> /\ Frame

FinishUnknown ==
  /\ at.pc = "finish"
  /\ IF own.unknown \/ ("scope" \in own.held /\ now >= own.final) THEN Smooth ELSE Raised
  /\ child' \in {child, IF Launched THEN [child EXCEPT !.st = "gone", !.tree = FALSE] ELSE child}
  /\ own' = [Final EXCEPT !.failed = TRUE, !.unknown = TRUE]
  /\ at' = [at EXCEPT !.pc = "failed"]
  /\ UNCHANGED <<disk, quarantine>> /\ Frame

\* begin_read: only after retirement and before the final limit.
BeginRead(p, q) ==
  /\ at.pc = p /\ Smooth
  /\ IF own.phase = "FINAL" /\ now < own.final /\ {"scope", "stdout", "stderr"} \cap own.held = {}
       THEN /\ own' = [own EXCEPT !.phase = "READ", !.read = Least(@, now + Clean)]
            /\ at' = [at EXCEPT !.pc = q]
       ELSE own' = Broken /\ at' = [at EXCEPT !.pc = "failed"]
  /\ UNCHANGED <<disk, child, quarantine>> /\ Frame

\* The failure record: from WORK the window first enters FINAL.
ParentRetain(f) ==
  /\ at.pc = "failed" /\ at' = [at EXCEPT !.pc = "closing"]
  /\ own' = IF own.phase = "WORK" THEN Final ELSE own
  /\ LET may == ~own.closed /\ ~own.unknown /\ ~quarantine /\ now < own.final
     IN \/ Smooth /\ disk' = IF may THEN [disk EXCEPT !.written = @ \cup {f}] ELSE disk
        \/ may /\ Raised /\ UNCHANGED disk
  /\ UNCHANGED <<child, quarantine>> /\ Frame

\* _close_parent: roster frozen, every resource closed once, handlers restored,
\* the closed roster compared; a difference is unknown.
ParentClose == CloseOwner("closing", "closed")

\* The return: checks, cancellation and READ limit after the close; then only.
ParentInTime == own.phase = "READ" /\ now < own.read /\ ~cancelled /\ ~quarantine

ParentReturn(s, next) == Publish("closed", s, ParentInTime, next)

=============================================================================
