--------------------------- MODULE BootstrapEntry ---------------------------
(* The entry of the cache bootstrap (scripts/run-hosted-cache-bootstrap.py):  *)
(* prepare_originals with its handoff in one process, then, in another,       *)
(* _prepare_adoption, close_entry_transition and readmit_closed_entry.        *)
EXTENDS HostedOwner

\* What a reader of the preparation compares: _read_prepared and _read_chain.
Prepared ==
  {"prelude", "context", "admission", "final-admission", "origin", "handoff"}
    \cup PhaseRecords \cup ChildRecords

\* What the adoption adds, and what readmission compares.
Adopted == Prepared \cup {"entry-admission", "entry"}
EntryOriginals == Adopted \cup {"entry-close-pending"}

-----------------------------------------------------------------------------
(* Stage 1: prepare_originals and prepare_handoff.                            *)

PrepareOpen == In(1) /\ Step("start", "admit", "failed", Live(FALSE), {}, {"prelude"}, {"directories"})

\* admit: the git queries run in a supplier that is always finalized.
PrepareAdmit ==
  In(1) /\ Step("admit", "context", "failed", Live(FALSE), {}, {"admission"}, {"directories"})

PrepareContext == In(1) /\ Step("context", "phase", "failed", Live(FALSE), {}, {"context"}, {})

\* revalidate: every record of the phase, the context and the admission.
Revalidate ==
  In(1) /\ Step("revalidate", "final-admit", "failed", Live(TRUE),
                {"context", "admission"} \cup PhaseRecords \cup ChildRecords, {}, {})

FinalAdmit ==
  In(1) /\ Step("final-admit", "origin", "failed", Live(FALSE), {}, {"final-admission"},
                {"directories"})

OriginResult ==
  In(1) /\ Step("origin", "closing", "failed", Live(TRUE),
                {"context", "admission", "final-admission"} \cup PhaseRecords \cup ChildRecords,
                {"origin"}, {})

PrepareFailed == In(1) /\ Retain("failed", "closing", "origin-failure")
PrepareClose == In(1) /\ CloseOwner("closing", "closed")

\* prepare_handoff: a second owner in what is left of the final fence.
HandoffOpen == In(1) /\ Reopen("closed", "handoff", [own EXCEPT !.closed = FALSE])

HandoffWrite ==
  In(1) /\ Step("handoff", "handoff-closing", "handoff-closing", Live(TRUE), {"origin", "context"},
                {"handoff"}, {"directories"})

HandoffClose == In(1) /\ CloseOwner("handoff-closing", "handoff-closed")

\* The adopter is a new process with 45 seconds until it binds the prelude.
Adopter == [own EXCEPT !.closed = FALSE, !.work = Least(@, now + Clean),
                       !.final = Least(@, now + Clean)]

HandoffReturn == Publish("handoff-closed", 1, InTime, Adopter)

-----------------------------------------------------------------------------
(* Stage 2: _prepare_adoption and close_entry_transition.                     *)

AdoptOpen ==
  In(2) /\ Step("start", "prepared", "failed", Live(FALSE), {"handoff", "context", "prelude"}, {},
                {"directories"})

AdoptPrepared == In(2) /\ Step("prepared", "admit", "failed", Live(FALSE), Prepared, {}, {"directories"})

AdoptAdmit ==
  In(2) /\ Step("admit", "entry", "failed", Live(FALSE), {}, {"entry-admission"}, {"directories"})

ExecutionEntry ==
  In(2) /\ Step("entry", "adoption", "failed", Live(FALSE), Prepared \cup {"entry-admission"},
                {"entry"}, {})

AdoptionResult ==
  In(2) /\ Step("adoption", "bridge", "failed", Live(FALSE), Adopted, {"adoption"}, {})

AdoptFailed == In(2) /\ Retain("failed", "closing", "adoption-failure")

\* close_entry_transition: pending record, recheck, one close, late publication.
BridgePending ==
  In(2) /\ Step("bridge", "bridge-recheck", "bridge-failed", Live(FALSE), Adopted,
                {"entry-close-pending"}, {})

BridgeRecheck ==
  In(2) /\ Step("bridge-recheck", "closing", "bridge-failed", Live(FALSE), EntryOriginals, {}, {})

BridgeFailed == In(2) /\ Retain("bridge-failed", "closing", "entry-close-failure")

EntryClose == In(2) /\ CloseOwner("closing", "closed")

\* _new_entry_limits: the work ends a cleanup interval before the final fence.
NewEntryWindow ==
  LET final == Least(now + Work + Clean, JobEnd)
      work  == Least(now + Work, IF final > Clean THEN final - Clean ELSE 0)
  IN [Opened(Work, Clean) EXCEPT !.work = work, !.final = final]

EntryReturn == Publish("closed", 2, InTime, NewEntryWindow)

-----------------------------------------------------------------------------
(* Stage 3: readmit_closed_entry.                                             *)

ReadmitOpen ==
  In(3) /\ Step("start", "read-1", "failed", Live(FALSE), {}, {}, {"directories"})

ReadFirst == In(3) /\ Step("read-1", "admit", "failed", Live(FALSE), EntryOriginals, {}, {})

ReadmitAdmit ==
  In(3) /\ Step("admit", "read-2", "failed", Live(FALSE), {}, {"readmission"}, {"directories"})

ReadSecond ==
  In(3) /\ Step("read-2", "read-3", "failed", Live(FALSE), EntryOriginals \cup {"readmission"},
                {"new-entry-pending"}, {})

ReadThird ==
  In(3) /\ Step("read-3", "closing", "failed", Live(FALSE),
                EntryOriginals \cup {"readmission", "new-entry-pending"}, {}, {})

ReadmitFailed == In(3) /\ Retain("failed", "closing", "new-entry-failure")
ReadmitClose == In(3) /\ CloseOwner("closing", "closed")
ReadmitReturn == Publish("closed", 3, InTime, Opened(Work, Clean))

EntryNext ==
  \/ PrepareOpen \/ PrepareAdmit \/ PrepareContext
  \/ PhaseEnter \/ PhaseSetup \/ PhaseStreams \/ PhaseSpawn \/ PhaseBirth \/ PhasePoll \/ PhaseDrain
  \/ PhaseCaptures \/ PhaseReceipt \/ PhaseLeave("revalidate")
  \/ Revalidate \/ FinalAdmit \/ OriginResult \/ PrepareFailed \/ PrepareClose
  \/ HandoffOpen \/ HandoffWrite \/ HandoffClose \/ HandoffReturn
  \/ AdoptOpen \/ AdoptPrepared \/ AdoptAdmit \/ ExecutionEntry \/ AdoptionResult \/ AdoptFailed
  \/ BridgePending \/ BridgeRecheck \/ BridgeFailed \/ EntryClose \/ EntryReturn
  \/ ReadmitOpen \/ ReadFirst \/ ReadmitAdmit \/ ReadSecond \/ ReadThird
  \/ ReadmitFailed \/ ReadmitClose \/ ReadmitReturn

=============================================================================
