------------------------ MODULE BootstrapCollection ------------------------
(* Stages 10 and 11 of the bootstrap: the reports of the producer are copied  *)
(* into private custody (_run_collection_phase with its leaf                  *)
(* hosted_cache_bootstrap_collect_files.py), and the Gradle home is shown to  *)
(* hold no loader configuration (_no_loader_parent_controls with its leaf     *)
(* hosted_cache_bootstrap_no_loader.py).  Neither has a native child.         *)
EXTENDS BootstrapProducer

\* read_originals: every predecessor and the closed producer's records.
CollectionOriginals == ProducerOriginals \cup ProducerFiles

\* state_readback: the canonical state, the staging and the request.
StateInputs == {"canonical", "init-context", "staging", "reservation"}

-----------------------------------------------------------------------------
(* The binding of the collection to the closed producer.  It is passive: it   *)
(* observes no clock, file or process, and a refusal reopens nothing.         *)

\* _collection_origin_controls: claimed once, before the producer was called;
\* the actual return is kept before any check of it.
OriginReturned == at = [stage |-> 9, pc |-> "bind"] /\ 9 \notin published

\* _collection_closed_producer: COMPLETE and known, every resource closed once,
\* all four phases behind it, the child retired, nobody in quarantine.
ClosedProducer ==
  /\ own.closed /\ ~own.failed /\ ~own.unknown /\ own.held = {} /\ own.phase = "READ"
  /\ child.st = "gone" /\ ~child.tree /\ ~quarantine

\* The producer's five records, as they were kept, against its return.
ProducerKept ==
  {"outer-start", "producer-baseline", "producer-native-start", "canonical-start",
   "canonical-receipt"} \subseteq disk.written

\* The collection's window: 120, 165 and 195 seconds.
CollectionBind ==
  OriginReturned /\ Publish("bind", 9, ClosedProducer /\ ProducerKept, Opened(Work, Clean))

-----------------------------------------------------------------------------
(* Stage 10: the collection.                                                  *)

\* _CollectionPhaseOwner.end with _CollectionPhaseParent.live and cancel; this
\* owner acquires nothing after WORK.
CollectionStep(p, q, rd, wr, tk) == Step(p, q, "advance", ParentLive, rd, wr, tk)

\* Claim, window, owner, signal handlers.
CollectionOpen == In(10) /\ CollectionStep("start", "originals", {}, {}, {"directories"})

CollectionRead ==
  In(10) /\ CollectionStep("originals", "admit", CollectionOriginals \cup StateInputs, {}, {"directories"})

\* source_inputs and a fresh admission by a new supplier of native queries.
CollectionAdmit ==
  In(10) /\ Step("admit", "query-final", "query-final", ParentLive, {}, {"collection-admission"}, {"leaf"})

\* The supplier is finalized whatever failed: its rows are pinned before, and
\* the same rows, all closed, and one session receipt must be there after.
QueryFinal == In(10) /\ LeafClose("query-final", "recheck")

\* source_inputs, originals and state again, then the report manifest.
CollectionManifest ==
  In(10) /\ CollectionStep("recheck", "leaf", CollectionOriginals \cup StateInputs, {"manifest"}, {})

\* A failed copy never earns a second one.
LeafOnce == "collected" \notin disk.written

\* collect_inventory: the reports are copied member by member, then compared.
CollectInventory ==
  In(10) /\ Step("leaf", "leaf-closing", "leaf-closing", ParentLive /\ LeafOnce,
                 {"manifest", "canonical-receipt"}, {"collected"}, {"leaf"})

CollectionLeafClose ==
  In(10) /\ LeafClose("leaf-closing", "after")

\* validate_leaf, current_membership, sources and originals once more.
CollectionAfter ==
  In(10) /\ CollectionStep("after", "reread", CollectionOriginals \cup StateInputs \cup {"collected"},
                           {"collection-pending"}, {})

CollectionReread ==
  In(10) /\ CollectionStep("reread", "advance", {"collection-admission", "manifest", "collection-pending"},
                           {}, {})

\* _close_collection_phase: FINAL, the roster, the close, the handlers.
CollectionAdvance ==
  /\ In(10) /\ at.pc \in {"advance", "closing"} /\ own.phase = "WORK" /\ Smooth
  /\ own' = Final /\ at' = [at EXCEPT !.pc = "closing"]
  /\ UNCHANGED <<disk, child, quarantine>> /\ Frame

CollectionClose == In(10) /\ own.phase = "FINAL" /\ CloseOwner("closing", "closed")

\* READ opens only after a known close, before the end of FINAL.
CollectionBeginRead ==
  /\ In(10) /\ at.pc = "closed" /\ Smooth
  /\ IF InTime /\ ~own.failed /\ ~own.unknown
       THEN /\ own' = [own EXCEPT !.phase = "READ", !.read = Least(@, now + Clean)]
            /\ at' = [at EXCEPT !.pc = "returning"]
       ELSE own' = [own EXCEPT !.failed = TRUE] /\ at' = [at EXCEPT !.pc = "raised"]
  /\ UNCHANGED <<disk, child, quarantine>> /\ Frame

CollectionReturn == Publish("returning", 10, ParentInTime, Opened(Work, Clean))

-----------------------------------------------------------------------------
(* Stage 11: the absence of a loader.                                         *)

\* end(): the first phase, nothing failed or cancelled, nobody in quarantine.
NoLoaderLive == Live(FALSE)

\* The owner of at most two public directories; it writes nothing.
NoLoaderOpen == In(11) /\ Step("start", "leaf", "closing", NoLoaderLive, {}, {}, {})

\* acquire: an allocation that raises, or returns a borrowed directory, is
\* unknown.
NoLoaderAcquire(p, q, tk) == Step(p, q, q, NoLoaderLive, {}, {}, tk)

\* observe_absence lists the home and its init.d and finds no loader file.
ObserveAbsence == In(11) /\ NoLoaderAcquire("leaf", "leaf-closing", {"leaf"})

NoLoaderLeafClose == In(11) /\ LeafClose("leaf-closing", "closing")

\* The final interval begins with the close.
NoLoaderClose == In(11) /\ CloseOwner("closing", "closed")

NoLoaderReturn == Publish("closed", 11, InTime, Opened(Work, Clean))

CollectionNext ==
  \/ CollectionBind \/ CollectionOpen \/ CollectionRead \/ CollectionAdmit \/ QueryFinal
  \/ CollectionManifest \/ CollectInventory
  \/ CollectionLeafClose \/ CollectionAfter \/ CollectionReread \/ CollectionAdvance
  \/ CollectionClose \/ CollectionBeginRead \/ CollectionReturn
  \/ NoLoaderOpen \/ ObserveAbsence \/ NoLoaderLeafClose \/ NoLoaderClose \/ NoLoaderReturn

=============================================================================
