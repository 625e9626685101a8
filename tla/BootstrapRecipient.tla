------------------------- MODULE BootstrapRecipient -------------------------
(* Stages 4 and 5 of the bootstrap: the recipient is validated in a native    *)
(* child (_recipient_after_entry, recipient_child), then a second child       *)
(* initializes the canonical state (_initialize_claimed).                     *)
EXTENDS BootstrapEntry, HostedParent

\* read_originals: preparation, adoption and readmission.
Readmitted == EntryOriginals \cup {"readmission", "new-entry-pending"}

\* private_inputs: what the recipient child is launched on.
RecipientInputs == {"allocation", "recipient-context", "recipient-start"}
RecipientChildRecords == {"recipient-admission", "recipient-child"}
RecipientFiles ==
  RecipientInputs \cup RecipientChildRecords
    \cup {"recipient-baseline", "recipient-native-start", "recipient-captures", "recipient-result"}

-----------------------------------------------------------------------------
(* Stage 4: the recipient.                                                    *)

\* Claim, window 240/285/315 s under the proposal's fences, handlers, host.
RecipientOpen == In(4) /\ ParentStep("start", "originals", {}, {}, {"directories"})

RecipientOriginals ==
  In(4) /\ ParentStep("originals", "context", Readmitted, {}, {"directories"})

\* The session, its directories, allocation, context and start records.
RecipientContext == In(4) /\ ParentStep("context", "streams", {}, RecipientInputs, {"directories"})

RecipientStreams == In(4) /\ ParentStreams("streams", "spawn", {"recipient-baseline"})
RecipientSpawn == In(4) /\ ParentSpawn("spawn", "birth", Readmitted \cup RecipientInputs)
RecipientBirth == In(4) /\ ParentBirth("birth", "poll", {"recipient-native-start"})
RecipientPoll == In(4) /\ ParentPoll("poll")
RecipientFinish == In(4) /\ (FinishKnown("begin-read") \/ FinishUnknown)
RecipientBeginRead == In(4) /\ BeginRead("begin-read", "read-child")

\* read_child: captures, child-result, its admission; native_content; reread.
RecipientReadChild ==
  In(4) /\ ParentStep("read-child", "result", RecipientChildRecords \cup Readmitted
                        \cup (RecipientInputs \cup {"recipient-baseline", "recipient-native-start"}),
                      {"recipient-captures"}, {})

RecipientResult == In(4) /\ ParentStep("result", "pending", {}, {"recipient-result"}, {})

RecipientPending ==
  In(4) /\ ParentStep("pending", "reread", RecipientFiles, {"recipient-pending"}, {})

RecipientReread ==
  In(4) /\ ParentStep("reread", "closing", RecipientFiles \cup Readmitted \cup {"recipient-pending"},
                      {}, {})

RecipientFailed == In(4) /\ ParentRetain("recipient-failure")
RecipientClose == In(4) /\ ParentClose

\* HANDED_OFF: the initializer is claimed with the closed recipient's records.
RecipientReturn == ParentReturn(4, Opened(Work, Clean))

\* recipient_child: a metadata owner is closed before the operative one opens;
\* the inputs are compared four times, the last after child-result.json.
RecipientChild ==
  /\ In(4)
  /\ LET rd == RecipientInputs \cup {"context", "admission", "responses"}
     IN ChildWrites(rd, RecipientChildRecords) \/ ChildReturns \/ ChildFails(rd)

-----------------------------------------------------------------------------
(* Stage 5: the initializer.                                                  *)

\* recipient_originals: every record of the closed recipient.
RecipientChain == RecipientFiles \cup {"recipient-pending"}
InitializerInputs == {"recipient-closed", "init-request", "init-admission", "init-context", "init-start"}
InitializerFiles ==
  InitializerInputs \cup {"init-baseline", "init-native-start", "init-captures", "canonical", "init-result"}

InitializerOpen ==
  In(5) /\ ParentStep("start", "originals", {}, {}, {"directories"})

InitializerOriginals ==
  In(5) /\ ParentStep("originals", "request", Readmitted \cup RecipientChain, {}, {"directories"})

\* The toolchains and the interpreter fix the request; the state is absent.
InitializerRequest ==
  In(5) /\ ParentStep("request", "admit", {}, {"recipient-closed", "init-request"}, {})

InitializerAdmit == In(5) /\ ParentStep("admit", "context", {}, {"init-admission"}, {"directories"})

\* Originals and absent outputs once more, then context and start.
InitializerContext ==
  In(5) /\ ParentStep("context", "streams", Readmitted \cup RecipientChain,
                      {"init-context", "init-start"}, {})

InitializerStreams == In(5) /\ ParentStreams("streams", "spawn", {"init-baseline"})
InitializerSpawn ==
  In(5) /\ ParentSpawn("spawn", "birth", Readmitted \cup RecipientChain \cup InitializerInputs)
InitializerBirth == In(5) /\ ParentBirth("birth", "poll", {"init-native-start"})
InitializerPoll == In(5) /\ ParentPoll("poll")
InitializerFinish == In(5) /\ (FinishKnown("begin-read") \/ FinishUnknown)
InitializerBeginRead == In(5) /\ BeginRead("begin-read", "read-child")

InitializerReadChild ==
  In(5) /\ ParentStep("read-child", "pending",
                      Readmitted \cup (InitializerInputs \cup {"init-baseline", "init-native-start", "canonical"}),
                      {"init-captures", "init-result"}, {})

InitializerPending ==
  In(5) /\ ParentStep("pending", "reread", {}, {"init-pending"}, {})

\* reread_files compares the recipient's records too, by private_inputs.
InitializerReread ==
  In(5) /\ ParentStep("reread", "closing",
                      InitializerFiles \cup Readmitted \cup RecipientChain \cup {"init-pending"}, {}, {})

InitializerFailed == In(5) /\ ParentRetain("init-failure")
InitializerClose == In(5) /\ ParentClose
InitializerReturn == ParentReturn(5, Opened(Work + Clean, 0))

\* The canonical init command, which knows only its request.
InitializerChild ==
  /\ In(5)
  /\ ChildWrites({"init-request"}, {"canonical"}) \/ ChildReturns \/ ChildFails({"init-request"})

RecipientNext ==
  \/ RecipientOpen \/ RecipientOriginals \/ RecipientContext \/ RecipientStreams \/ RecipientSpawn
  \/ RecipientBirth \/ RecipientPoll \/ RecipientFinish \/ RecipientBeginRead
  \/ RecipientReadChild \/ RecipientResult \/ RecipientPending \/ RecipientReread
  \/ RecipientFailed \/ RecipientClose \/ RecipientReturn
  \/ InitializerOpen \/ InitializerOriginals \/ InitializerRequest \/ InitializerAdmit
  \/ InitializerContext \/ InitializerStreams \/ InitializerSpawn \/ InitializerBirth
  \/ InitializerPoll \/ InitializerFinish \/ InitializerBeginRead \/ InitializerReadChild
  \/ InitializerPending \/ InitializerReread \/ InitializerFailed \/ InitializerClose
  \/ InitializerReturn

=============================================================================
