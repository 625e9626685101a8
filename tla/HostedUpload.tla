---------------------------- MODULE HostedUpload ----------------------------
(* scripts/run-hosted-initial-recipient-upload.py: three processes the action *)
(* that uploads the encrypted artifact starts, one after the other, and talks *)
(* to through their standard streams.  stream hands over the members as one   *)
(* stored archive, piece by piece on demand; finish retains what the service  *)
(* returned for it; after retains what the service says of it later.  Each    *)
(* reads the pending record and all its originals through an owner of its     *)
(* own, closes the owner before its last frame, and closes each stream once.  *)
EXTENDS CustodyTail

Pipes == {"stdin", "stdout", "stderr"}

\* upload_caps, after_caps: the stream starts before the seal's end, and the
\* ends of stream, finish and after are the original ones, whenever a process
\* starts.  own.old keeps the work and close ends of the stream.
UploadOwner(w, c) == [Opened(0, 0) EXCEPT !.read = own.read, !.work = w, !.final = c, !.old = own.old]

UploadStarts(q, ok, next) ==
  /\ at.pc = "start" /\ Smooth
  /\ IF ok /\ ~cancelled /\ ~quarantine
       THEN at' = [at EXCEPT !.pc = q] /\ own' = next
       ELSE at' = [at EXCEPT !.pc = "raised"] /\ own' = [own EXCEPT !.failed = TRUE]
  /\ UNCHANGED <<disk, child, quarantine>> /\ Frame

\* _Pipes.configure: the three streams are the pipes they were.
Configure(p, q) == Step(p, q, "closing", Live(FALSE), {}, {}, Pipes)

\* _Pipes.demand, control and frame wait for the other side without blocking,
\* until the work ends.  The other side may send something else or go away: a
\* failure that leaves nothing unknown.
Talk(p, q, e) ==
  /\ at.pc = p
  /\ \/ /\ Live(FALSE) /\ Smooth /\ at' = [at EXCEPT !.pc = q] /\ UNCHANGED own
     \/ /\ IF Live(FALSE) THEN Raised ELSE Smooth
        /\ at' = [at EXCEPT !.pc = e] /\ own' = [own EXCEPT !.failed = TRUE]
  /\ UNCHANGED <<disk, child, quarantine>> /\ Frame

\* _inputs: the private directory, the pending record, the deadline and both
\* manifests, through the owner ("leaf").
Inputs(p, q, ins) == Step(p, q, "leaf-closing", Live(FALSE), ins, {}, {"leaf"})

\* Whatever failed, the owner is finished before the streams are closed.
UploadOwnerClose(q) == LeafClose("leaf-closing", q)

\* _Pipes.close: each stream once; one that cannot be closed is QUARANTINE.
PipesClose == CloseOwner("closing", "closed")

-----------------------------------------------------------------------------
(* stream.                                                                    *)

StreamStart(s, start, end) ==
  LET c == Least(now + Work + Clean, end)
      w == c - Clean
  IN In(s) /\ UploadStarts("configure", now < start /\ now < w, [UploadOwner(w, c) EXCEPT !.old = <<w, c>>])

StreamConfigure(s) == In(s) /\ Configure("configure", "inputs")
StreamInputs(s, ins) == In(s) /\ Inputs("inputs", "ready", ins)

\* The ready frame, then a demand for every piece.
StreamDemand(s) == In(s) /\ (Talk("ready", "demand", "leaf-closing") \/ Talk("demand", "member", "leaf-closing"))

\* _member: each piece is read and hashed against the declaration before the
\* last one is framed; then every input once more.
StreamMember(s, ins) ==
  /\ In(s)
  /\ \/ Step("member", "demand", "leaf-closing", Live(FALSE), {"upload-output"} \cap ins, {}, {})
     \/ Step("member", "leaf-closing", "leaf-closing", Live(FALSE), ins, {}, {})

\* The final frame, only after a known close; then the other side ends.
StreamFinal(s) == In(s) /\ (UploadOwnerClose("final") \/ Talk("final", "closing", "closing"))

StreamClose(s) == In(s) /\ PipesClose
StreamReturn(s) == Publish("closed", s, InTime, SameWindow)

-----------------------------------------------------------------------------
(* finite: finish and after.                                                  *)

FinishStart(s, end) == In(s) /\ UploadStarts("configure", now < end, UploadOwner(end, end))

\* The control frame brings the stream's ready and final records; from then on
\* the ends of the stream hold (tighten_finish).
FinishControl(s) == In(s) /\ (Configure("configure", "control") \/ Talk("control", "tighten", "closing"))

Tighten(s) ==
  /\ In(s) /\ at.pc = "tighten" /\ Smooth
  /\ IF now < own.old[1]
       THEN /\ at' = [at EXCEPT !.pc = "inputs"]
            /\ own' = [own EXCEPT !.work = own.old[1], !.final = own.old[2]]
       ELSE /\ at' = [at EXCEPT !.pc = "closing"] /\ own' = [own EXCEPT !.failed = TRUE]
  /\ UNCHANGED <<disk, child, quarantine>> /\ Frame

FinishInputs(s, ins) == In(s) /\ Inputs("inputs", "write", ins)

\* _returned_directory is created; upload-pending is written once and read back
\* after all the inputs.
FinishWrite(s, rec) == In(s) /\ Step("write", "reread", "leaf-closing", Live(FALSE), {}, {rec}, {})
FinishReread(s, ins, rec) ==
  In(s) /\ Step("reread", "leaf-closing", "leaf-closing", Live(FALSE), ins \cup {rec}, {}, {})

\* after: a short clock of its own; what finish retained is read before the
\* ready frame and once more after the write.
AfterStart(s, start, end) ==
  In(s) /\ UploadStarts("configure", now < start /\ now < end, UploadOwner(Least(now + Work, end), Least(now + Work, end)))

AfterConfigure(s) == In(s) /\ Configure("configure", "inputs")
AfterInputs(s, ins, old) == In(s) /\ Inputs("inputs", "ready", ins \cup {old})
AfterControl(s) == In(s) /\ (Talk("ready", "control", "leaf-closing") \/ Talk("control", "write", "leaf-closing"))

StreamNext(s, start, end, ins) ==
  \/ StreamStart(s, start, end) \/ StreamConfigure(s) \/ StreamInputs(s, ins) \/ StreamDemand(s)
  \/ StreamMember(s, ins) \/ StreamFinal(s) \/ StreamClose(s) \/ StreamReturn(s)

FinishNext(s, end, ins, rec) ==
  \/ FinishStart(s, end) \/ FinishControl(s) \/ Tighten(s) \/ FinishInputs(s, ins) \/ FinishWrite(s, rec)
  \/ FinishReread(s, ins, rec) \/ StreamFinal(s) \/ StreamClose(s) \/ StreamReturn(s)

AfterNext(s, start, end, ins, old, rec) ==
  \/ AfterStart(s, start, end) \/ AfterConfigure(s) \/ AfterInputs(s, ins, old) \/ AfterControl(s)
  \/ FinishWrite(s, rec) \/ FinishReread(s, ins \cup {old}, rec) \/ StreamFinal(s) \/ StreamClose(s)
  \/ StreamReturn(s)

=============================================================================
