------------------------ MODULE ProviderProofs ------------------------
(* What ProviderSupervisor promises, for every window, every bound on faults,  *)
(* writes and cancellations and both native routes: the exit code is truthful  *)
(* (ExitTruthful) and no file is released beneath a writer (PinsHeld).         *)
(*                                                                             *)
(* The argument goes from the inside out.  CaptureInv relates one capture to   *)
(* the provider's processes; WorkerInv carries it through the worker process,  *)
(* whose death at any point leaves the provider behind; SupInv relates the     *)
(* supervisor's phases to the worker, the provider and the packet; EntryInv    *)
(* relates the entry's exit code to the supervisor and the cancellation pipe.  *)
(* Each operator on a record has an effect lemma: what it sets, and that it    *)
(* leaves every other field alone.                                             *)
EXTENDS ProviderSupervisor, TLAPS
-----------------------------------------------------------------------------
(* Types.                                                                    *)

SlotStates == {"none", "held", "closed", "lost"}
BeforeSpawn == {"entered", "stdout", "stderr", "command", "scope", "spawn"}
ReadPcs == {"stdout read", "stderr read", "command read",
            "stdout written", "stderr written", "command written"}
CapturePcs == BeforeSpawn \cup ReadPcs \cup
  {"wait", "polled", "exit", "drain", "scope closing", "close", "conclude", "done"}
CaptureRecord ==
  [pc : CapturePcs, slots : [Names -> SlotStates], prepared : BOOLEAN, child : BOOLEAN,
   code : 0..2, waited : BOOLEAN, failed : BOOLEAN, unknown : BOOLEAN, boundary : BOOLEAN,
   fresh : BOOLEAN, eligible : BOOLEAN, retired : BOOLEAN, todo : Seq(Names),
   seen : [Streams -> Nat], verified : SUBSET Streams, outcome : {"none", "result", "failure", "raised"}]
ProviderRecord == [leader : {"none", "run", "gone"}, helper : BOOLEAN, code : 0..2, written : Nat]

AfterCapture == {"tools", "packet", "write", "closing", "ack", "receipt"}
WorkerRecord == [pc : {"none", "roots", "capture", "gone"} \cup AfterCapture, code : Nat]
PacketRecord ==
  [state : {"none", "partial", "whole", "replaced"}, of : {"none", "result", "failure", "raised"},
   seen : [Streams -> Nat], ack : BOOLEAN]

BeforeLaunch == {"idle", "capture_directory", "scope", "bundle", "stdout", "stderr", "spawn"}
Undrained == BeforeLaunch \cup {"wait", "polled", "finish", "drain", "scope closing"}
Readback == {"persist", "read stdout", "read stderr", "read packet"}
SupervisorRecord ==
  [pc : Undrained \cup Readback \cup {"closes", "transcript", "send", "returned"},
   slots : [Owners -> SlotStates], failed : BOOLEAN, unknown : BOOLEAN, fresh : BOOLEAN,
   boundary : BOOLEAN, waiting : BOOLEAN, code : Nat, qualified : BOOLEAN, retired : BOOLEAN,
   returned : {"none", "result", "failure", "raised"}, control : BOOLEAN, todo : {<<>>},
   transcript : {"none", "failed", "passed"}, sent : BOOLEAN]
EntryRecord ==
  [pc : {"control", "directory", "home", "call", "running", "restore", "complete", "exit", "retire", "close",
         "done"},
   signalled : BOOLEAN, seen : BOOLEAN, broken : BOOLEAN, pin : {"none", "active", "retired"},
   handlers : BOOLEAN, called : BOOLEAN, failed : BOOLEAN, cancelled : BOOLEAN, unknown : BOOLEAN,
   code : Nat, exit : Nat, sentAtRetire : Nat]

TypeOK ==
  /\ now \in Nat /\ role \in {"posix", "windows"} /\ faults \in Nat
  /\ prov \in ProviderRecord /\ cap \in CaptureRecord /\ wk \in WorkerRecord /\ packet \in PacketRecord
  /\ sup \in SupervisorRecord /\ ent \in EntryRecord
  /\ wire \in [unread : Nat, sent : Nat]

-----------------------------------------------------------------------------
(* The inductive invariant.                                                  *)

Unstarted(p) == p.leader = "none" /\ ~p.helper
Succeeded(p) == p.leader = "gone" /\ ~p.helper /\ p.code = 0
SeenAll(seen, p) == \A s \in Streams : seen[s] = p.written
FileClosed(c) == \E n \in Streams \cup {"directory"} : c.slots[n] = "closed"

\* What a capture holds while it runs, against the provider's processes.
HoldsOK(c, p) ==
  /\ c.pc \in BeforeSpawn => Unstarted(p)
  /\ c.pc \in BeforeSpawn \ {"spawn"} => c.slots["scope"] = "none"
  /\ c.pc \in {"spawn", "wait", "polled", "drain", "scope closing"} => c.slots["scope"] = "held"
  /\ c.pc = "exit" /\ c.slots["scope"] = "none" => Unstarted(p)
  /\ c.retired => ~Processes(p)
  /\ c.pc \in ReadPcs \cup {"close"} => c.retired
  /\ c.pc = "conclude" => c.retired \/ c.unknown
  /\ FileClosed(c) => c.retired
  /\ c.pc \in BeforeSpawn \cup {"wait", "polled", "exit", "drain", "scope closing"} =>
       ~FileClosed(c) /\ c.verified = {}
  /\ c.pc \in BeforeSpawn \cup {"wait", "polled", "exit", "drain"} => ~c.retired

\* What has been read when a capture is at pc.
ReadOK(c) ==
  /\ c.pc \in {"stderr read", "stderr written"} => "stdout" \in c.verified
  /\ c.pc \in {"command read", "command written"} => Logs \subseteq c.verified
  /\ c.pc \in {"close", "conclude"} => c.verified = Streams

\* What a capture that has not failed may say about the provider.
ResultOK(c, p) ==
  /\ c.pc \in {"spawn", "wait", "polled"} => c.prepared
  /\ c.pc \in {"wait", "polled"} => c.child
  /\ c.pc = "polled" => p.leader = "gone" /\ c.code = p.code
  /\ c.pc \in {"exit", "drain", "scope closing", "close", "conclude"} \cup ReadPcs /\ ~c.failed /\ ~c.unknown =>
       /\ p.leader = "gone" /\ p.code = 0
       /\ c.prepared /\ c.child
       /\ c.pc = "exit" => c.slots["scope"] = "held"
       /\ c.pc # "exit" => c.eligible
       /\ ReadOK(c)
  /\ c.fresh => c.failed
  /\ c.retired => \A s \in c.verified : c.seen[s] = p.written
  /\ c.pc # "done" => c.outcome = "none"
  /\ c.outcome = "result" => Succeeded(p) /\ SeenAll(c.seen, p)

CaptureOK == wk.pc # "gone" => HoldsOK(cap, prov) /\ ResultOK(cap, prov)

WorkerOK ==
  /\ wk.pc \in {"none", "roots", "gone"} => cap = NewCapture
  /\ wk.pc \in AfterCapture => cap.pc = "done"
  /\ wk.pc = "none" => Unstarted(prov)
  /\ packet.of # "none" => wk.pc \in {"closing", "ack", "receipt", "gone"}
  /\ packet.of = "result" => Succeeded(prov) /\ SeenAll(packet.seen, prov)

SupFileClosed(s) == \E n \in FileOwners : s.slots[n] = "closed"
Released(s) == \A n \in Owners : s.slots[n] \in {"none", "closed"}

\* What the supervisor holds, against the worker and the provider.
SupHolds(s, w, p) ==
  /\ s.pc \in BeforeLaunch => w.pc = "none"
  /\ s.pc \in {"bundle", "stdout", "stderr", "spawn", "wait", "polled", "drain", "scope closing"} =>
       s.slots["scope"] = "held"
  /\ s.pc = "finish" /\ s.slots["scope"] = "none" => w.pc = "none"
  /\ s.waiting => s.slots["scope"] # "none"
  /\ s.retired => ~Processes(p) /\ w.pc \in {"none", "gone"}
  /\ s.pc \in Undrained \ {"scope closing"} => ~s.retired
  /\ s.pc \in Readback \cup {"closes", "transcript", "send"} => s.retired
  /\ SupFileClosed(s) => s.retired \/ s.pc = "idle"
  /\ s.pc \in Undrained \ {"idle"} => ~SupFileClosed(s)

\* What a supervisor that has not failed may say about the packet, of.
SupResult(s, of) ==
  /\ s.pc \in Undrained \cup Readback => ~s.control
  /\ s.pc \in Readback \cup {"transcript", "send"} => s.waiting
  /\ s.waiting /\ ~s.failed /\ s.pc \in {"finish", "drain", "scope closing"} \cup Readback => s.code = 0
  /\ s.pc \in {"closes", "transcript"} /\ s.waiting /\ ~s.failed /\ ~s.control => s.returned = "result"
  /\ s.pc = "send" /\ ~s.failed => s.returned = "result"
  /\ s.returned = "result" => of = "result"
  /\ s.pc = "send" => Released(s) /\ ~s.unknown
  /\ s.sent => /\ s.pc = "returned" /\ s.retired /\ Released(s) /\ ~s.unknown
               /\ ~s.failed => s.returned = "result"

SupervisorOK == SupHolds(sup, wk, prov) /\ SupResult(sup, packet.of)

\* The entry, its control pipe and its exit code, against the supervisor.
EntryInv(e, s, w) ==
  /\ e.called <=> s.pc # "idle"
  /\ e.pc \in {"control", "directory", "home", "call"} =>
       ~e.called /\ (\A n \in FileOwners : s.slots[n] # "closed")
  /\ e.pc \in {"directory", "home", "call"} => e.pin = "active"
  /\ e.pc = "running" => e.called
  /\ s.pc # "idle" /\ e.pc # "running" => s.pc = "returned"
  /\ e.called => e.pin = "active" \/ e.pc = "done"
  /\ e.called /\ e.pc \notin {"running"} /\ ~e.failed => ~s.failed
  /\ e.cancelled => s.failed
  /\ e.seen => e.signalled
  /\ ~e.seen /\ ~e.broken /\ e.pc # "done" => w.unread = w.sent
  /\ e.pc \in {"complete", "exit", "retire", "close"} => ~e.handlers
  /\ e.pc \notin {"retire", "close", "done"} => e.code = NoCode
  /\ e.pc = "exit" \/ e.code \in {0, FAILED_CAPTURE_EXIT} => e.called /\ ~e.unknown /\ (e.signalled => e.failed)
  /\ e.code \in {0, FAILED_CAPTURE_EXIT} => s.sent
  /\ e.code = 0 => ~e.failed \/ e.pc = "done"
  /\ e.code = 0 /\ e.pc = "close" => ~e.signalled /\ e.sentAtRetire = 0
  /\ e.pc # "done" => e.exit = NoCode
  /\ e.exit \in {0, FAILED_CAPTURE_EXIT} => e.called /\ ~e.unknown /\ s.sent
  /\ e.exit = 0 => ~s.failed /\ ~e.signalled /\ e.sentAtRetire = 0
EntryOK == EntryInv(ent, sup, wire)

SupervisorInv == TypeOK /\ CaptureOK /\ WorkerOK /\ SupervisorOK /\ EntryOK
CaptureInv(c, p) == c \in CaptureRecord /\ p \in ProviderRecord /\ HoldsOK(c, p) /\ ResultOK(c, p)

-----------------------------------------------------------------------------
(* The operators on a capture: what each of them changes.                    *)

Fields == {"pc", "slots", "prepared", "child", "code", "waited", "failed", "unknown", "boundary", "fresh",
           "eligible", "retired", "todo", "seen", "verified", "outcome"}

\* d is c except for the fields in F.
Only(c, d, F) == \A f \in Fields \ F : d[f] = c[f]

LEMMA SlotNames ==
  /\ {"directory", "scope", "stdout", "stderr", "command"} \subseteq Names
  /\ \A s \in Streams : Reader(s) \in Names /\ s \in Names /\ Reader(s) \notin Streams \cup {"directory", "scope"}
  BY DEF Names, Streams, Logs, Readers, Reader

LEMMA CapturePcNames ==
  /\ BeforeSpawn \subseteq CapturePcs /\ ReadPcs \subseteq CapturePcs
  /\ {"wait", "polled", "exit", "drain", "scope closing", "close", "conclude", "done"} \subseteq CapturePcs
  BY DEF CapturePcs

LEMMA PcEffect ==
  ASSUME NEW c \in CaptureRecord, NEW q \in CapturePcs
  PROVE  /\ [c EXCEPT !.pc = q] \in CaptureRecord
         /\ [c EXCEPT !.pc = q].pc = q
         /\ Only(c, [c EXCEPT !.pc = q], {"pc"})
  BY DEF CaptureRecord, Only, Fields

LEMMA FailedEffect ==
  ASSUME NEW c \in CaptureRecord, NEW u \in BOOLEAN
  PROVE  /\ Failed(c, u) \in CaptureRecord
         /\ Failed(c, u).failed /\ Failed(c, u).fresh /\ (Failed(c, u).unknown <=> (c.unknown \/ u))
         /\ Only(c, Failed(c, u), {"failed", "fresh", "unknown"})
  BY DEF Failed, CaptureRecord, Only, Fields

LEMMA SlotEffect ==
  ASSUME NEW c \in CaptureRecord, NEW n \in Names, NEW v \in SlotStates
  PROVE  /\ [c EXCEPT !.slots[n] = v] \in CaptureRecord
         /\ [c EXCEPT !.slots[n] = v].slots = [c.slots EXCEPT ![n] = v]
         /\ Only(c, [c EXCEPT !.slots[n] = v], {"slots"})
  BY DEF CaptureRecord, Only, Fields

Closing(c, n, d) == d = CloseReturns(c, n) \/ d = CloseRaises(c, n)

\* After an attempt to close n the owner is closed or lost, and an error is
\* recorded when it is lost or when the end was missed.
LEMMA CloseEffect ==
  ASSUME NEW c \in CaptureRecord, NEW n \in Names, NEW d,
         Closing(c, n, d)
  PROVE  /\ d \in CaptureRecord
         /\ \E v \in {"closed", "lost"} : d.slots = [c.slots EXCEPT ![n] = v] /\ (v = "lost" => d.failed /\ d.unknown)
         /\ Only(c, d, {"slots", "failed", "fresh", "unknown"})
         /\ ~d.failed => ~c.failed /\ d.fresh = c.fresh /\ InFinal
         /\ ~d.unknown => ~c.unknown
         /\ c.unknown => d.unknown
<1> DEFINE b == Postcheck(c)
<1>1. /\ b \in CaptureRecord /\ Only(c, b, {"failed", "fresh", "unknown"})
      /\ ~b.failed => ~c.failed /\ b.fresh = c.fresh /\ InFinal
      /\ b.unknown <=> c.unknown
  <2>1. CASE InFinal
    BY <2>1 DEF Postcheck, Only, Fields
  <2>2. CASE ~InFinal
    BY <2>2, FailedEffect DEF Postcheck
  <2> QED
    BY <2>1, <2>2
<1> HIDE DEF b
<1>2. CASE d = CloseReturns(c, n)
  <2> DEFINE e == [b EXCEPT !.slots[n] = "closed"]
  <2>1. /\ e \in CaptureRecord /\ e.slots = [b.slots EXCEPT ![n] = "closed"] /\ Only(b, e, {"slots"})
    BY <1>1, SlotEffect DEF SlotStates
  <2>2. d = Postcheck(e)
    BY <1>2 DEF CloseReturns, b
  <2> HIDE DEF e
  <2>3. /\ d \in CaptureRecord /\ Only(e, d, {"failed", "fresh", "unknown"})
        /\ ~d.failed => ~e.failed /\ d.fresh = e.fresh
        /\ d.unknown <=> e.unknown
    <3>1. CASE InFinal
      BY <2>1, <2>2, <3>1 DEF Postcheck, Only, Fields
    <3>2. CASE ~InFinal
      BY <2>1, <2>2, <3>2, FailedEffect DEF Postcheck
    <3> QED
      BY <3>1, <3>2
  <2>4. d.slots = [c.slots EXCEPT ![n] = "closed"]
    BY <1>1, <2>1, <2>3 DEF Only, Fields
  <2>5. Only(c, d, {"slots", "failed", "fresh", "unknown"})
    BY <1>1, <2>1, <2>3 DEF Only
  <2>6. e.failed = b.failed /\ e.fresh = b.fresh /\ e.unknown = b.unknown
    BY <2>1 DEF Only, Fields
  <2> QED
    BY <1>1, <2>3, <2>4, <2>5, <2>6
<1>3. CASE d = CloseRaises(c, n)
  <2> DEFINE e == [b EXCEPT !.slots[n] = "lost"]
  <2>1. /\ e \in CaptureRecord /\ e.slots = [b.slots EXCEPT ![n] = "lost"] /\ Only(b, e, {"slots"})
    BY <1>1, SlotEffect DEF SlotStates
  <2>2. d = Failed(e, TRUE)
    BY <1>3 DEF CloseRaises, b
  <2> HIDE DEF e
  <2>3. d \in CaptureRecord /\ d.failed /\ d.unknown /\ Only(e, d, {"failed", "fresh", "unknown"})
    BY <2>1, <2>2, FailedEffect
  <2>4. d.slots = [c.slots EXCEPT ![n] = "lost"]
    BY <1>1, <2>1, <2>3 DEF Only, Fields
  <2>5. Only(c, d, {"slots", "failed", "fresh", "unknown"})
    BY <1>1, <2>1, <2>3 DEF Only
  <2> QED
    BY <2>3, <2>4, <2>5
<1> QED
  BY <1>2, <1>3 DEF Closing

-----------------------------------------------------------------------------
(* The steps of a capture.                                                   *)

\* A field that an effect does not name is the same.
LEMMA Kept ==
  ASSUME NEW c, NEW d, NEW F, Only(c, d, F)
  PROVE  /\ "pc" \notin F => d.pc = c.pc
         /\ "slots" \notin F => d.slots = c.slots
         /\ "prepared" \notin F => d.prepared = c.prepared
         /\ "child" \notin F => d.child = c.child
         /\ "code" \notin F => d.code = c.code
         /\ "failed" \notin F => d.failed = c.failed
         /\ "unknown" \notin F => d.unknown = c.unknown
         /\ "fresh" \notin F => d.fresh = c.fresh
         /\ "eligible" \notin F => d.eligible = c.eligible
         /\ "retired" \notin F => d.retired = c.retired
         /\ "todo" \notin F => d.todo = c.todo
         /\ "seen" \notin F => d.seen = c.seen
         /\ "verified" \notin F => d.verified = c.verified
         /\ "outcome" \notin F => d.outcome = c.outcome
  BY DEF Only, Fields

LEMMA OnlyTwice ==
  ASSUME NEW c, NEW d, NEW e, NEW F, NEW G, Only(c, d, F), Only(d, e, G)
  PROVE  Only(c, e, F \cup G)
  BY DEF Only

\* A failure before the exit: the capture is left for its exit.
LEMMA FailureExits ==
  ASSUME NEW c, NEW p, NEW q \in ProviderRecord, NEW u \in BOOLEAN, CaptureInv(c, p),
         c.pc \in BeforeSpawn \cup {"wait", "polled"},
         q = p \/ c.slots["scope"] = "held"
  PROVE  CaptureInv(ToExit(Failed(c, u)), q)
<1> DEFINE b == Failed(c, u)
           d == [b EXCEPT !.pc = "exit"]
<1>1. /\ b \in CaptureRecord /\ b.failed /\ Only(c, b, {"failed", "fresh", "unknown"})
  BY FailedEffect DEF CaptureInv
<1>2. d \in CaptureRecord /\ d.pc = "exit" /\ Only(b, d, {"pc"})
  BY <1>1, PcEffect, CapturePcNames
<1>3. ToExit(Failed(c, u)) = d
  BY DEF ToExit
<1> HIDE DEF b, d
<1>4. /\ d.failed /\ d.slots = c.slots /\ d.retired = c.retired /\ d.verified = c.verified
      /\ d.seen = c.seen /\ d.outcome = c.outcome
  BY <1>1, <1>2, Kept
<1>5. c.pc \in BeforeSpawn => Unstarted(p)
  BY DEF CaptureInv, HoldsOK
<1>6. /\ ~c.retired /\ ~FileClosed(c) /\ c.verified = {} /\ c.outcome = "none"
      /\ c.pc \in BeforeSpawn \ {"spawn"} => c.slots["scope"] = "none"
      /\ c.pc \in {"spawn", "wait", "polled"} => c.slots["scope"] = "held"
  BY DEF CaptureInv, HoldsOK, ResultOK, BeforeSpawn
<1>7. HoldsOK(d, q)
  BY <1>2, <1>4, <1>5, <1>6 DEF HoldsOK, FileClosed, BeforeSpawn, ReadPcs
<1>8. ResultOK(d, q)
  BY <1>2, <1>4, <1>6 DEF ResultOK, BeforeSpawn, ReadPcs
<1> QED
  BY <1>2, <1>3, <1>7, <1>8 DEF CaptureInv

LEMMA CaptureFields ==
  ASSUME NEW c \in CaptureRecord
  PROVE  /\ c.slots \in [Names -> SlotStates] /\ c.verified \in SUBSET Streams /\ c.seen \in [Streams -> Nat]
         /\ c.todo \in Seq(Names) /\ c.pc \in CapturePcs /\ c.code \in 0..2
         /\ c.prepared \in BOOLEAN /\ c.child \in BOOLEAN /\ c.failed \in BOOLEAN /\ c.unknown \in BOOLEAN
         /\ c.fresh \in BOOLEAN /\ c.eligible \in BOOLEAN /\ c.retired \in BOOLEAN
  BY DEF CaptureRecord

Slotted(c, n, v, q) == [[c EXCEPT !.slots[n] = v] EXCEPT !.pc = q]

LEMMA SlottedEffect ==
  ASSUME NEW c \in CaptureRecord, NEW n \in Names, NEW v \in SlotStates, NEW q \in CapturePcs
  PROVE  /\ Slotted(c, n, v, q) \in CaptureRecord /\ Slotted(c, n, v, q).pc = q
         /\ Slotted(c, n, v, q).slots = [c.slots EXCEPT ![n] = v]
         /\ Only(c, Slotted(c, n, v, q), {"slots", "pc"})
<1> DEFINE b == [c EXCEPT !.slots[n] = v]
           d == [b EXCEPT !.pc = q]
<1>1. b \in CaptureRecord /\ b.slots = [c.slots EXCEPT ![n] = v] /\ Only(c, b, {"slots"})
  BY SlotEffect
<1>2. Slotted(c, n, v, q) = d
  BY DEF Slotted
<1> HIDE DEF b
<1>3. d \in CaptureRecord /\ d.pc = q /\ Only(b, d, {"pc"})
  BY <1>1, PcEffect
<1> HIDE DEF d
<1>4. Only(c, d, {"slots", "pc"})
  BY <1>1, <1>3 DEF Only
<1>5. d.slots = b.slots
  BY <1>3, Kept
<1> QED
  BY <1>1, <1>2, <1>3, <1>4, <1>5

LEMMA TakeDirectoryOK ==
  ASSUME CaptureInv(cap, prov), TakeDirectory
  PROVE  CaptureInv(cap', prov')
<1>1. cap.pc = "entered" /\ prov' = prov
  BY DEF TakeDirectory
<1>2. CASE cap' = ToExit(Failed(cap, FALSE))
  BY <1>1, <1>2, FailureExits DEF BeforeSpawn, CaptureInv
<1>3. CASE cap' = [Hold(cap, "directory") EXCEPT !.pc = "stdout"]
  <2> DEFINE d == cap'
  <2>1. /\ d \in CaptureRecord /\ d.pc = "stdout" /\ d.slots = [cap.slots EXCEPT !["directory"] = "held"]
        /\ Only(cap, d, {"slots", "pc"})
    <3>1. d = Slotted(cap, "directory", "held", "stdout")
      BY <1>3 DEF Hold, Slotted
    <3>2. cap \in CaptureRecord /\ "directory" \in Names /\ "held" \in SlotStates /\ "stdout" \in CapturePcs
      BY SlotNames, CapturePcNames DEF CaptureInv, SlotStates, BeforeSpawn
    <3> HIDE DEF d
    <3> QED
      BY <3>1, <3>2, SlottedEffect
  <2> HIDE DEF d
  <2>2. cap.slots \in [Names -> SlotStates]
    BY CaptureFields DEF CaptureInv
  <2>4. /\ d.retired = cap.retired /\ d.verified = cap.verified /\ d.fresh = cap.fresh /\ d.failed = cap.failed
        /\ d.seen = cap.seen /\ d.outcome = cap.outcome
    BY <2>1, Kept
  <2>5. ~FileClosed(d) /\ d.slots["scope"] = cap.slots["scope"]
    BY <1>1, <2>1, <2>2, SlotNames DEF FileClosed, CaptureInv, HoldsOK, BeforeSpawn, Streams, Logs
  <2>6. HoldsOK(d, prov)
    BY <1>1, <2>1, <2>4, <2>5 DEF CaptureInv, HoldsOK, BeforeSpawn, ReadPcs
  <2>7. ResultOK(d, prov)
    BY <1>1, <2>1, <2>4, <2>5 DEF CaptureInv, HoldsOK, ResultOK, BeforeSpawn, ReadPcs
  <2> QED
    BY <1>1, <2>1, <2>6, <2>7 DEF CaptureInv, d
<1> QED
  BY <1>2, <1>3 DEF TakeDirectory

LEMMA PrepareOK ==
  ASSUME CaptureInv(cap, prov), Prepare
  PROVE  CaptureInv(cap', prov')
<1> DEFINE n == cap.pc
           d == cap'
<1>1. n \in {"stdout", "stderr", "command", "scope"} /\ prov' = prov
  BY DEF Prepare, After
<1>2. CASE cap' = ToExit(Failed(cap, FALSE))
  BY <1>1, <1>2, FailureExits DEF BeforeSpawn, CaptureInv
<1>3. CASE cap' = ToExit(Lost(cap, n))
  <2> DEFINE b == [cap EXCEPT !.slots[n] = "lost"]
  <2>1. b \in CaptureRecord /\ b.slots = [cap.slots EXCEPT ![n] = "lost"] /\ Only(cap, b, {"slots"})
    BY <1>1, SlotEffect, SlotNames DEF CaptureInv, SlotStates
  <2>2. cap' = ToExit(Failed(b, TRUE))
    BY <1>3 DEF Lost
  <2> HIDE DEF b
  <2> DEFINE e == Failed(b, TRUE)
  <2>3. e \in CaptureRecord /\ e.failed /\ e.unknown /\ Only(b, e, {"failed", "fresh", "unknown"})
    BY <2>1, FailedEffect
  <2>4. cap' = [e EXCEPT !.pc = "exit"]
    BY <2>2 DEF ToExit
  <2> HIDE DEF d, e
  <2>5. d \in CaptureRecord /\ d.pc = "exit" /\ Only(e, d, {"pc"})
    BY <2>3, <2>4, PcEffect, CapturePcNames DEF d
  <2>6. /\ d.failed /\ d.slots = b.slots /\ d.retired = cap.retired /\ d.verified = cap.verified
        /\ d.seen = cap.seen /\ d.outcome = cap.outcome
    <3>1. /\ d.failed = e.failed /\ d.slots = e.slots /\ d.retired = e.retired /\ d.verified = e.verified
          /\ d.seen = e.seen /\ d.outcome = e.outcome
      BY <2>5, Kept
    <3>2. /\ e.slots = b.slots /\ e.retired = b.retired /\ e.verified = b.verified
          /\ e.seen = b.seen /\ e.outcome = b.outcome
      BY <2>3, Kept
    <3>3. /\ b.retired = cap.retired /\ b.verified = cap.verified /\ b.seen = cap.seen /\ b.outcome = cap.outcome
      BY <2>1, Kept
    <3> QED
      BY <2>3, <3>1, <3>2, <3>3
  <2>7. cap.slots \in [Names -> SlotStates]
    BY CaptureFields DEF CaptureInv
  <2>8. Unstarted(prov) /\ ~cap.retired /\ cap.verified = {} /\ ~FileClosed(cap) /\ cap.outcome = "none"
    BY <1>1 DEF CaptureInv, HoldsOK, ResultOK, BeforeSpawn
  <2>9. ~FileClosed(d)
    BY <1>1, <2>1, <2>6, <2>7, <2>8, SlotNames DEF FileClosed
  <2>10. HoldsOK(d, prov)
    BY <2>5, <2>6, <2>8, <2>9 DEF HoldsOK, BeforeSpawn, ReadPcs
  <2>11. ResultOK(d, prov)
    BY <2>5, <2>6, <2>8 DEF ResultOK, BeforeSpawn, ReadPcs
  <2> QED
    BY <1>1, <2>5, <2>10, <2>11 DEF CaptureInv, d
<1>4. CASE cap' = [Hold(cap, n) EXCEPT !.pc = After[n], !.prepared = n = "scope"]
  <2> DEFINE b == Slotted(cap, n, "held", After[n])
  <2>1. After[n] \in {"stderr", "command", "scope", "spawn"} /\ (After[n] = "spawn" <=> n = "scope")
    BY <1>1 DEF After
  <2>2. /\ b \in CaptureRecord /\ b.pc = After[n] /\ b.slots = [cap.slots EXCEPT ![n] = "held"]
        /\ Only(cap, b, {"slots", "pc"})
    <3>1. cap \in CaptureRecord /\ n \in Names /\ "held" \in SlotStates /\ After[n] \in CapturePcs
      BY <1>1, <2>1, SlotNames, CapturePcNames DEF CaptureInv, SlotStates, BeforeSpawn
    <3> HIDE DEF n
    <3> QED
      BY <3>1, SlottedEffect
  <2>3. cap' = [b EXCEPT !.prepared = n = "scope"]
    BY <1>4 DEF Hold, Slotted
  <2> HIDE DEF b, d
  <2>4. d \in CaptureRecord /\ d.prepared = (n = "scope") /\ Only(b, d, {"prepared"})
    BY <2>2, <2>3 DEF CaptureRecord, Only, Fields, d
  <2>5. /\ d.pc = After[n] /\ d.slots = [cap.slots EXCEPT ![n] = "held"] /\ d.failed = cap.failed
        /\ d.fresh = cap.fresh /\ d.retired = cap.retired /\ d.verified = cap.verified
        /\ d.seen = cap.seen /\ d.outcome = cap.outcome
    <3>1. /\ d.pc = b.pc /\ d.slots = b.slots /\ d.failed = b.failed
          /\ d.fresh = b.fresh /\ d.retired = b.retired /\ d.verified = b.verified
          /\ d.seen = b.seen /\ d.outcome = b.outcome
      BY <2>4, Kept
    <3>2. /\ b.failed = cap.failed /\ b.fresh = cap.fresh /\ b.retired = cap.retired /\ b.verified = cap.verified
          /\ b.seen = cap.seen /\ b.outcome = cap.outcome
      BY <2>2, Kept
    <3> QED
      BY <2>2, <3>1, <3>2
  <2>7. cap.slots \in [Names -> SlotStates]
    BY CaptureFields DEF CaptureInv
  <2>8. /\ Unstarted(prov) /\ ~cap.retired /\ cap.verified = {} /\ ~FileClosed(cap) /\ cap.outcome = "none"
        /\ cap.slots["scope"] = "none" /\ (cap.fresh => cap.failed)
    BY <1>1 DEF CaptureInv, HoldsOK, ResultOK, BeforeSpawn
  <2>9. ~FileClosed(d) /\ d.slots["scope"] = (IF n = "scope" THEN "held" ELSE "none")
    BY <1>1, <2>5, <2>7, <2>8, SlotNames DEF FileClosed
  <2>10. HoldsOK(d, prov)
    BY <2>1, <2>5, <2>8, <2>9 DEF HoldsOK, BeforeSpawn, ReadPcs
  <2>11. ResultOK(d, prov)
    BY <2>1, <2>4, <2>5, <2>8 DEF ResultOK, BeforeSpawn, ReadPcs
  <2> QED
    BY <1>1, <2>4, <2>10, <2>11 DEF CaptureInv, d
<1> QED
  BY <1>2, <1>3, <1>4 DEF Prepare

LEMMA StartedEffect ==
  ASSUME NEW p \in ProviderRecord, NEW q \in Started(p)
  PROVE  q \in ProviderRecord /\ q.leader = "run"
  BY DEF Started, ProviderRecord

LEMMA KilledEffect ==
  ASSUME NEW p \in ProviderRecord
  PROVE  /\ Killed(p) \in ProviderRecord /\ ~Processes(Killed(p)) /\ ~Killed(p).helper
         /\ Killed(p).code = p.code /\ Killed(p).written = p.written
         /\ Killed(p).leader = IF p.leader = "none" THEN "none" ELSE "gone"
  BY DEF Killed, Processes, ProviderRecord

LEMMA SpawnOK ==
  ASSUME CaptureInv(cap, prov), Spawn
  PROVE  CaptureInv(cap', prov')
<1> DEFINE d == cap'
<1>1. cap.pc = "spawn" /\ cap \in CaptureRecord /\ prov \in ProviderRecord
  BY DEF Spawn, CaptureInv
<1>2. cap.slots["scope"] = "held"
  BY <1>1 DEF CaptureInv, HoldsOK
<1>3. CASE cap' = ToExit(Failed(cap, FALSE)) /\ prov' \in {prov} \cup Started(prov)
  <2>1. prov' \in ProviderRecord
    BY <1>1, <1>3, StartedEffect
  <2> QED
    BY <1>1, <1>2, <1>3, <2>1, FailureExits DEF BeforeSpawn
<1>4. CASE cap' = [cap EXCEPT !.pc = "wait", !.child = TRUE] /\ prov' \in Started(prov)
  <2>1. prov' \in ProviderRecord
    BY <1>1, <1>4, StartedEffect
  <2>2. d \in CaptureRecord /\ d.pc = "wait" /\ d.child /\ Only(cap, d, {"pc", "child"})
    BY <1>1, <1>4, CapturePcNames DEF CaptureRecord, Only, Fields
  <2> HIDE DEF d
  <2>3. /\ d.slots = cap.slots /\ d.prepared = cap.prepared /\ d.failed = cap.failed
        /\ d.fresh = cap.fresh /\ d.retired = cap.retired /\ d.verified = cap.verified
        /\ d.seen = cap.seen /\ d.outcome = cap.outcome
    BY <2>2, Kept
  <2>4. HoldsOK(d, prov')
    BY <1>1, <1>2, <2>2, <2>3 DEF CaptureInv, HoldsOK, FileClosed, BeforeSpawn, ReadPcs
  <2>5. ResultOK(d, prov')
    BY <1>1, <2>2, <2>3 DEF CaptureInv, HoldsOK, ResultOK, BeforeSpawn, ReadPcs
  <2> QED
    BY <2>1, <2>2, <2>4, <2>5 DEF CaptureInv, d
<1> QED
  BY <1>3, <1>4 DEF Spawn

LEMMA PollOK ==
  ASSUME CaptureInv(cap, prov), Poll
  PROVE  CaptureInv(cap', prov')
<1> DEFINE d == cap'
<1>1. cap.pc = "wait" /\ cap \in CaptureRecord /\ prov \in ProviderRecord /\ prov' = prov
  BY DEF Poll, CaptureInv
<1>2. CASE cap' = ToExit(Failed(cap, FALSE))
  BY <1>1, <1>2, FailureExits
<1>3. CASE prov.leader = "gone" /\ cap' = [cap EXCEPT !.code = prov.code, !.pc = "polled"]
  <2>1. d \in CaptureRecord /\ d.pc = "polled" /\ d.code = prov.code /\ Only(cap, d, {"pc", "code"})
    BY <1>1, <1>3, CapturePcNames DEF CaptureRecord, ProviderRecord, Only, Fields
  <2> HIDE DEF d
  <2>2. /\ d.slots = cap.slots /\ d.prepared = cap.prepared /\ d.failed = cap.failed /\ d.child = cap.child
        /\ d.fresh = cap.fresh /\ d.retired = cap.retired /\ d.verified = cap.verified
        /\ d.seen = cap.seen /\ d.outcome = cap.outcome
    BY <2>1, Kept
  <2>3. HoldsOK(d, prov)
    BY <1>1, <2>1, <2>2 DEF CaptureInv, HoldsOK, FileClosed, BeforeSpawn, ReadPcs
  <2>4. ResultOK(d, prov)
    BY <1>1, <1>3, <2>1, <2>2 DEF CaptureInv, HoldsOK, ResultOK, BeforeSpawn, ReadPcs
  <2> QED
    BY <1>1, <2>1, <2>3, <2>4 DEF CaptureInv, d
<1> QED
  BY <1>2, <1>3 DEF Poll

LEMMA PolledOK ==
  ASSUME CaptureInv(cap, prov), Polled
  PROVE  CaptureInv(cap', prov')
<1> DEFINE d == cap'
<1>1. cap.pc = "polled" /\ cap \in CaptureRecord /\ prov \in ProviderRecord /\ prov' = prov
  BY DEF Polled, CaptureInv
<1>2. CASE cap' = ToExit(Failed(cap, FALSE))
  BY <1>1, <1>2, FailureExits
<1>3. CASE cap.code = 0 /\ cap' = ToExit([cap EXCEPT !.waited = TRUE])
  <2>1. d \in CaptureRecord /\ d.pc = "exit" /\ Only(cap, d, {"pc", "waited"})
    BY <1>1, <1>3, CapturePcNames DEF ToExit, CaptureRecord, Only, Fields
  <2> HIDE DEF d
  <2>2. /\ d.slots = cap.slots /\ d.prepared = cap.prepared /\ d.failed = cap.failed /\ d.child = cap.child
        /\ d.fresh = cap.fresh /\ d.retired = cap.retired /\ d.verified = cap.verified
        /\ d.seen = cap.seen /\ d.outcome = cap.outcome
    BY <2>1, Kept
  <2>3. HoldsOK(d, prov)
    BY <1>1, <2>1, <2>2 DEF CaptureInv, HoldsOK, FileClosed, BeforeSpawn, ReadPcs
  <2>4. ResultOK(d, prov)
    BY <1>1, <1>3, <2>1, <2>2 DEF CaptureInv, HoldsOK, ResultOK, ReadOK, BeforeSpawn, ReadPcs
  <2> QED
    BY <1>1, <2>1, <2>3, <2>4 DEF CaptureInv, d
<1> QED
  BY <1>2, <1>3 DEF Polled

LEMMA ExitOK ==
  ASSUME CaptureInv(cap, prov), Exit
  PROVE  CaptureInv(cap', prov')
<1> DEFINE d == cap'
           c == [cap EXCEPT !.boundary = cap.failed, !.fresh = FALSE, !.eligible = cap.prepared /\ cap.child]
<1>1. cap.pc = "exit" /\ cap \in CaptureRecord /\ prov \in ProviderRecord /\ prov' = prov
  BY DEF Exit, CaptureInv
<1>2. /\ c \in CaptureRecord /\ ~c.fresh /\ (c.eligible <=> (cap.prepared /\ cap.child))
      /\ Only(cap, c, {"boundary", "fresh", "eligible"})
  BY <1>1 DEF CaptureRecord, Only, Fields
<1>3. \/ cap.slots["scope"] = "held" /\ d = [c EXCEPT !.pc = "drain"]
      \/ /\ cap.slots["scope"] = "none"
         /\ d = [c EXCEPT !.pc = "close", !.retired = TRUE, !.todo = CloseOrder]
      \/ cap.slots["scope"] # "held" /\ d = [c EXCEPT !.pc = "conclude", !.unknown = TRUE]
  BY DEF Exit
<1> HIDE DEF c
<1>4. /\ c.slots = cap.slots /\ c.prepared = cap.prepared /\ c.failed = cap.failed /\ c.child = cap.child
      /\ c.retired = cap.retired /\ c.verified = cap.verified /\ c.seen = cap.seen
      /\ c.outcome = cap.outcome /\ c.unknown = cap.unknown
  BY <1>2, Kept
<1>5. CloseOrder \in Seq(Names)
  BY SlotNames DEF CloseOrder, Names, Streams, Logs, Readers, Reader
<1> HIDE DEF d
<1>6. CASE cap.slots["scope"] = "held" /\ d = [c EXCEPT !.pc = "drain"]
  <2>1. d \in CaptureRecord /\ d.pc = "drain" /\ Only(c, d, {"pc"})
    BY <1>2, <1>6, CapturePcNames DEF CaptureRecord, Only, Fields
  <2>2. /\ d.slots = c.slots /\ d.prepared = c.prepared /\ d.failed = c.failed /\ d.child = c.child
        /\ d.fresh = c.fresh /\ d.retired = c.retired /\ d.verified = c.verified
        /\ d.seen = c.seen /\ d.outcome = c.outcome /\ d.eligible = c.eligible /\ d.unknown = c.unknown
    BY <2>1, Kept
  <2>3. HoldsOK(d, prov)
    BY <1>1, <1>4, <1>6, <2>1, <2>2 DEF CaptureInv, HoldsOK, FileClosed, BeforeSpawn, ReadPcs
  <2>4. ResultOK(d, prov)
    BY <1>1, <1>2, <1>4, <2>1, <2>2 DEF CaptureInv, HoldsOK, ResultOK, ReadOK, BeforeSpawn, ReadPcs
  <2> QED
    BY <1>1, <2>1, <2>3, <2>4 DEF CaptureInv, d
<1>7. CASE cap.slots["scope"] = "none" /\ d = [c EXCEPT !.pc = "close", !.retired = TRUE, !.todo = CloseOrder]
  <2>1. d \in CaptureRecord /\ d.pc = "close" /\ d.retired /\ Only(c, d, {"pc", "retired", "todo"})
    BY <1>2, <1>5, <1>7, CapturePcNames DEF CaptureRecord, Only, Fields
  <2>2. /\ d.slots = c.slots /\ d.failed = c.failed /\ d.fresh = c.fresh /\ d.verified = c.verified
        /\ d.seen = c.seen /\ d.outcome = c.outcome /\ d.unknown = c.unknown
    BY <2>1, Kept
  <2>3. ~Processes(prov) /\ (cap.failed \/ cap.unknown) /\ cap.verified = {} /\ cap.outcome = "none"
    BY <1>1, <1>7 DEF CaptureInv, HoldsOK, ResultOK, Unstarted, Processes
  <2>4. HoldsOK(d, prov)
    BY <1>1, <1>4, <1>7, <2>1, <2>2, <2>3 DEF CaptureInv, HoldsOK, FileClosed, BeforeSpawn, ReadPcs
  <2>5. ResultOK(d, prov)
    BY <1>2, <1>4, <2>1, <2>2, <2>3 DEF ResultOK, BeforeSpawn, ReadPcs
  <2> QED
    BY <1>1, <2>1, <2>4, <2>5 DEF CaptureInv, d
<1>8. CASE cap.slots["scope"] # "held" /\ d = [c EXCEPT !.pc = "conclude", !.unknown = TRUE]
  <2>1. d \in CaptureRecord /\ d.pc = "conclude" /\ d.unknown /\ Only(c, d, {"pc", "unknown"})
    BY <1>2, <1>8, CapturePcNames DEF CaptureRecord, Only, Fields
  <2>2. /\ d.slots = c.slots /\ d.failed = c.failed /\ d.fresh = c.fresh /\ d.verified = c.verified
        /\ d.seen = c.seen /\ d.outcome = c.outcome /\ d.retired = c.retired
    BY <2>1, Kept
  <2>4. HoldsOK(d, prov)
    BY <1>1, <1>4, <2>1, <2>2 DEF CaptureInv, HoldsOK, FileClosed, BeforeSpawn, ReadPcs
  <2>5. ResultOK(d, prov)
    BY <1>1, <1>2, <1>4, <2>1, <2>2 DEF CaptureInv, HoldsOK, ResultOK, BeforeSpawn, ReadPcs
  <2> QED
    BY <1>1, <2>1, <2>4, <2>5 DEF CaptureInv, d
<1> QED
  BY <1>3, <1>6, <1>7, <1>8

LEMMA DrainEndsOK ==
  ASSUME CaptureInv(cap, prov), DrainEnds
  PROVE  CaptureInv(cap', prov')
<1> DEFINE d == cap'
<1>1. cap.pc = "drain" /\ cap \in CaptureRecord /\ prov \in ProviderRecord
  BY DEF DrainEnds, CaptureInv
<1>2. /\ prov' \in ProviderRecord /\ prov' \in {prov, Killed(prov)}
      /\ prov.leader = "gone" => prov'.leader = "gone" /\ prov'.code = prov.code
  BY <1>1, KilledEffect DEF DrainEnds
<1>3. CASE prov' = Killed(prov) /\ cap' = [cap EXCEPT !.retired = TRUE, !.pc = "scope closing"]
  <2>1. d \in CaptureRecord /\ d.pc = "scope closing" /\ d.retired /\ Only(cap, d, {"pc", "retired"})
    BY <1>1, <1>3, CapturePcNames DEF CaptureRecord, Only, Fields
  <2> HIDE DEF d
  <2>2. /\ d.slots = cap.slots /\ d.prepared = cap.prepared /\ d.failed = cap.failed /\ d.child = cap.child
        /\ d.fresh = cap.fresh /\ d.verified = cap.verified /\ d.eligible = cap.eligible
        /\ d.seen = cap.seen /\ d.outcome = cap.outcome /\ d.unknown = cap.unknown
    BY <2>1 DEF Only, Fields
  <2>3. ~Processes(prov')
    BY <1>1, <1>3, KilledEffect
  <2>4. HoldsOK(d, prov')
    BY <1>1, <2>1, <2>2, <2>3 DEF CaptureInv, HoldsOK, FileClosed, BeforeSpawn, ReadPcs
  <2>5. cap.verified = {} /\ cap.outcome = "none"
    BY <1>1 DEF CaptureInv, HoldsOK, ResultOK
  <2>6. ResultOK(d, prov')
    BY <1>1, <1>2, <2>1, <2>2, <2>5 DEF CaptureInv, ResultOK, ReadOK, BeforeSpawn, ReadPcs
  <2> QED
    BY <1>2, <2>1, <2>4, <2>6 DEF CaptureInv, d
<1>4. CASE cap' = [Failed(cap, TRUE) EXCEPT !.pc = "scope closing"]
  <2> DEFINE b == Failed(cap, TRUE)
  <2>1. b \in CaptureRecord /\ b.failed /\ Only(cap, b, {"failed", "fresh", "unknown"})
    BY <1>1, FailedEffect
  <2>2. d = [b EXCEPT !.pc = "scope closing"]
    BY <1>4
  <2> HIDE DEF b, d
  <2>3. d \in CaptureRecord /\ d.pc = "scope closing" /\ Only(b, d, {"pc"})
    BY <2>1, <2>2, CapturePcNames DEF CaptureRecord, Only, Fields
  <2>4. /\ d.failed = b.failed /\ d.slots = b.slots /\ d.retired = b.retired /\ d.verified = b.verified
        /\ d.seen = b.seen /\ d.outcome = b.outcome
    BY <2>3 DEF Only, Fields
  <2>5. /\ b.slots = cap.slots /\ b.retired = cap.retired /\ b.verified = cap.verified
        /\ b.seen = cap.seen /\ b.outcome = cap.outcome
    BY <2>1, Kept
  <2>6. ~cap.retired /\ cap.verified = {} /\ cap.outcome = "none" /\ cap.slots["scope"] = "held" /\ ~FileClosed(cap)
    BY <1>1 DEF CaptureInv, HoldsOK, ResultOK
  <2>7. HoldsOK(d, prov')
    BY <2>3, <2>4, <2>5, <2>6 DEF HoldsOK, FileClosed, BeforeSpawn, ReadPcs
  <2>8. ResultOK(d, prov')
    BY <2>1, <2>3, <2>4, <2>5, <2>6 DEF ResultOK, BeforeSpawn, ReadPcs
  <2> QED
    BY <1>2, <2>3, <2>7, <2>8 DEF CaptureInv, d
<1> QED
  BY <1>3, <1>4 DEF DrainEnds

LEMMA CloseScopeOK ==
  ASSUME CaptureInv(cap, prov), CloseScope
  PROVE  CaptureInv(cap', prov')
<1> DEFINE d == cap'
<1>1. cap.pc = "scope closing" /\ cap \in CaptureRecord /\ prov \in ProviderRecord
  BY DEF CloseScope, CaptureInv
<1>2. /\ prov' \in ProviderRecord
      /\ ~Processes(prov) => ~Processes(prov')
      /\ prov.leader = "gone" => prov'.leader = "gone" /\ prov'.code = prov.code
  <2>1. prov' \in {prov, Killed(prov)}
    BY DEF CloseScope
  <2> QED
    BY <1>1, <2>1, KilledEffect
<1>3. PICK b : d = Retire(b) /\ Closing(cap, "scope", b)
  BY DEF CloseScope, CloseAttempt, Closing
<1>4. /\ b \in CaptureRecord
      /\ \E v \in {"closed", "lost"} : b.slots = [cap.slots EXCEPT !["scope"] = v] /\ (v = "lost" => b.failed /\ b.unknown)
      /\ Only(cap, b, {"slots", "failed", "fresh", "unknown"})
      /\ ~b.failed => ~cap.failed /\ b.fresh = cap.fresh /\ InFinal
      /\ ~b.unknown => ~cap.unknown
      /\ cap.unknown => b.unknown
  <2>1. "scope" \in Names
    BY SlotNames
  <2> HIDE DEF d
  <2> QED
    BY <1>1, <1>3, <2>1, CloseEffect, Zenon
<1>5. /\ b.retired = cap.retired /\ b.verified = cap.verified /\ b.eligible = cap.eligible
      /\ b.prepared = cap.prepared /\ b.child = cap.child /\ b.seen = cap.seen /\ b.outcome = cap.outcome
  BY <1>4, Kept
<1>6. cap.verified = {} /\ cap.outcome = "none" /\ ~FileClosed(cap) /\ (cap.fresh => cap.failed)
  BY <1>1 DEF CaptureInv, HoldsOK, ResultOK
<1>7. ~FileClosed(b)
  <2>1. cap.slots \in [Names -> SlotStates]
    BY <1>1, CaptureFields
  <2> QED
    BY <1>4, <1>6, <2>1 DEF FileClosed, Names, Streams, Logs
<1>8. CloseOrder \in Seq(Names)
  BY SlotNames DEF CloseOrder, Names, Streams, Logs, Readers, Reader
<1>9. \/ /\ cap.retired /\ ~b.unknown
         /\ d = [b EXCEPT !.pc = IF b.eligible THEN "stdout read" ELSE "close", !.todo = CloseOrder]
      \/ d = [b EXCEPT !.pc = "conclude", !.retired = FALSE, !.unknown = TRUE]
  BY <1>3 DEF Retire
<1> HIDE DEF d
<1>10. CASE /\ cap.retired /\ ~b.unknown
            /\ d = [b EXCEPT !.pc = IF b.eligible THEN "stdout read" ELSE "close", !.todo = CloseOrder]
  <2>1. /\ d \in CaptureRecord /\ d.pc = (IF b.eligible THEN "stdout read" ELSE "close") /\ Only(b, d, {"pc", "todo"})
    BY <1>4, <1>8, <1>10, CapturePcNames DEF CaptureRecord, Only, Fields, ReadPcs
  <2>2. /\ d.slots = b.slots /\ d.prepared = b.prepared /\ d.failed = b.failed /\ d.child = b.child
        /\ d.fresh = b.fresh /\ d.retired = b.retired /\ d.verified = b.verified /\ d.eligible = b.eligible
        /\ d.seen = b.seen /\ d.outcome = b.outcome /\ d.unknown = b.unknown
    BY <2>1 DEF Only, Fields
  <2>3. ~Processes(prov')
    BY <1>2, <1>10 DEF CaptureInv, HoldsOK
  <2>4. HoldsOK(d, prov')
    <3>1. d.retired /\ ~FileClosed(d) /\ d.pc \in {"stdout read", "close"}
      BY <1>5, <1>7, <1>10, <2>1, <2>2 DEF FileClosed
    <3> QED
      BY <2>3, <3>1 DEF HoldsOK, BeforeSpawn, ReadPcs
  <2>5. ~b.failed => /\ prov'.leader = "gone" /\ prov'.code = 0
                     /\ cap.prepared /\ cap.child /\ cap.eligible
    BY <1>1, <1>2, <1>4, <1>10 DEF CaptureInv, ResultOK
  <2>6. b.fresh => b.failed
    BY <1>4, <1>6
  <2>7. ResultOK(d, prov')
    BY <1>5, <1>6, <2>1, <2>2, <2>5, <2>6 DEF ResultOK, ReadOK, BeforeSpawn, ReadPcs
  <2> QED
    BY <1>2, <2>1, <2>4, <2>7 DEF CaptureInv, d
<1>11. CASE d = [b EXCEPT !.pc = "conclude", !.retired = FALSE, !.unknown = TRUE]
  <2>1. d \in CaptureRecord /\ d.pc = "conclude" /\ ~d.retired /\ d.unknown /\ Only(b, d, {"pc", "retired", "unknown"})
    BY <1>4, <1>11, CapturePcNames DEF CaptureRecord, Only, Fields
  <2>2. /\ d.slots = b.slots /\ d.failed = b.failed /\ d.fresh = b.fresh /\ d.verified = b.verified
        /\ d.seen = b.seen /\ d.outcome = b.outcome
    BY <2>1, Kept
  <2>3. HoldsOK(d, prov')
    BY <1>7, <2>1, <2>2 DEF HoldsOK, FileClosed, BeforeSpawn, ReadPcs
  <2>4. b.fresh => b.failed
    BY <1>4, <1>6
  <2>5. ResultOK(d, prov')
    BY <1>5, <1>6, <2>1, <2>2, <2>4 DEF ResultOK, BeforeSpawn, ReadPcs
  <2> QED
    BY <1>2, <2>1, <2>3, <2>5 DEF CaptureInv, d
<1> QED
  BY <1>9, <1>10, <1>11

AfterClose(c, n, d) ==
  /\ d \in CaptureRecord
  /\ \E v \in {"closed", "lost"} : d.slots = [c.slots EXCEPT ![n] = v] /\ (v = "lost" => d.failed /\ d.unknown)
  /\ Only(c, d, {"slots", "failed", "fresh", "unknown"})
  /\ ~d.failed => ~c.failed /\ d.fresh = c.fresh /\ InFinal
  /\ ~d.unknown => ~c.unknown
  /\ c.unknown => d.unknown

LEMMA CloseAfter ==
  ASSUME NEW c \in CaptureRecord, NEW n \in Names, NEW d, Closing(c, n, d)
  PROVE  AfterClose(c, n, d)
  BY CloseEffect, Zenon DEF AfterClose

-----------------------------------------------------------------------------
(* The readback: from the retirement on, an unfailed capture goes through    *)
(* the three streams, and any failure goes to the close roster.              *)

ReadMove(c, d, p) ==
  /\ c.pc \in ReadPcs \cup {"close"} /\ d \in CaptureRecord /\ d.pc \in ReadPcs \cup {"close", "conclude"}
  /\ d.retired = c.retired /\ d.eligible = c.eligible /\ d.prepared = c.prepared /\ d.child = c.child
  /\ d.outcome = c.outcome
  /\ ~d.failed /\ ~d.unknown => ~c.failed /\ ~c.unknown /\ ReadOK(d)
  /\ d.fresh => d.failed
  /\ \A s \in d.verified : d.seen[s] = p.written

LEMMA ReadMoveOK ==
  ASSUME NEW c, NEW d, NEW p, CaptureInv(c, p), ReadMove(c, d, p)
  PROVE  CaptureInv(d, p)
<1>1. HoldsOK(d, p)
  <2>1. d.pc \in ReadPcs \cup {"close", "conclude"} /\ d.retired = c.retired /\ c.pc \in ReadPcs \cup {"close"}
    BY DEF ReadMove
  <2>2. c.retired /\ ~Processes(p)
    BY <2>1 DEF CaptureInv, HoldsOK
  <2> QED
    BY <2>1, <2>2 DEF HoldsOK, BeforeSpawn, ReadPcs
<1>2. ResultOK(d, p)
  <2>1. c.pc \in ReadPcs \cup {"close"} /\ d.pc \in ReadPcs \cup {"close", "conclude"} /\ d.outcome = c.outcome
    BY DEF ReadMove
  <2>2. c.outcome = "none"
    BY <2>1 DEF CaptureInv, ResultOK, ReadPcs
  <2>3. ~d.failed /\ ~d.unknown =>
          p.leader = "gone" /\ p.code = 0 /\ d.prepared /\ d.child /\ d.eligible /\ ReadOK(d)
    BY <2>1 DEF CaptureInv, ResultOK, ReadMove, ReadPcs
  <2>4. (d.fresh => d.failed) /\ \A s \in d.verified : d.seen[s] = p.written
    BY DEF ReadMove
  <2> QED
    BY <2>1, <2>2, <2>3, <2>4 DEF ResultOK, ReadPcs
<1> QED
  BY <1>1, <1>2 DEF CaptureInv, ReadMove

LEMMA StreamNames ==
  ASSUME NEW s \in Streams
  PROVE  /\ s \in {"stdout", "stderr", "command"} /\ s \in Names /\ Reader(s) \in Names
         /\ Reading(s) \in ReadPcs /\ Written(s) \in ReadPcs /\ ReadNext[s] \in ReadPcs \cup {"close"}
         /\ s = "stdout" => Reading(s) = "stdout read" /\ Written(s) = "stdout written" /\ ReadNext[s] = "stderr read"
         /\ s = "stderr" => Reading(s) = "stderr read" /\ Written(s) = "stderr written" /\ ReadNext[s] = "command read"
         /\ s = "command" => Reading(s) = "command read" /\ Written(s) = "command written" /\ ReadNext[s] = "close"
<1>1. s \in {"stdout", "stderr", "command"}
  BY DEF Streams, Logs
<1>2. s \in Names /\ Reader(s) \in Names
  BY SlotNames
<1>3. /\ Reading("stdout") = "stdout read" /\ Reading("stderr") = "stderr read" /\ Reading("command") = "command read"
  BY DEF Reading
<1>4. /\ Written("stdout") = "stdout written" /\ Written("stderr") = "stderr written"
      /\ Written("command") = "command written"
  BY DEF Written
<1>5. /\ ReadNext["stdout"] = "stderr read" /\ ReadNext["stderr"] = "command read" /\ ReadNext["command"] = "close"
  BY DEF ReadNext
<1> QED
  BY <1>1, <1>2, <1>3, <1>4, <1>5 DEF ReadPcs

LEMMA CurrentStream ==
  ASSUME NEW s \in Streams, cap.pc \in {Reading(s), Written(s)}
  PROVE  Current = s
<1>1. \A t \in Streams : cap.pc \in {Reading(t), Written(t)} => t = s
  BY StreamNames
<1> QED
  BY <1>1 DEF Current

\* A failed capture goes to the close roster.
LEMMA AbortMove ==
  ASSUME CaptureInv(cap, prov), cap.pc \in ReadPcs \cup {"close"}, NEW u \in BOOLEAN, NEW b, NEW F,
         b \in CaptureRecord, Only(cap, b, {"slots"}),
         F = [Failed(b, u) EXCEPT !.pc = "close"]
  PROVE  CaptureInv(F, prov)
<1> DEFINE e == Failed(b, u)
<1>1. e \in CaptureRecord /\ e.failed /\ Only(b, e, {"failed", "fresh", "unknown"})
  BY FailedEffect
<1>2. F = [e EXCEPT !.pc = "close"]
  OBVIOUS
<1> HIDE DEF e
<1>3. F \in CaptureRecord /\ F.pc = "close" /\ Only(e, F, {"pc"})
  BY <1>1, <1>2, CapturePcNames DEF CaptureRecord, Only, Fields
<1>4. /\ F.retired = cap.retired /\ F.eligible = cap.eligible /\ F.prepared = cap.prepared
      /\ F.child = cap.child /\ F.outcome = cap.outcome /\ F.seen = cap.seen /\ F.verified = cap.verified
      /\ F.failed = e.failed
  BY <1>1, <1>3 DEF Only, Fields
<1>5. \A s \in cap.verified : cap.seen[s] = prov.written
  BY DEF CaptureInv, HoldsOK, ResultOK
<1>6. ReadMove(cap, F, prov)
  BY <1>1, <1>3, <1>4, <1>5 DEF ReadMove
<1> QED
  BY <1>6, ReadMoveOK

LEMMA CaptureStreamOK ==
  ASSUME CaptureInv(cap, prov), CaptureStream
  PROVE  CaptureInv(cap', prov')
<1> DEFINE d == cap'
<1>1. PICK s \in Streams : cap.pc = Reading(s)
  BY DEF CaptureStream
<1>2. Current = s /\ prov' = prov
  BY <1>1, CurrentStream DEF CaptureStream
<1>3. cap \in CaptureRecord /\ cap.pc \in ReadPcs /\ s \in Names /\ Reader(s) \in Names /\ Written(s) \in CapturePcs
  BY <1>1, StreamNames, CapturePcNames DEF CaptureInv
<1>4. /\ \A t \in cap.verified : cap.seen[t] = prov.written
      /\ cap.fresh => cap.failed
      /\ ~cap.failed /\ ~cap.unknown => ReadOK(cap)
  BY <1>3 DEF CaptureInv, HoldsOK, ResultOK
<1>5. ASSUME NEW e, e.verified = cap.verified, e.pc = Written(s), ~cap.failed, ~cap.unknown
      PROVE  ReadOK(e)
  BY <1>1, <1>4, <1>5, StreamNames DEF ReadOK
<1>6. Only(cap, cap, {"slots"})
  BY DEF Only
<1>7. CASE cap' = Abort(cap) \/ cap' = Unclear(cap)
  BY <1>2, <1>3, <1>6, <1>7, AbortMove DEF Abort, Unclear
<1>8. CASE \E e : Closing(cap, s, e) /\ d = [e EXCEPT !.pc = IF Fence(e) THEN Written(s) ELSE "close"]
  <2>1. PICK e : Closing(cap, s, e) /\ d = [e EXCEPT !.pc = IF Fence(e) THEN Written(s) ELSE "close"]
    BY <1>8
  <2>2. AfterClose(cap, s, e)
    BY <1>3, <2>1, CloseAfter
  <2> HIDE DEF d
  <2>3. /\ d \in CaptureRecord /\ d.pc = (IF Fence(e) THEN Written(s) ELSE "close") /\ Only(e, d, {"pc"})
    BY <1>3, <2>1, <2>2, CapturePcNames DEF AfterClose, CaptureRecord, Only, Fields
  <2>4. /\ d.retired = e.retired /\ d.eligible = e.eligible /\ d.prepared = e.prepared
        /\ d.child = e.child /\ d.outcome = e.outcome /\ d.seen = e.seen /\ d.verified = e.verified
        /\ d.failed = e.failed /\ d.fresh = e.fresh /\ d.unknown = e.unknown
    BY <2>3 DEF Only, Fields
  <2>5. /\ e.retired = cap.retired /\ e.eligible = cap.eligible /\ e.prepared = cap.prepared
        /\ e.child = cap.child /\ e.outcome = cap.outcome /\ e.seen = cap.seen /\ e.verified = cap.verified
    BY <2>2 DEF AfterClose, Only, Fields
  <2>6. ~e.failed /\ ~e.unknown => ~cap.failed /\ ~cap.unknown /\ Fence(e)
    BY <1>4, <2>2 DEF AfterClose, Fence
  <2>7. ~d.failed /\ ~d.unknown => ~cap.failed /\ ~cap.unknown /\ ReadOK(d)
    BY <1>5, <2>3, <2>4, <2>5, <2>6
  <2>8. d.fresh => d.failed
    BY <1>4, <2>2, <2>4 DEF AfterClose
  <2>9. d.pc \in ReadPcs \cup {"close"}
    BY <2>3, StreamNames
  <2>10. ReadMove(cap, d, prov)
    BY <1>3, <1>4, <2>3, <2>4, <2>5, <2>7, <2>8, <2>9 DEF ReadMove
  <2> QED
    BY <1>2, <2>10, ReadMoveOK DEF d
<1>9. CASE cap' = [cap EXCEPT !.seen[s] = prov.written, !.pc = Written(s)]
  <2>1. cap.seen \in [Streams -> Nat] /\ prov.written \in Nat
    BY <1>3, CaptureFields DEF CaptureInv, ProviderRecord
  <2>2. [cap.seen EXCEPT ![s] = prov.written] \in [Streams -> Nat]
    BY <2>1
  <2>3. /\ d \in CaptureRecord /\ d.pc = Written(s) /\ d.seen = [cap.seen EXCEPT ![s] = prov.written]
        /\ Only(cap, d, {"pc", "seen"})
    BY <1>3, <1>9, <2>2 DEF CaptureRecord, Only, Fields
  <2> HIDE DEF d
  <2>4. /\ d.retired = cap.retired /\ d.eligible = cap.eligible /\ d.prepared = cap.prepared
        /\ d.child = cap.child /\ d.outcome = cap.outcome /\ d.verified = cap.verified
        /\ d.failed = cap.failed /\ d.fresh = cap.fresh /\ d.unknown = cap.unknown
    BY <2>3 DEF Only, Fields
  <2>5. \A t \in d.verified : d.seen[t] = prov.written
    <3>1. cap.verified \in SUBSET Streams
      BY <1>3, CaptureFields
    <3> QED
      BY <1>4, <2>1, <2>3, <2>4, <3>1
  <2>6. ~d.failed /\ ~d.unknown => ReadOK(d)
    BY <1>5, <2>3, <2>4
  <2>7. ReadMove(cap, d, prov)
    <3>0. Written(s) \in ReadPcs
      BY StreamNames
    <3>1. d.pc \in ReadPcs \cup {"close"}
      BY <2>3, <3>0
    <3> QED
      BY <1>3, <1>4, <2>3, <2>4, <2>5, <2>6, <3>1 DEF ReadMove
  <2> QED
    BY <1>2, <2>7, ReadMoveOK DEF d
<1>10. CASE cap' = [Hold(cap, Reader(s)) EXCEPT !.slots[s] = "closed", !.pc = Written(s)]
  <2> DEFINE b == Slotted(cap, Reader(s), "held", Written(s))
             e == [b EXCEPT !.slots[s] = "closed"]
  <2>1. "held" \in SlotStates /\ "closed" \in SlotStates
    BY DEF SlotStates
  <2>2. b \in CaptureRecord /\ b.pc = Written(s) /\ Only(cap, b, {"slots", "pc"})
    <3> DEFINE m == Reader(s)
               q == Written(s)
    <3>1. cap \in CaptureRecord /\ m \in Names /\ q \in CapturePcs
      BY <1>3
    <3> HIDE DEF m, q, d
    <3>2. /\ Slotted(cap, m, "held", q) \in CaptureRecord /\ Slotted(cap, m, "held", q).pc = q
          /\ Slotted(cap, m, "held", q).slots = [cap.slots EXCEPT ![m] = "held"]
          /\ Only(cap, Slotted(cap, m, "held", q), {"slots", "pc"})
      BY <2>1, <3>1, SlottedEffect, Zenon
    <3> QED
      BY <3>2 DEF m, q
  <2>3. d = e
    BY <1>10, <1>3 DEF Hold, Slotted, CaptureRecord
  <2> HIDE DEF b, d
  <2>4. e \in CaptureRecord /\ Only(b, e, {"slots"})
    BY <1>3, <2>1, <2>2, SlotEffect
  <2> HIDE DEF e
  <2>5. /\ d.retired = cap.retired /\ d.eligible = cap.eligible /\ d.prepared = cap.prepared
        /\ d.child = cap.child /\ d.outcome = cap.outcome /\ d.verified = cap.verified /\ d.seen = cap.seen
        /\ d.failed = cap.failed /\ d.fresh = cap.fresh /\ d.unknown = cap.unknown /\ d.pc = Written(s)
    BY <2>2, <2>3, <2>4 DEF Only, Fields
  <2>6. ~d.failed /\ ~d.unknown => ReadOK(d)
    BY <1>5, <2>5
  <2>7. ReadMove(cap, d, prov)
    <3>0. Written(s) \in ReadPcs
      BY StreamNames
    <3>1. d.pc \in ReadPcs \cup {"close"}
      BY <2>5, <3>0
    <3> QED
      BY <1>3, <1>4, <2>3, <2>4, <2>5, <2>6, <3>1 DEF ReadMove
  <2> QED
    BY <1>2, <2>7, ReadMoveOK DEF d
<1>11. CASE cap' = [Lost(cap, Reader(s)) EXCEPT !.pc = "close"]
  <2> DEFINE b == [cap EXCEPT !.slots[Reader(s)] = "lost"]
  <2>1. b \in CaptureRecord /\ Only(cap, b, {"slots"})
    BY <1>3, SlotEffect DEF SlotStates
  <2>2. cap' = [Failed(b, TRUE) EXCEPT !.pc = "close"]
    BY <1>11 DEF Lost
  <2> HIDE DEF b
  <2> QED
    BY <1>2, <1>3, <2>1, <2>2, AbortMove
<1> QED
  BY <1>2, <1>7, <1>8, <1>9, <1>10, <1>11 DEF CaptureStream, CloseAttempt, Closing

\* The bytes of s are taken: they are everything the provider wrote.
LEMMA TakenMove ==
  ASSUME CaptureInv(cap, prov), NEW s \in Streams, cap.pc = Written(s), NEW b \in CaptureRecord,
         Only(cap, b, {"slots", "failed", "fresh", "unknown"}),
         ~b.failed /\ ~b.unknown => ~cap.failed /\ ~cap.unknown,
         b.fresh => b.failed
  PROVE  CaptureInv(Taken(b, s), prov)
<1> DEFINE d == Taken(b, s)
<1>1. /\ b.retired = cap.retired /\ b.eligible = cap.eligible /\ b.prepared = cap.prepared
      /\ b.child = cap.child /\ b.outcome = cap.outcome /\ b.verified = cap.verified /\ b.seen = cap.seen
  BY DEF Only, Fields
<1>2. b.seen \in [Streams -> Nat] /\ prov.written \in Nat /\ b.verified \in SUBSET Streams
  BY CaptureFields DEF CaptureInv, ProviderRecord
<1>3. [b.seen EXCEPT ![s] = prov.written] \in [Streams -> Nat] /\ b.verified \cup {s} \in SUBSET Streams
  BY <1>2
<1>4. ReadNext[s] \in CapturePcs /\ cap.pc \in ReadPcs
  BY StreamNames, CapturePcNames
<1>5. /\ d \in CaptureRecord /\ d.pc = ReadNext[s] /\ d.seen = [b.seen EXCEPT ![s] = prov.written]
      /\ d.verified = b.verified \cup {s} /\ Only(b, d, {"pc", "seen", "verified"})
  BY <1>3, <1>4 DEF Taken, CaptureRecord, Only, Fields
<1> HIDE DEF d
<1>6. /\ d.retired = b.retired /\ d.eligible = b.eligible /\ d.prepared = b.prepared
      /\ d.child = b.child /\ d.outcome = b.outcome
      /\ d.failed = b.failed /\ d.fresh = b.fresh /\ d.unknown = b.unknown
  BY <1>5 DEF Only, Fields
<1>7. /\ \A t \in cap.verified : cap.seen[t] = prov.written
      /\ ~cap.failed /\ ~cap.unknown => ReadOK(cap)
  BY <1>4 DEF CaptureInv, HoldsOK, ResultOK
<1>8. \A t \in d.verified : d.seen[t] = prov.written
  BY <1>1, <1>2, <1>5, <1>7
<1>9. ~d.failed /\ ~d.unknown => ReadOK(d)
  <2> SUFFICES ASSUME ~d.failed, ~d.unknown PROVE ReadOK(d)
    OBVIOUS
  <2>1. ReadOK(cap)
    BY <1>6, <1>7
  <2>2. d.verified = cap.verified \cup {s} /\ cap.verified \subseteq Streams
    BY <1>1, <1>2, <1>5
  <2>3. CASE s = "stdout"
    <3>1. d.pc = "stderr read"
      BY <1>5, <2>3, StreamNames
    <3> QED
      BY <2>2, <2>3, <3>1 DEF ReadOK
  <2>4. CASE s = "stderr"
    <3>1. d.pc = "command read" /\ cap.pc = "stderr written"
      BY <1>5, <2>4, StreamNames
    <3> QED
      BY <2>1, <2>2, <2>4, <3>1 DEF ReadOK, Logs
  <2>5. CASE s = "command"
    <3>1. d.pc = "close" /\ cap.pc = "command written"
      BY <1>5, <2>5, StreamNames
    <3>2. Logs \subseteq cap.verified
      BY <2>1, <3>1 DEF ReadOK
    <3>3. d.verified = Streams
      BY <2>2, <2>5, <3>2 DEF Streams
    <3> QED
      BY <3>1, <3>3 DEF ReadOK
  <2> QED
    BY <2>3, <2>4, <2>5, StreamNames
<1>10. ReadMove(cap, d, prov)
  BY <1>1, <1>4, <1>5, <1>6, <1>8, <1>9, StreamNames DEF ReadMove
<1> QED
  BY <1>10, ReadMoveOK DEF d

LEMMA CaptureReadOK ==
  ASSUME CaptureInv(cap, prov), CaptureRead
  PROVE  CaptureInv(cap', prov')
<1> DEFINE d == cap'
<1>1. PICK s \in Streams : cap.pc = Written(s)
  BY DEF CaptureRead
<1>2. Current = s /\ prov' = prov
  BY <1>1, CurrentStream DEF CaptureRead
<1>3. cap \in CaptureRecord /\ cap.pc \in ReadPcs /\ s \in Names /\ Reader(s) \in Names
  BY <1>1, StreamNames DEF CaptureInv
<1>4. /\ \A t \in cap.verified : cap.seen[t] = prov.written
      /\ cap.fresh => cap.failed
  BY <1>3 DEF CaptureInv, HoldsOK, ResultOK
<1>5. Only(cap, cap, {"slots"}) /\ Only(cap, cap, {"slots", "failed", "fresh", "unknown"})
  BY DEF Only
<1>6. CASE cap' = Abort(cap)
  BY <1>2, <1>3, <1>5, <1>6, AbortMove DEF Abort
<1>7. CASE cap' = [Lost(cap, Reader(s)) EXCEPT !.pc = "close"]
  <2> DEFINE b == [cap EXCEPT !.slots[Reader(s)] = "lost"]
  <2>1. b \in CaptureRecord /\ Only(cap, b, {"slots"})
    BY <1>3, SlotEffect DEF SlotStates
  <2>2. cap' = [Failed(b, TRUE) EXCEPT !.pc = "close"]
    BY <1>7 DEF Lost
  <2> HIDE DEF b
  <2> QED
    BY <1>2, <1>3, <2>1, <2>2, AbortMove
<1>8. CASE cap' = Taken(Hold(cap, Reader(s)), s)
  <2> DEFINE b == [cap EXCEPT !.slots[Reader(s)] = "held"]
  <2>1. b \in CaptureRecord /\ Only(cap, b, {"slots"})
    BY <1>3, SlotEffect DEF SlotStates
  <2>2. cap' = Taken(b, s)
    BY <1>8 DEF Hold
  <2> HIDE DEF b
  <2>3. Only(cap, b, {"slots", "failed", "fresh", "unknown"})
    BY <2>1 DEF Only
  <2>4. b.failed = cap.failed /\ b.fresh = cap.fresh /\ b.unknown = cap.unknown
    BY <2>1 DEF Only, Fields
  <2> QED
    BY <1>1, <1>2, <1>4, <2>1, <2>2, <2>3, <2>4, TakenMove
<1>9. CASE cap' = Taken(cap, s)
  BY <1>1, <1>2, <1>3, <1>4, <1>5, <1>9, TakenMove
<1>10. CASE \E e : Closing(cap, s, e) /\ d = IF Fence(e) THEN Taken(e, s) ELSE [e EXCEPT !.pc = "close"]
  <2>1. PICK e : Closing(cap, s, e) /\ d = IF Fence(e) THEN Taken(e, s) ELSE [e EXCEPT !.pc = "close"]
    BY <1>10
  <2>2. AfterClose(cap, s, e)
    BY <1>3, <2>1, CloseAfter
  <2>3. /\ ~e.failed /\ ~e.unknown => ~cap.failed /\ ~cap.unknown /\ Fence(e)
        /\ e.fresh => e.failed
    BY <1>4, <2>2 DEF AfterClose, Fence
  <2>4. CASE Fence(e)
    BY <1>1, <1>2, <2>1, <2>2, <2>3, <2>4, TakenMove DEF AfterClose
  <2>5. CASE ~Fence(e)
    <3> HIDE DEF d
    <3>1. d \in CaptureRecord /\ d.pc = "close" /\ Only(e, d, {"pc"})
      BY <2>1, <2>2, <2>5, CapturePcNames DEF AfterClose, CaptureRecord, Only, Fields
    <3>2. /\ d.retired = e.retired /\ d.eligible = e.eligible /\ d.prepared = e.prepared
          /\ d.child = e.child /\ d.outcome = e.outcome /\ d.seen = e.seen /\ d.verified = e.verified
          /\ d.failed = e.failed /\ d.fresh = e.fresh /\ d.unknown = e.unknown
      BY <3>1 DEF Only, Fields
    <3>3. /\ e.retired = cap.retired /\ e.eligible = cap.eligible /\ e.prepared = cap.prepared
          /\ e.child = cap.child /\ e.outcome = cap.outcome /\ e.seen = cap.seen /\ e.verified = cap.verified
      BY <2>2 DEF AfterClose, Only, Fields
    <3>4. ReadMove(cap, d, prov)
      BY <1>3, <1>4, <2>3, <2>5, <3>1, <3>2, <3>3 DEF ReadMove
    <3> QED
      BY <1>2, <3>4, ReadMoveOK DEF d
  <2> QED
    BY <2>4, <2>5
<1> QED
  BY <1>2, <1>6, <1>7, <1>8, <1>9, <1>10 DEF CaptureRead, CloseAttempt, Closing

LEMMA CloseOwnersOK ==
  ASSUME CaptureInv(cap, prov), CloseOwners
  PROVE  CaptureInv(cap', prov')
<1> DEFINE d == cap'
           n == Head(cap.todo)
<1>1. cap.pc = "close" /\ cap \in CaptureRecord /\ prov' = prov
  BY DEF CloseOwners, CaptureInv
<1>2. /\ \A t \in cap.verified : cap.seen[t] = prov.written
      /\ cap.fresh => cap.failed
      /\ ~cap.failed /\ ~cap.unknown => ReadOK(cap)
  BY <1>1 DEF CaptureInv, HoldsOK, ResultOK
<1>3. cap.todo \in Seq(Names)
  BY <1>1, CaptureFields
<1>4. cap.todo # <<>> => n \in Names /\ Tail(cap.todo) \in Seq(Names)
  BY <1>3
<1> HIDE DEF n
<1>5. CASE \E e : d = [e EXCEPT !.todo = Tail(@)] /\ cap.todo # <<>> /\ (e = cap \/ AfterClose(cap, n, e))
  <2>1. PICK e : d = [e EXCEPT !.todo = Tail(@)] /\ cap.todo # <<>> /\ (e = cap \/ AfterClose(cap, n, e))
    BY <1>5
  <2>2. /\ e \in CaptureRecord /\ Only(cap, e, {"slots", "failed", "fresh", "unknown"})
        /\ ~e.failed /\ ~e.unknown => ~cap.failed /\ ~cap.unknown
        /\ e.fresh => e.failed
    <3>1. CASE e = cap
      BY <1>1, <1>2, <3>1 DEF Only
    <3>2. CASE AfterClose(cap, n, e)
      BY <1>2, <3>2 DEF AfterClose
    <3> QED
      BY <2>1, <3>1, <3>2
  <2>3. /\ e.retired = cap.retired /\ e.eligible = cap.eligible /\ e.prepared = cap.prepared /\ e.pc = cap.pc
        /\ e.child = cap.child /\ e.outcome = cap.outcome /\ e.seen = cap.seen /\ e.verified = cap.verified
        /\ e.todo = cap.todo
    BY <2>2 DEF Only, Fields
  <2> HIDE DEF d
  <2>4. d \in CaptureRecord /\ Only(e, d, {"todo"})
    <3>1. Tail(e.todo) \in Seq(Names)
      BY <1>4, <2>1, <2>3
    <3> QED
      BY <2>1, <2>2, <3>1 DEF CaptureRecord, Only, Fields
  <2>5. /\ d.retired = e.retired /\ d.eligible = e.eligible /\ d.prepared = e.prepared /\ d.pc = e.pc
        /\ d.child = e.child /\ d.outcome = e.outcome /\ d.seen = e.seen /\ d.verified = e.verified
        /\ d.failed = e.failed /\ d.fresh = e.fresh /\ d.unknown = e.unknown
    BY <2>4 DEF Only, Fields
  <2>6. ~d.failed /\ ~d.unknown => ReadOK(d)
    BY <1>2, <2>2, <2>3, <2>5 DEF ReadOK
  <2>7. ReadMove(cap, d, prov)
    BY <1>1, <1>2, <2>2, <2>3, <2>4, <2>5, <2>6 DEF ReadMove
  <2> QED
    BY <1>1, <2>7, ReadMoveOK DEF d
<1>6. CASE d = [Postcheck(cap) EXCEPT !.pc = "conclude"]
  <2> DEFINE e == Postcheck(cap)
  <2>1. /\ e \in CaptureRecord /\ Only(cap, e, {"failed", "fresh", "unknown"})
        /\ ~e.failed /\ ~e.unknown => ~cap.failed /\ ~cap.unknown
        /\ e.fresh => e.failed
    <3>1. CASE InFinal
      BY <1>1, <1>2, <3>1 DEF Postcheck, Only
    <3>2. CASE ~InFinal
      BY <1>1, <3>2, FailedEffect DEF Postcheck
    <3> QED
      BY <3>1, <3>2
  <2>2. d = [e EXCEPT !.pc = "conclude"]
    BY <1>6
  <2> HIDE DEF d, e
  <2>3. /\ e.retired = cap.retired /\ e.eligible = cap.eligible /\ e.prepared = cap.prepared
        /\ e.child = cap.child /\ e.outcome = cap.outcome /\ e.seen = cap.seen /\ e.verified = cap.verified
    BY <2>1 DEF Only, Fields
  <2>4. d \in CaptureRecord /\ d.pc = "conclude" /\ Only(e, d, {"pc"})
    BY <2>1, <2>2, CapturePcNames DEF CaptureRecord, Only, Fields
  <2>5. /\ d.retired = e.retired /\ d.eligible = e.eligible /\ d.prepared = e.prepared
        /\ d.child = e.child /\ d.outcome = e.outcome /\ d.seen = e.seen /\ d.verified = e.verified
        /\ d.failed = e.failed /\ d.fresh = e.fresh /\ d.unknown = e.unknown
    BY <2>4 DEF Only, Fields
  <2>6. ~d.failed /\ ~d.unknown => ReadOK(d)
    BY <1>1, <1>2, <2>1, <2>3, <2>4, <2>5 DEF ReadOK
  <2>7. ReadMove(cap, d, prov)
    BY <1>1, <1>2, <2>1, <2>3, <2>4, <2>5, <2>6 DEF ReadMove
  <2> QED
    BY <1>1, <2>7, ReadMoveOK DEF d
<1>7. cap.todo # <<>> => \A e : Closing(cap, n, e) => AfterClose(cap, n, e)
  BY <1>1, <1>4, CloseAfter
<1> QED
  BY <1>5, <1>6, <1>7 DEF CloseOwners, CloseAttempt, Closing, n

LEMMA ConcludeOK ==
  ASSUME CaptureInv(cap, prov), Conclude
  PROVE  CaptureInv(cap', prov')
<1> DEFINE d == cap'
<1>1. cap.pc = "conclude" /\ cap \in CaptureRecord /\ prov' = prov
  BY DEF Conclude, CaptureInv
<1>2. PICK o \in {"result", "failure", "raised"} :
        d = [cap EXCEPT !.pc = "done", !.outcome = o] /\ (o = "result" => ResultReady(cap))
  BY DEF Conclude
<1> HIDE DEF d
<1>3. d \in CaptureRecord /\ d.pc = "done" /\ d.outcome = o /\ Only(cap, d, {"pc", "outcome"})
  BY <1>1, <1>2, CapturePcNames DEF CaptureRecord, Only, Fields
<1>4. /\ d.retired = cap.retired /\ d.slots = cap.slots /\ d.seen = cap.seen /\ d.verified = cap.verified
      /\ d.failed = cap.failed /\ d.fresh = cap.fresh
  BY <1>3 DEF Only, Fields
<1>5. HoldsOK(d, prov)
  BY <1>1, <1>3, <1>4 DEF CaptureInv, HoldsOK, FileClosed, BeforeSpawn, ReadPcs
<1>6. o = "result" => Succeeded(prov) /\ SeenAll(cap.seen, prov)
  <2> SUFFICES ASSUME o = "result" PROVE Succeeded(prov) /\ SeenAll(cap.seen, prov)
    OBVIOUS
  <2>1. ~cap.failed /\ ~cap.unknown
    BY <1>2 DEF ResultReady
  <2>2. prov.leader = "gone" /\ prov.code = 0 /\ ReadOK(cap) /\ cap.retired /\ ~Processes(prov)
    BY <1>1, <2>1 DEF CaptureInv, HoldsOK, ResultOK
  <2>3. \A t \in Streams : cap.seen[t] = prov.written
    BY <1>1, <2>2 DEF CaptureInv, ResultOK, ReadOK
  <2> QED
    BY <2>2, <2>3 DEF Succeeded, SeenAll, Processes
<1>7. ResultOK(d, prov)
  BY <1>1, <1>3, <1>4, <1>6 DEF CaptureInv, ResultOK, ReadPcs
<1> QED
  BY <1>1, <1>3, <1>5, <1>7 DEF CaptureInv, d

LEMMA CaptureStepOK ==
  ASSUME CaptureInv(cap, prov), CaptureStep
  PROVE  CaptureInv(cap', prov')
  BY TakeDirectoryOK, PrepareOK, SpawnOK, PollOK, PolledOK, ExitOK, DrainEndsOK, CloseScopeOK,
     CaptureStreamOK, CaptureReadOK, CloseOwnersOK, ConcludeOK DEF CaptureStep

LEMMA NewCaptureOK ==
  ASSUME NEW p \in ProviderRecord, Unstarted(p)
  PROVE  CaptureInv(NewCapture, p)
<1>1. NewCapture \in CaptureRecord
  <2>1. [n \in Names |-> "none"] \in [Names -> SlotStates] /\ [s \in Streams |-> 0] \in [Streams -> Nat]
    BY DEF SlotStates
  <2>2. "entered" \in CapturePcs /\ <<>> \in Seq(Names)
    BY DEF CapturePcs, BeforeSpawn
  <2> QED
    BY <2>1, <2>2 DEF NewCapture, CaptureRecord
<1>2. /\ NewCapture.pc = "entered" /\ ~NewCapture.retired /\ NewCapture.verified = {} /\ ~NewCapture.fresh
      /\ NewCapture.outcome = "none" /\ NewCapture.slots = [n \in Names |-> "none"]
  BY DEF NewCapture
<1>3. NewCapture.slots["scope"] = "none" /\ ~FileClosed(NewCapture)
  BY <1>2, SlotNames DEF FileClosed, Names, Streams, Logs
<1>4. HoldsOK(NewCapture, p)
  BY <1>2, <1>3 DEF HoldsOK, BeforeSpawn, ReadPcs
<1>5. ResultOK(NewCapture, p)
  BY <1>2 DEF ResultOK, ReadPcs
<1> QED
  BY <1>1, <1>4, <1>5 DEF CaptureInv

\* A process of the provider writes, or its leader exits, behind the capture.
LEMMA ProviderMoves ==
  ASSUME CaptureInv(cap, prov), Processes(prov), NEW p \in ProviderRecord,
         p.leader # prov.leader => prov.leader = "run" /\ p.leader = "gone",
         p.leader = prov.leader => p.code = prov.code
  PROVE  CaptureInv(cap, p)
<1>1. /\ cap.pc \notin BeforeSpawn /\ ~cap.retired /\ cap.outcome # "result"
      /\ ~(cap.pc = "exit" /\ cap.slots["scope"] = "none")
  BY DEF CaptureInv, HoldsOK, ResultOK, Unstarted, Succeeded, Processes
<1>2. HoldsOK(cap, p)
  BY <1>1 DEF CaptureInv, HoldsOK
<1>3. ResultOK(cap, p)
  BY <1>1 DEF CaptureInv, ResultOK
<1> QED
  BY <1>2, <1>3 DEF CaptureInv

-----------------------------------------------------------------------------
(* The worker around the capture, and its packet.                            *)

WorkerInv ==
  /\ wk \in WorkerRecord /\ packet \in PacketRecord /\ cap \in CaptureRecord /\ prov \in ProviderRecord
  /\ CaptureOK /\ WorkerOK

Ended(w) == w.pc \in {"none", "gone"}

\* What a step of the worker's side may not do to the supervisor.
WorkerSide ==
  /\ Ended(wk) => wk' = wk
  /\ Ended(wk) /\ ~Processes(prov) => prov' = prov
  /\ packet.of = "result" => packet'.of = "result"

LEMMA WorkerParts ==
  ASSUME WorkerInv
  PROVE  /\ wk.pc # "gone" => CaptureInv(cap, prov)
         /\ packet.seen \in [Streams -> Nat] /\ NewCapture \in CaptureRecord
<1>1. NewCapture \in CaptureRecord
  <2> DEFINE p == [leader |-> "none", helper |-> FALSE, code |-> 2, written |-> 0]
  <2>1. p \in ProviderRecord /\ Unstarted(p)
    BY DEF ProviderRecord, Unstarted
  <2> HIDE DEF p
  <2> QED
    BY <2>1, NewCaptureOK DEF CaptureInv
<1> QED
  BY <1>1 DEF WorkerInv, CaptureOK, CaptureInv, PacketRecord

\* The worker's process ends, perhaps with the provider.
LEMMA EndsOK ==
  ASSUME WorkerInv, wk' \in WorkerRecord, wk'.pc = "gone", cap' = NewCapture,
         packet' \in PacketRecord, packet'.of = packet.of, packet'.seen = packet.seen,
         prov' = prov \/ prov' = Killed(prov)
  PROVE  WorkerInv'
<1>1. /\ prov' \in ProviderRecord
      /\ Succeeded(prov) => Succeeded(prov') /\ prov'.written = prov.written
  BY KilledEffect DEF WorkerInv, Succeeded
<1>2. cap' \in CaptureRecord
  BY WorkerParts
<1>3. CaptureOK'
  BY DEF CaptureOK
<1>4. WorkerOK'
  BY <1>1 DEF WorkerInv, WorkerOK, SeenAll, AfterCapture
<1> QED
  BY <1>1, <1>2, <1>3, <1>4 DEF WorkerInv

\* The worker goes on beyond its capture, or before it.
LEMMA GoesOn ==
  ASSUME WorkerInv, NEW here, NEW next, wk.pc = here, wk' = [wk EXCEPT !.pc = next],
         cap' = cap, prov' = prov, packet' \in PacketRecord,
         \/ here = "roots" /\ next = "capture"
         \/ here \in AfterCapture /\ next \in AfterCapture
         \/ here = "capture" /\ cap.pc = "done" /\ next \in AfterCapture,
         packet'.of # "none" => next \in {"closing", "ack", "receipt"},
         packet'.of = "result" => Succeeded(prov) /\ SeenAll(packet'.seen, prov)
  PROVE  WorkerInv'
<1>1. wk' \in WorkerRecord /\ wk'.pc = next
  BY DEF WorkerInv, WorkerRecord
<1>2. CaptureOK'
  BY <1>1 DEF WorkerInv, CaptureOK, AfterCapture
<1>3. WorkerOK'
  BY <1>1 DEF WorkerInv, WorkerOK, AfterCapture
<1> QED
  BY <1>1, <1>2, <1>3 DEF WorkerInv

\* A step of run(): it returns, or the worker ends.
LEMMA StepToEffect ==
  ASSUME WorkerInv, NEW here, NEW next, NEW inTime, StepTo(here, next, inTime)
  PROVE  /\ wk.pc = here /\ prov' = prov
         /\ \/ wk' = [wk EXCEPT !.pc = next] /\ wk'.pc = next /\ cap' = cap /\ inTime
            \/ wk' \in WorkerRecord /\ wk'.pc = "gone" /\ cap' = NewCapture
  BY DEF StepTo, Incomplete, Ends, INCOMPLETE_EXIT, WorkerInv, WorkerRecord

LEMMA PassesOn ==
  ASSUME WorkerInv, NEW here, NEW next, NEW inTime, StepTo(here, next, inTime),
         \/ here = "roots" /\ next = "capture"
         \/ here \in AfterCapture /\ next \in AfterCapture,
         here \in {"closing", "ack", "receipt"} => next \in {"closing", "ack", "receipt"},
         packet' \in PacketRecord, packet'.of = packet.of, packet'.seen = packet.seen
  PROVE  WorkerInv' /\ WorkerSide
<1>1. /\ wk.pc = here /\ prov' = prov
      /\ \/ wk' = [wk EXCEPT !.pc = next] /\ wk'.pc = next /\ cap' = cap /\ inTime
         \/ wk' \in WorkerRecord /\ wk'.pc = "gone" /\ cap' = NewCapture
  BY StepToEffect
<1>2. WorkerSide
  BY <1>1 DEF WorkerSide, Ended, AfterCapture
<1>3. CASE wk' \in WorkerRecord /\ wk'.pc = "gone" /\ cap' = NewCapture
  BY <1>1, <1>2, <1>3, EndsOK
<1>4. CASE wk' = [wk EXCEPT !.pc = next] /\ cap' = cap
  <2>1. packet.of # "none" => here \in {"closing", "ack", "receipt", "gone"}
    BY <1>1 DEF WorkerInv, WorkerOK
  <2>2. packet.of = "result" => Succeeded(prov) /\ SeenAll(packet.seen, prov)
    BY DEF WorkerInv, WorkerOK
  <2>3. here # "gone"
    BY DEF AfterCapture
  <2> QED
    BY <1>1, <1>2, <1>4, <2>1, <2>2, <2>3, GoesOn
<1> QED
  BY <1>1, <1>3, <1>4

LEMMA CaptureOfWorker ==
  ASSUME WorkerInv, Capture
  PROVE  WorkerInv' /\ WorkerSide
<1>1. wk.pc = "capture" /\ wk' = wk /\ packet' = packet /\ CaptureStep
  BY DEF Capture
<1>2. CaptureInv(cap, prov)
  BY <1>1, WorkerParts
<1>3. CaptureInv(cap', prov')
  BY <1>1, <1>2, CaptureStepOK
<1>4. packet.of = "none"
  BY <1>1 DEF WorkerInv, WorkerOK
<1>5. WorkerInv'
  BY <1>1, <1>3, <1>4 DEF WorkerInv, WorkerOK, CaptureOK, CaptureInv, AfterCapture
<1>6. WorkerSide
  BY <1>1, <1>4 DEF WorkerSide, Ended
<1> QED
  BY <1>5, <1>6

LEMMA CollectOK ==
  ASSUME WorkerInv, Collect
  PROVE  WorkerInv' /\ WorkerSide
<1>1. wk.pc = "capture" /\ cap.pc = "done" /\ prov' = prov /\ packet' = packet
  BY DEF Collect
<1>2. packet.of = "none" /\ packet \in PacketRecord
  BY <1>1 DEF WorkerInv, WorkerOK
<1>3. WorkerSide
  BY <1>1, <1>2 DEF WorkerSide, Ended
<1>4. CASE Incomplete
  <2>1. wk' \in WorkerRecord /\ wk'.pc = "gone" /\ cap' = NewCapture
    BY <1>4 DEF Incomplete, Ends, INCOMPLETE_EXIT, WorkerRecord
  <2> QED
    BY <1>1, <1>2, <1>3, <2>1, EndsOK
<1>5. CASE wk' = [wk EXCEPT !.pc = "tools"] /\ cap' = cap
  BY <1>1, <1>2, <1>3, <1>5, GoesOn DEF AfterCapture
<1> QED
  BY <1>4, <1>5 DEF Collect

LEMMA WritePacketOK ==
  ASSUME WorkerInv, WritePacket
  PROVE  WorkerInv' /\ WorkerSide
<1>1. /\ wk.pc = "write" /\ prov' = prov
      /\ \/ wk' = [wk EXCEPT !.pc = "closing"] /\ wk'.pc = "closing" /\ cap' = cap
         \/ wk' \in WorkerRecord /\ wk'.pc = "gone" /\ cap' = NewCapture
  BY StepToEffect DEF WritePacket
<1>2. packet.of = "none" /\ packet \in PacketRecord /\ cap \in CaptureRecord /\ cap.pc = "done"
  BY <1>1 DEF WorkerInv, WorkerOK, AfterCapture
<1>3. WorkerSide
  BY <1>1, <1>2 DEF WorkerSide, Ended
<1>4. CASE wk' \in WorkerRecord /\ wk'.pc = "gone" /\ cap' = NewCapture
  <2>1. packet' = packet
    BY <1>4 DEF WritePacket
  <2> QED
    BY <1>1, <1>2, <1>3, <1>4, <2>1, EndsOK
<1>5. CASE wk' = [wk EXCEPT !.pc = "closing"] /\ wk'.pc = "closing" /\ cap' = cap
  <2>1. packet' = Encoded(cap)
    BY <1>5 DEF WritePacket
  <2>2. packet' \in PacketRecord /\ packet'.of = cap.outcome /\ packet'.seen = cap.seen
    BY <1>2, <2>1 DEF Encoded, PacketRecord, CaptureRecord
  <2>3. CaptureInv(cap, prov)
    BY <1>1, WorkerParts
  <2>4. cap.outcome = "result" => Succeeded(prov) /\ SeenAll(cap.seen, prov)
    BY <2>3 DEF CaptureInv, ResultOK
  <2> QED
    BY <1>1, <1>3, <1>5, <2>2, <2>4, GoesOn DEF AfterCapture
<1> QED
  BY <1>1, <1>4, <1>5

LEMMA WorkerStepOK ==
  ASSUME WorkerInv, WorkerStep
  PROVE  WorkerInv' /\ WorkerSide
<1>1. packet \in PacketRecord
  BY DEF WorkerInv
<1>2. CASE OpenRoots
  BY <1>1, <1>2, PassesOn DEF OpenRoots, AfterCapture
<1>3. CASE FinishTools
  BY <1>1, <1>3, PassesOn DEF FinishTools, AfterCapture
<1>4. CASE CreatePacket
  <2>1. packet' \in PacketRecord /\ packet'.of = packet.of /\ packet'.seen = packet.seen
    BY <1>1, <1>4 DEF CreatePacket, PacketRecord
  <2> QED
    BY <1>4, <2>1, PassesOn DEF CreatePacket, AfterCapture
<1>5. CASE CloseAll
  BY <1>1, <1>5, PassesOn DEF CloseAll, AfterCapture
<1>6. CASE Acknowledge
  <2>1. packet' \in PacketRecord /\ packet'.of = packet.of /\ packet'.seen = packet.seen
    BY <1>1, <1>6 DEF Acknowledge, PacketRecord
  <2> QED
    BY <1>6, <2>1, PassesOn DEF Acknowledge, AfterCapture
<1>7. CASE Receipt
  <2>1. wk' \in WorkerRecord /\ wk'.pc = "gone" /\ cap' = NewCapture /\ packet' = packet /\ prov' = prov
    BY <1>7 DEF Receipt, Ends, ExitCode, INCOMPLETE_EXIT, FAILED_CAPTURE_EXIT, WorkerRecord
  <2>2. WorkerSide
    BY <1>7, <2>1 DEF Receipt, WorkerSide, Ended
  <2> QED
    BY <1>1, <2>1, <2>2, EndsOK
<1> QED
  BY <1>2, <1>3, <1>4, <1>5, <1>6, <1>7, CaptureOfWorker, CollectOK, WritePacketOK DEF WorkerStep

LEMMA WorkerDiesOK ==
  ASSUME WorkerInv, WorkerDies
  PROVE  WorkerInv' /\ WorkerSide
<1>1. wk' \in WorkerRecord /\ wk'.pc = "gone" /\ cap' = NewCapture /\ packet' = packet /\ prov' = prov
  BY DEF WorkerDies, Ends, WorkerRecord
<1>2. WorkerSide
  BY <1>1 DEF WorkerDies, Alive, WorkerSide, Ended
<1> QED
  BY <1>1, <1>2, EndsOK DEF WorkerInv

LEMMA PacketReplacedOK ==
  ASSUME WorkerInv, PacketReplaced
  PROVE  WorkerInv' /\ WorkerSide
<1>1. /\ packet' \in PacketRecord /\ packet'.of = packet.of /\ packet'.seen = packet.seen
      /\ wk' = wk /\ cap' = cap /\ prov' = prov
  BY DEF PacketReplaced, WorkerInv, PacketRecord
<1>2. WorkerInv'
  BY <1>1 DEF WorkerInv, CaptureOK, WorkerOK
<1> QED
  BY <1>1, <1>2 DEF WorkerSide

LEMMA ProviderStepOK ==
  ASSUME WorkerInv, ProviderStep, UNCHANGED <<cap, wk, packet>>
  PROVE  WorkerInv' /\ WorkerSide
<1>1. /\ Processes(prov) /\ prov' \in ProviderRecord
      /\ prov'.leader # prov.leader => prov.leader = "run" /\ prov'.leader = "gone"
      /\ prov'.leader = prov.leader => prov'.code = prov.code
  <2>1. prov \in ProviderRecord
    BY DEF WorkerInv
  <2>2. CASE Write
    BY <2>1, <2>2 DEF Write, Processes, ProviderRecord
  <2>3. CASE \E c \in {0, 1} : LeaderExits(c)
    <3>1. PICK c \in {0, 1} : LeaderExits(c)
      BY <2>3
    <3>2. prov.leader = "run" /\ prov' = [prov EXCEPT !.leader = "gone", !.code = c] /\ c \in 0..2
      BY <3>1 DEF LeaderExits
    <3>3. prov' \in ProviderRecord /\ prov'.leader = "gone"
      BY <2>1, <3>2 DEF ProviderRecord
    <3> QED
      BY <3>2, <3>3 DEF Processes
  <2> QED
    BY <2>2, <2>3 DEF ProviderStep
<1>2. wk.pc # "gone" => CaptureInv(cap, prov')
  BY <1>1, WorkerParts, ProviderMoves
<1>3. ~Succeeded(prov) /\ ~Unstarted(prov)
  BY <1>1 DEF Processes, Succeeded, Unstarted
<1>4. packet.of # "result" /\ wk.pc # "none"
  BY <1>3 DEF WorkerInv, WorkerOK
<1>5. WorkerInv'
  BY <1>1, <1>2, <1>4 DEF WorkerInv, WorkerOK, CaptureOK, CaptureInv
<1>6. WorkerSide
  BY <1>1 DEF WorkerSide
<1> QED
  BY <1>5, <1>6

\* A drain or a close of the outer scope ends the worker and the provider.
LEMMA KillsAllOK ==
  ASSUME WorkerInv, KillsAll, packet' = packet
  PROVE  /\ WorkerInv' /\ WorkerSide
         /\ ~Processes(prov') /\ Ended(wk') /\ (wk.pc = "none" => wk'.pc = "none")
<1>1. /\ prov \in ProviderRecord /\ prov' = Killed(prov) /\ prov' \in ProviderRecord /\ ~Processes(prov')
  BY KilledEffect DEF KillsAll, WorkerInv
<1>2. ~Processes(prov) => prov' = prov
  BY <1>1 DEF Killed, Processes, ProviderRecord
<1>3. CASE Alive
  <2>1. wk' \in WorkerRecord /\ wk'.pc = "gone" /\ cap' = NewCapture
    BY <1>3 DEF KillsAll, Ends, KILLED_EXIT, WorkerRecord
  <2>2. WorkerInv'
    BY <1>1, <2>1, EndsOK DEF WorkerInv
  <2>3. WorkerSide
    BY <1>3 DEF WorkerSide, Ended, Alive
  <2> QED
    BY <1>1, <1>3, <2>1, <2>2, <2>3 DEF Ended, Alive
<1>4. CASE ~Alive
  <2>1. wk' = wk /\ cap' = cap /\ wk.pc \in {"none", "gone"}
    BY <1>4 DEF KillsAll, Alive
  <2>2. WorkerSide
    BY <1>2, <2>1 DEF WorkerSide
  <2>3. CASE wk.pc = "gone"
    <3>1. WorkerInv'
      BY <1>1, <2>1, <2>3, EndsOK DEF WorkerInv, WorkerOK
    <3> QED
      BY <1>1, <2>1, <2>2, <2>3, <3>1 DEF Ended
  <2>4. CASE wk.pc = "none"
    <3>1. Unstarted(prov)
      BY <2>4 DEF WorkerInv, WorkerOK
    <3>2. ~Processes(prov)
      BY <3>1 DEF Unstarted, Processes
    <3>3. prov' = prov
      BY <1>2, <3>2
    <3>4. WorkerInv'
      BY <2>1, <3>3 DEF WorkerInv, WorkerOK, CaptureOK
    <3> QED
      BY <1>1, <2>1, <2>2, <2>4, <3>4 DEF Ended
  <2> QED
    BY <2>1, <2>3, <2>4
<1> QED
  BY <1>3, <1>4

\* The worker is spawned: its capture is new and the provider has not started.
LEMMA WorkerSpawned ==
  ASSUME WorkerInv, wk.pc = "none", wk' = [wk EXCEPT !.pc = "roots"], UNCHANGED <<prov, cap, packet>>
  PROVE  WorkerInv'
<1>1. wk' \in WorkerRecord /\ wk'.pc = "roots"
  BY DEF WorkerInv, WorkerRecord
<1>2. packet.of = "none" /\ cap = NewCapture /\ CaptureOK
  BY DEF WorkerInv, WorkerOK
<1>3. CaptureOK'
  BY <1>2 DEF CaptureOK
<1>4. WorkerOK'
  BY <1>1, <1>2 DEF WorkerOK, AfterCapture
<1> QED
  BY <1>1, <1>3, <1>4 DEF WorkerInv

-----------------------------------------------------------------------------
(* The supervisor's record.                                                  *)

SupFields == {"pc", "slots", "failed", "unknown", "fresh", "boundary", "waiting", "code", "qualified", "retired",
              "returned", "control", "todo", "transcript", "sent"}
SupPcs == Undrained \cup Readback \cup {"closes", "transcript", "send", "returned"}
SupOnly(s, t, F) == \A f \in SupFields \ F : t[f] = s[f]

LEMMA SupPcEffect ==
  ASSUME NEW s \in SupervisorRecord, NEW q \in SupPcs
  PROVE  /\ [s EXCEPT !.pc = q] \in SupervisorRecord
         /\ [s EXCEPT !.pc = q].pc = q
         /\ SupOnly(s, [s EXCEPT !.pc = q], {"pc"})
  BY DEF SupervisorRecord, SupOnly, SupFields, SupPcs

LEMMA SupFailsEffect ==
  ASSUME NEW s \in SupervisorRecord, NEW u \in BOOLEAN
  PROVE  /\ SupFails(s, u) \in SupervisorRecord
         /\ SupFails(s, u).failed /\ SupFails(s, u).fresh /\ (SupFails(s, u).unknown <=> (s.unknown \/ u))
         /\ SupOnly(s, SupFails(s, u), {"failed", "fresh", "unknown"})
  BY DEF SupFails, SupervisorRecord, SupOnly, SupFields

LEMMA SupSlotEffect ==
  ASSUME NEW s \in SupervisorRecord, NEW n \in Owners, NEW v \in SlotStates
  PROVE  /\ [s EXCEPT !.slots[n] = v] \in SupervisorRecord
         /\ [s EXCEPT !.slots[n] = v].slots = [s.slots EXCEPT ![n] = v]
         /\ SupOnly(s, [s EXCEPT !.slots[n] = v], {"slots"})
  BY DEF SupervisorRecord, SupOnly, SupFields

\* A failure that ends the phase: the record afterwards, at q.
SupEnds(s, u, q) == [SupFails(s, u) EXCEPT !.pc = q]

LEMMA SupEndEffect ==
  ASSUME NEW s \in SupervisorRecord, NEW q \in SupPcs, NEW u \in BOOLEAN
  PROVE  /\ SupEnds(s, u, q) \in SupervisorRecord /\ SupEnds(s, u, q).pc = q
         /\ SupEnds(s, u, q).failed /\ SupEnds(s, u, q).fresh /\ (SupEnds(s, u, q).unknown <=> (s.unknown \/ u))
         /\ SupOnly(s, SupEnds(s, u, q), {"pc", "failed", "fresh", "unknown"})
<1> DEFINE f == SupFails(s, u)
<1> DEFINE t == SupEnds(s, u, q)
<1>1. /\ f \in SupervisorRecord /\ f.failed /\ f.fresh /\ (f.unknown <=> (s.unknown \/ u))
      /\ SupOnly(s, f, {"failed", "fresh", "unknown"})
  BY SupFailsEffect
<1> HIDE DEF f
<1>2. t = [f EXCEPT !.pc = q]
  BY DEF f, SupEnds
<1> HIDE DEF t
<1>3. t \in SupervisorRecord /\ t.pc = q /\ SupOnly(f, t, {"pc"})
  BY <1>1, <1>2, SupPcEffect
<1>4. t.failed = f.failed /\ t.fresh = f.fresh /\ t.unknown = f.unknown
  BY <1>3 DEF SupOnly, SupFields
<1>5. SupOnly(s, t, {"pc", "failed", "fresh", "unknown"})
  BY <1>1, <1>3 DEF SupOnly
<1> QED
  BY <1>1, <1>3, <1>4, <1>5 DEF t

SupInv(s, w, p, of) == s \in SupervisorRecord /\ SupHolds(s, w, p) /\ SupResult(s, of)

\* The worker's side moves on and the supervisor does not.
LEMMA BesideSupervisor ==
  ASSUME NEW s, SupInv(s, wk, prov, packet.of), WorkerSide
  PROVE  SupInv(s, wk', prov', packet'.of)
<1>1. SupHolds(s, wk', prov')
  <2>1. s.pc \in BeforeLaunch => wk'.pc = "none"
    BY DEF SupInv, SupHolds, WorkerSide, Ended
  <2>2. s.pc = "finish" /\ s.slots["scope"] = "none" => wk'.pc = "none"
    BY DEF SupInv, SupHolds, WorkerSide, Ended
  <2>3. s.retired => ~Processes(prov') /\ wk'.pc \in {"none", "gone"}
    BY DEF SupInv, SupHolds, WorkerSide, Ended
  <2> QED
    BY <2>1, <2>2, <2>3 DEF SupInv, SupHolds
<1>2. SupResult(s, packet'.of)
  BY DEF SupInv, SupResult, WorkerSide
<1> QED
  BY <1>1, <1>2 DEF SupInv

-----------------------------------------------------------------------------
(* The supervisor's steps.                                                   *)

SupStepOK ==
  /\ WorkerInv' /\ SupInv(sup', wk', prov', packet'.of)
  /\ sup'.pc # "idle" /\ (sup.failed => sup'.failed)

Supervised == WorkerInv /\ SupInv(sup, wk, prov, packet.of)

LEMMA SupPcNames ==
  /\ BeforeLaunch \subseteq SupPcs /\ Undrained \subseteq SupPcs /\ Readback \subseteq SupPcs
  /\ {"wait", "polled", "finish", "drain", "scope closing", "closes", "transcript", "send", "returned"} \subseteq SupPcs
  BY DEF SupPcs, Undrained

LEMMA OwnerNames ==
  /\ {"directory", "home", "capture_directory", "scope", "bundle", "stdout", "stderr"} \subseteq Owners
  /\ {"stdout-reader", "stderr-reader", "packet-reader", "retirement-writer"} \subseteq Owners
  /\ "scope" \notin FileOwners /\ FileOwners = Owners \ {"scope"}
  BY DEF Owners, FileOwners

\* The worker's side stays as it is.
LEMMA WorkerStays ==
  ASSUME Supervised, UNCHANGED worker
  PROVE  /\ WorkerInv'
         /\ \A s : SupInv(s, wk, prov, packet.of) => SupInv(s, wk', prov', packet'.of)
<1>1. wk' = wk /\ prov' = prov /\ packet' = packet /\ cap' = cap
  BY DEF worker
<1>2. WorkerInv'
  BY <1>1 DEF Supervised, WorkerInv, CaptureOK, WorkerOK
<1> QED
  BY <1>1, <1>2

LEMMA LaunchAcquireOK ==
  ASSUME Supervised, LaunchAcquire
  PROVE  SupStepOK
<1>1. /\ sup.pc \in {"capture_directory", "scope", "bundle", "stdout", "stderr"} /\ UNCHANGED worker
      /\ sup \in SupervisorRecord /\ SupHolds(sup, wk, prov) /\ SupResult(sup, packet.of)
  BY DEF LaunchAcquire, LaunchAfter, Pass, worker, Supervised, SupInv
<1>2. sup.pc \in Owners /\ sup.slots \in [Owners -> SlotStates]
  BY <1>1, OwnerNames DEF SupervisorRecord
<1>3. CASE sup' = [sup EXCEPT !.slots[sup.pc] = "held", !.pc = LaunchAfter[sup.pc]]
  <2>1. /\ LaunchAfter[sup.pc] \in BeforeLaunch \ {"idle", "capture_directory"}
        /\ LaunchAfter[sup.pc] # "scope" => sup.pc # "capture_directory"
        /\ LaunchAfter[sup.pc] # "scope" /\ sup.pc # "scope" => sup.slots["scope"] = "held"
    <3>1. /\ LaunchAfter["capture_directory"] = "scope" /\ LaunchAfter["scope"] = "bundle"
          /\ LaunchAfter["bundle"] = "stdout" /\ LaunchAfter["stdout"] = "stderr" /\ LaunchAfter["stderr"] = "spawn"
      BY DEF LaunchAfter
    <3>2. sup.pc \in {"bundle", "stdout", "stderr"} => sup.slots["scope"] = "held"
      BY <1>1 DEF SupHolds
    <3> QED
      BY <1>1, <3>1, <3>2 DEF BeforeLaunch
  <2>2. sup' \in SupervisorRecord /\ sup'.pc = LaunchAfter[sup.pc] /\ SupOnly(sup, sup', {"slots", "pc"})
    BY <1>1, <1>2, <1>3, <2>1, SupPcNames DEF SupervisorRecord, SupOnly, SupFields, SupPcs, SlotStates
  <2>3. sup'.slots = [sup.slots EXCEPT ![sup.pc] = "held"]
    BY <1>1, <1>3 DEF SupervisorRecord
  <2>4. /\ sup'.waiting = sup.waiting /\ sup'.retired = sup.retired /\ sup'.control = sup.control
        /\ sup'.failed = sup.failed /\ sup'.sent = sup.sent /\ sup'.returned = sup.returned
    BY <2>2 DEF SupOnly, SupFields
  <2>5. ~SupFileClosed(sup') /\ (sup'.pc # "scope" => sup'.slots["scope"] = "held")
    <3>1. ~SupFileClosed(sup)
      BY <1>1 DEF SupHolds, Undrained, BeforeLaunch
    <3> QED
      BY <1>2, <2>1, <2>2, <2>3, <3>1, OwnerNames DEF SupFileClosed
  <2>6. sup'.waiting => sup'.slots["scope"] # "none"
    BY <1>1, <1>2, <2>3, <2>4, OwnerNames DEF SupHolds
  <2>7. SupHolds(sup', wk, prov)
    BY <1>1, <2>1, <2>2, <2>4, <2>5, <2>6 DEF SupHolds, BeforeLaunch, Undrained, Readback
  <2>8. SupResult(sup', packet.of)
    BY <1>1, <2>1, <2>2, <2>4 DEF SupResult, BeforeLaunch, Undrained, Readback
  <2> QED
    BY <1>1, <2>1, <2>2, <2>4, <2>7, <2>8, WorkerStays DEF SupStepOK, SupInv, BeforeLaunch
<1>4. CASE \/ sup' = SupEnds([sup EXCEPT !.slots[sup.pc] = "lost"], TRUE, "finish")
           \/ sup' = SupEnds(sup, FALSE, "finish")
  <2>1. /\ sup' \in SupervisorRecord /\ sup'.pc = "finish" /\ sup'.failed
        /\ SupOnly(sup, sup', {"slots", "pc", "failed", "fresh", "unknown"})
        /\ sup'.slots = sup.slots \/ sup'.slots = [sup.slots EXCEPT ![sup.pc] = "lost"]
    <3>1. CASE sup' = SupEnds([sup EXCEPT !.slots[sup.pc] = "lost"], TRUE, "finish")
      <4> DEFINE b == [sup EXCEPT !.slots[sup.pc] = "lost"]
      <4>1. /\ b \in SupervisorRecord /\ SupOnly(sup, b, {"slots"})
            /\ b.slots = [sup.slots EXCEPT ![sup.pc] = "lost"]
        BY <1>1, <1>2, SupSlotEffect DEF SlotStates
      <4> HIDE DEF b
      <4>2. /\ sup' \in SupervisorRecord /\ sup'.pc = "finish" /\ sup'.failed
            /\ SupOnly(b, sup', {"pc", "failed", "fresh", "unknown"})
        BY <3>1, <4>1, SupEndEffect, SupPcNames DEF b
      <4>3. sup'.slots = b.slots /\ SupOnly(sup, sup', {"slots", "pc", "failed", "fresh", "unknown"})
        BY <4>1, <4>2 DEF SupOnly, SupFields
      <4> QED
        BY <4>1, <4>2, <4>3
    <3>2. CASE sup' = SupEnds(sup, FALSE, "finish")
      <4>1. /\ sup' \in SupervisorRecord /\ sup'.pc = "finish" /\ sup'.failed
            /\ SupOnly(sup, sup', {"pc", "failed", "fresh", "unknown"})
        BY <1>1, <3>2, SupEndEffect, SupPcNames
      <4> QED
        BY <4>1 DEF SupOnly, SupFields
    <3> QED
      BY <1>4, <3>1, <3>2
  <2>4. /\ sup'.waiting = sup.waiting /\ sup'.retired = sup.retired /\ sup'.control = sup.control
        /\ sup'.sent = sup.sent /\ sup'.returned = sup.returned
    BY <2>1 DEF SupOnly, SupFields
  <2>5. ~SupFileClosed(sup') /\ (sup'.slots["scope"] = "none" => sup.slots["scope"] = "none")
    <3>1. ~SupFileClosed(sup)
      BY <1>1 DEF SupHolds, Undrained, BeforeLaunch
    <3> QED
      BY <1>2, <2>1, <3>1, OwnerNames DEF SupFileClosed
  <2>7. SupHolds(sup', wk, prov)
    BY <1>1, <2>1, <2>4, <2>5 DEF SupHolds, BeforeLaunch, Undrained, Readback
  <2>8. SupResult(sup', packet.of)
    BY <1>1, <2>1, <2>4 DEF SupResult, BeforeLaunch, Undrained, Readback
  <2> QED
    BY <1>1, <2>1, <2>7, <2>8, WorkerStays DEF SupStepOK, SupInv
<1> QED
  BY <1>3, <1>4 DEF LaunchAcquire, SupEnds

\* A step that ends in a recorded failure at "finish", from inside the launch
\* or the wait.
LEMMA FailsToFinish ==
  ASSUME NEW s, NEW t, NEW w, NEW p, NEW of, SupInv(s, w, p, of), s.pc \in {"spawn", "wait", "polled"},
         t \in SupervisorRecord, t.pc = "finish", t.failed, t.slots = s.slots, t.waiting = s.waiting,
         t.retired = s.retired, t.control = s.control, t.returned = s.returned, t.sent = s.sent
  PROVE  SupInv(t, w, p, of)
<1>1. SupHolds(t, w, p)
  <2>1. SupFileClosed(t) = SupFileClosed(s) /\ t.slots["scope"] = "held"
    BY DEF SupFileClosed, SupInv, SupHolds
  <2> QED
    BY <2>1 DEF SupInv, SupHolds, BeforeLaunch, Undrained, Readback
<1>2. SupResult(t, of)
  BY DEF SupInv, SupResult, BeforeLaunch, Undrained, Readback
<1> QED
  BY <1>1, <1>2 DEF SupInv

LEMMA LaunchSpawnOK ==
  ASSUME Supervised, LaunchSpawn
  PROVE  SupStepOK
<1>1. /\ sup.pc = "spawn" /\ UNCHANGED <<prov, cap, packet>> /\ WorkerInv
      /\ sup \in SupervisorRecord /\ SupHolds(sup, wk, prov) /\ SupResult(sup, packet.of)
      /\ SupInv(sup, wk, prov, packet.of)
  BY DEF LaunchSpawn, Supervised, SupInv
<1>2. wk.pc = "none" /\ ~sup.retired /\ ~SupFileClosed(sup) /\ sup.slots["scope"] = "held"
  BY <1>1 DEF SupHolds, BeforeLaunch, Undrained
<1>3. wk' = wk \/ wk' = [wk EXCEPT !.pc = "roots"]
  BY DEF LaunchSpawn
<1>4. WorkerInv'
  BY <1>1, <1>2, <1>3, WorkerSpawned DEF WorkerInv, CaptureOK, WorkerOK
<1>5. CASE sup' = [sup EXCEPT !.pc = "wait", !.waiting = TRUE]
  <2>1. sup' \in SupervisorRecord /\ sup'.pc = "wait" /\ SupOnly(sup, sup', {"pc", "waiting"})
    BY <1>1, <1>5, SupPcNames DEF SupervisorRecord, SupOnly, SupFields, SupPcs
  <2>2. /\ sup'.slots = sup.slots /\ sup'.retired = sup.retired /\ sup'.control = sup.control
        /\ sup'.failed = sup.failed /\ sup'.sent = sup.sent /\ sup'.returned = sup.returned
    BY <2>1 DEF SupOnly, SupFields
  <2>3. SupHolds(sup', wk', prov')
    BY <1>2, <2>1, <2>2 DEF SupHolds, SupFileClosed, BeforeLaunch, Undrained, Readback
  <2>4. SupResult(sup', packet'.of)
    BY <1>1, <2>1, <2>2 DEF SupResult, BeforeLaunch, Undrained, Readback
  <2> QED
    BY <1>4, <2>1, <2>2, <2>3, <2>4 DEF SupStepOK, SupInv
<1>6. CASE sup' = SupEnds(sup, FALSE, "finish")
  <2>1. /\ sup' \in SupervisorRecord /\ sup'.pc = "finish" /\ sup'.failed
        /\ SupOnly(sup, sup', {"pc", "failed", "fresh", "unknown"})
    BY <1>1, <1>6, SupEndEffect, SupPcNames
  <2>2. /\ sup'.waiting = sup.waiting /\ sup'.retired = sup.retired /\ sup'.control = sup.control
        /\ sup'.sent = sup.sent /\ sup'.returned = sup.returned /\ sup'.slots = sup.slots
    BY <2>1 DEF SupOnly, SupFields
  <2>3. SupInv(sup', wk, prov, packet.of)
    BY <1>1, <2>1, <2>2, FailsToFinish
  <2>4. SupInv(sup', wk', prov', packet'.of)
    BY <1>1, <1>2, <2>1, <2>2, <2>3 DEF SupInv, SupHolds, BeforeLaunch
  <2> QED
    BY <1>4, <2>1, <2>4 DEF SupStepOK
<1> QED
  BY <1>5, <1>6 DEF LaunchSpawn, SupEnds

LEMMA WaitOK ==
  ASSUME Supervised, Wait
  PROVE  SupStepOK
<1>1. /\ sup.pc = "wait" /\ UNCHANGED worker /\ SupInv(sup, wk, prov, packet.of) /\ wk \in WorkerRecord
      /\ sup \in SupervisorRecord /\ SupHolds(sup, wk, prov) /\ SupResult(sup, packet.of)
  BY DEF Wait, Pass, worker, Supervised, SupInv, WorkerInv
<1>2. CASE sup' = [sup EXCEPT !.code = wk.code, !.pc = "polled"]
  <2>1. sup' \in SupervisorRecord /\ sup'.pc = "polled" /\ SupOnly(sup, sup', {"pc", "code"})
    BY <1>1, <1>2, SupPcNames DEF SupervisorRecord, SupOnly, SupFields, SupPcs, WorkerRecord
  <2>2. /\ sup'.slots = sup.slots /\ sup'.retired = sup.retired /\ sup'.control = sup.control
        /\ sup'.failed = sup.failed /\ sup'.sent = sup.sent /\ sup'.returned = sup.returned
        /\ sup'.waiting = sup.waiting
    BY <2>1 DEF SupOnly, SupFields
  <2>3. SupHolds(sup', wk, prov)
    BY <1>1, <2>1, <2>2 DEF SupHolds, SupFileClosed, BeforeLaunch, Undrained, Readback
  <2>4. SupResult(sup', packet.of)
    BY <1>1, <2>1, <2>2 DEF SupResult, BeforeLaunch, Undrained, Readback
  <2> QED
    BY <1>1, <2>1, <2>2, <2>3, <2>4, WorkerStays DEF SupStepOK, SupInv
<1>3. CASE sup' = SupEnds(sup, FALSE, "finish")
  <2>1. /\ sup' \in SupervisorRecord /\ sup'.pc = "finish" /\ sup'.failed
        /\ SupOnly(sup, sup', {"pc", "failed", "fresh", "unknown"})
    BY <1>1, <1>3, SupEndEffect, SupPcNames
  <2>2. /\ sup'.waiting = sup.waiting /\ sup'.retired = sup.retired /\ sup'.control = sup.control
        /\ sup'.sent = sup.sent /\ sup'.returned = sup.returned /\ sup'.slots = sup.slots
    BY <2>1 DEF SupOnly, SupFields
  <2>3. SupInv(sup', wk, prov, packet.of)
    BY <1>1, <2>1, <2>2, FailsToFinish
  <2> QED
    BY <1>1, <2>1, <2>3, WorkerStays DEF SupStepOK
<1> QED
  BY <1>2, <1>3 DEF Wait, SupEnds

LEMMA WaitReturnsOK ==
  ASSUME Supervised, WaitReturns
  PROVE  SupStepOK
<1>1. /\ sup.pc = "polled" /\ UNCHANGED worker /\ SupInv(sup, wk, prov, packet.of)
      /\ sup \in SupervisorRecord /\ SupHolds(sup, wk, prov) /\ SupResult(sup, packet.of)
  BY DEF WaitReturns, Pass, worker, Supervised, SupInv
<1> DEFINE q == now < Cutoff
<1> DEFINE s == [sup EXCEPT !.qualified = q, !.pc = "finish"]
<1>q. q \in BOOLEAN
  OBVIOUS
<1> HIDE DEF q
<1>2. s \in SupervisorRecord /\ s.pc = "finish" /\ SupOnly(sup, s, {"pc", "qualified"})
  BY <1>1, <1>q, SupPcNames DEF SupervisorRecord, SupOnly, SupFields, SupPcs
<1>3. \/ sup' = s /\ s.code = 0
      \/ sup' = SupFails(s, FALSE)
  BY DEF WaitReturns, q
<1> HIDE DEF s
<1>4. /\ s.slots = sup.slots /\ s.retired = sup.retired /\ s.control = sup.control /\ s.code = sup.code
      /\ s.failed = sup.failed /\ s.sent = sup.sent /\ s.returned = sup.returned /\ s.waiting = sup.waiting
  BY <1>2 DEF SupOnly, SupFields
<1>5. CASE sup' = s /\ s.code = 0
  <2>1. SupHolds(s, wk, prov)
    BY <1>1, <1>2, <1>4 DEF SupHolds, SupFileClosed, BeforeLaunch, Undrained, Readback
  <2>2. SupResult(s, packet.of)
    BY <1>1, <1>2, <1>4, <1>5 DEF SupResult, BeforeLaunch, Undrained, Readback
  <2>3. SupInv(s, wk, prov, packet.of)
    BY <1>2, <2>1, <2>2 DEF SupInv
  <2> QED
    BY <1>1, <1>2, <1>4, <1>5, <2>3, WorkerStays DEF SupStepOK
<1>6. CASE sup' = SupFails(s, FALSE)
  <2>1. /\ sup' \in SupervisorRecord /\ sup'.failed /\ SupOnly(s, sup', {"failed", "fresh", "unknown"})
    BY <1>2, <1>6, SupFailsEffect
  <2>2. /\ sup'.waiting = sup.waiting /\ sup'.retired = sup.retired /\ sup'.control = sup.control
        /\ sup'.sent = sup.sent /\ sup'.returned = sup.returned /\ sup'.slots = sup.slots /\ sup'.pc = "finish"
    BY <1>2, <1>4, <2>1 DEF SupOnly, SupFields
  <2>3. SupInv(sup', wk, prov, packet.of)
    BY <1>1, <2>1, <2>2, FailsToFinish
  <2> QED
    BY <1>1, <2>1, <2>2, <2>3, WorkerStays DEF SupStepOK
<1> QED
  BY <1>3, <1>5, <1>6

LEMMA FinishOK ==
  ASSUME Supervised, Finish
  PROVE  SupStepOK
<1>1. /\ sup.pc = "finish" /\ UNCHANGED worker /\ WorkerInv
      /\ sup \in SupervisorRecord /\ SupHolds(sup, wk, prov) /\ SupResult(sup, packet.of)
  BY DEF Finish, Pass, worker, Supervised, SupInv
<1> DEFINE s == [sup EXCEPT !.boundary = sup.failed, !.fresh = FALSE]
<1>2. s \in SupervisorRecord /\ SupOnly(sup, s, {"boundary", "fresh"})
  BY <1>1 DEF SupervisorRecord, SupOnly, SupFields
<1>3. \/ sup.slots["scope"] = "held" /\ sup' = [s EXCEPT !.pc = "drain"]
      \/ sup.slots["scope"] = "none" /\ sup' = [s EXCEPT !.pc = "closes", !.retired = TRUE]
      \/ sup' = [s EXCEPT !.pc = "returned", !.unknown = TRUE]
  BY DEF Finish
<1> HIDE DEF s
<1>4. ~sup.retired /\ ~SupFileClosed(sup) /\ (sup.slots["scope"] = "none" => wk.pc = "none")
  BY <1>1 DEF SupHolds, Undrained
<1>5. /\ sup' \in SupervisorRecord /\ SupOnly(s, sup', {"pc", "retired", "unknown"})
      /\ \/ sup.slots["scope"] = "held" /\ sup'.pc = "drain" /\ sup'.retired = s.retired
         \/ sup.slots["scope"] = "none" /\ sup'.pc = "closes" /\ sup'.retired
         \/ sup'.pc = "returned" /\ sup'.retired = s.retired
  <2>1. CASE sup.slots["scope"] = "held" /\ sup' = [s EXCEPT !.pc = "drain"]
    BY <1>2, <2>1, SupPcNames DEF SupervisorRecord, SupOnly, SupFields, SupPcs
  <2>2. CASE sup.slots["scope"] = "none" /\ sup' = [s EXCEPT !.pc = "closes", !.retired = TRUE]
    BY <1>2, <2>2, SupPcNames DEF SupervisorRecord, SupOnly, SupFields, SupPcs
  <2>3. CASE sup' = [s EXCEPT !.pc = "returned", !.unknown = TRUE]
    BY <1>2, <2>3, SupPcNames DEF SupervisorRecord, SupOnly, SupFields, SupPcs
  <2> QED
    BY <1>3, <2>1, <2>2, <2>3
<1>6. s.retired = sup.retired
  BY <1>2 DEF SupOnly, SupFields
<1>7. /\ sup'.slots = sup.slots /\ sup'.control = sup.control /\ sup'.code = sup.code
      /\ sup'.failed = sup.failed /\ sup'.sent = sup.sent /\ sup'.returned = sup.returned /\ sup'.waiting = sup.waiting
  BY <1>2, <1>5 DEF SupOnly, SupFields
<1>8. wk.pc = "none" => ~Processes(prov)
  BY <1>1 DEF WorkerInv, WorkerOK, Unstarted, Processes
<1>9. SupHolds(sup', wk, prov)
  BY <1>1, <1>4, <1>5, <1>6, <1>7, <1>8 DEF SupHolds, SupFileClosed, BeforeLaunch, Undrained, Readback
<1>10. sup.slots["scope"] = "none" => ~sup.waiting
  BY <1>1 DEF SupHolds
<1>11. SupResult(sup', packet.of)
  BY <1>1, <1>5, <1>7, <1>10 DEF SupResult, BeforeLaunch, Undrained, Readback
<1>12. SupInv(sup', wk, prov, packet.of)
  BY <1>5, <1>9, <1>11 DEF SupInv
<1>13. sup'.pc # "idle"
  BY <1>5
<1> QED
  BY <1>1, <1>7, <1>12, <1>13, WorkerStays DEF SupStepOK

LEMMA SupDrainOK ==
  ASSUME Supervised, SupDrain
  PROVE  SupStepOK
<1>1. /\ sup.pc = "drain" /\ packet' = packet /\ WorkerInv /\ SupInv(sup, wk, prov, packet.of)
      /\ sup \in SupervisorRecord
  BY DEF SupDrain, Supervised, SupInv
<1>2. WorkerInv' /\ WorkerSide
  <2>1. CASE KillsAll
    BY <1>1, <2>1, KillsAllOK
  <2>2. CASE UNCHANGED <<prov, wk, cap>>
    BY <1>1, <2>2 DEF WorkerInv, CaptureOK, WorkerOK, WorkerSide
  <2> QED
    BY <2>1, <2>2 DEF SupDrain
<1>3. SupHolds(sup, wk', prov') /\ SupResult(sup, packet'.of)
  BY <1>1, <1>2, BesideSupervisor DEF SupInv
<1>4. CASE sup' = [sup EXCEPT !.retired = TRUE, !.pc = "scope closing"] /\ KillsAll
  <2>1. /\ sup' \in SupervisorRecord /\ sup'.pc = "scope closing" /\ SupOnly(sup, sup', {"pc", "retired"})
        /\ sup'.retired
    BY <1>1, <1>4, SupPcNames DEF SupervisorRecord, SupOnly, SupFields, SupPcs
  <2>2. /\ sup'.slots = sup.slots /\ sup'.control = sup.control /\ sup'.code = sup.code
        /\ sup'.failed = sup.failed /\ sup'.sent = sup.sent /\ sup'.returned = sup.returned
        /\ sup'.waiting = sup.waiting
    BY <2>1 DEF SupOnly, SupFields
  <2>3. ~Processes(prov') /\ Ended(wk')
    BY <1>1, <1>4, KillsAllOK
  <2>4. SupHolds(sup', wk', prov')
    BY <1>1, <1>3, <2>1, <2>2, <2>3 DEF SupHolds, SupFileClosed, Ended, BeforeLaunch, Undrained, Readback
  <2>5. SupResult(sup', packet'.of)
    BY <1>1, <1>3, <2>1, <2>2 DEF SupResult, BeforeLaunch, Undrained, Readback
  <2> QED
    BY <1>2, <2>1, <2>2, <2>4, <2>5 DEF SupStepOK, SupInv
<1>5. CASE sup' = SupEnds(sup, TRUE, "scope closing")
  <2>1. /\ sup' \in SupervisorRecord /\ sup'.pc = "scope closing" /\ sup'.failed
        /\ SupOnly(sup, sup', {"pc", "failed", "fresh", "unknown"})
    BY <1>1, <1>5, SupEndEffect, SupPcNames
  <2>2. /\ sup'.waiting = sup.waiting /\ sup'.retired = sup.retired /\ sup'.control = sup.control
        /\ sup'.sent = sup.sent /\ sup'.returned = sup.returned /\ sup'.slots = sup.slots
    BY <2>1 DEF SupOnly, SupFields
  <2>4. SupHolds(sup', wk', prov')
    BY <1>1, <1>3, <2>1, <2>2 DEF SupHolds, SupFileClosed, BeforeLaunch, Undrained, Readback
  <2>5. SupResult(sup', packet'.of)
    BY <1>1, <1>3, <2>1, <2>2 DEF SupResult, BeforeLaunch, Undrained, Readback
  <2> QED
    BY <1>2, <2>1, <2>4, <2>5 DEF SupStepOK, SupInv
<1> QED
  BY <1>4, <1>5 DEF SupDrain, SupEnds

SupClosed(n, t) ==
  IF now < HardEnd \/ n = "scope"
  THEN LET s == IF now < HardEnd THEN sup ELSE SupFails(sup, FALSE)
       IN t = [s EXCEPT !.slots[n] = "closed"] \/ t = SupFails([s EXCEPT !.slots[n] = "lost"], TRUE)
  ELSE t = SupFails(sup, FALSE)

\* An attempt to close owner n leaves it closed, lost or as it was, and a
\* lost owner is a recorded failure.
LEMMA SupCloseEffect ==
  ASSUME NEW n \in Owners, NEW t, SupClosed(n, t), sup \in SupervisorRecord
  PROVE  /\ t \in SupervisorRecord /\ SupOnly(sup, t, {"slots", "failed", "fresh", "unknown"})
         /\ sup.failed => t.failed
         /\ \/ t.slots = sup.slots
            \/ \E v \in {"closed", "lost"} : t.slots = [sup.slots EXCEPT ![n] = v]
<1> DEFINE s == IF now < HardEnd THEN sup ELSE SupFails(sup, FALSE)
<1>1. /\ s \in SupervisorRecord /\ SupOnly(sup, s, {"failed", "fresh", "unknown"}) /\ (sup.failed => s.failed)
  <2>1. CASE now < HardEnd
    BY <2>1 DEF SupOnly
  <2>2. CASE ~(now < HardEnd)
    BY <2>2, SupFailsEffect
  <2> QED
    BY <2>1, <2>2
<1>2. \/ t = SupFails(sup, FALSE)
      \/ t = [s EXCEPT !.slots[n] = "closed"]
      \/ t = SupFails([s EXCEPT !.slots[n] = "lost"], TRUE)
  BY DEF SupClosed
<1> HIDE DEF s
<1>3. s.slots = sup.slots
  BY <1>1 DEF SupOnly, SupFields
<1>4. CASE t = SupFails(sup, FALSE)
  <2>1. t \in SupervisorRecord /\ t.failed /\ SupOnly(sup, t, {"failed", "fresh", "unknown"})
    BY <1>4, SupFailsEffect
  <2> QED
    BY <2>1 DEF SupOnly, SupFields
<1>5. CASE t = [s EXCEPT !.slots[n] = "closed"]
  <2>1. t \in SupervisorRecord /\ t.slots = [s.slots EXCEPT ![n] = "closed"] /\ SupOnly(s, t, {"slots"})
    BY <1>1, <1>5, SupSlotEffect DEF SlotStates
  <2> QED
    BY <1>1, <1>3, <2>1 DEF SupOnly, SupFields
<1>6. CASE t = SupFails([s EXCEPT !.slots[n] = "lost"], TRUE)
  <2> DEFINE b == [s EXCEPT !.slots[n] = "lost"]
  <2>1. b \in SupervisorRecord /\ b.slots = [s.slots EXCEPT ![n] = "lost"] /\ SupOnly(s, b, {"slots"})
    BY <1>1, SupSlotEffect DEF SlotStates
  <2> HIDE DEF b
  <2>2. t \in SupervisorRecord /\ t.failed /\ SupOnly(b, t, {"failed", "fresh", "unknown"})
    BY <1>6, <2>1, SupFailsEffect DEF b
  <2>3. t.slots = b.slots
    BY <2>2 DEF SupOnly, SupFields
  <2>4. SupOnly(sup, t, {"slots", "failed", "fresh", "unknown"})
    BY <1>1, <2>1, <2>2 DEF SupOnly
  <2> QED
    BY <1>3, <2>1, <2>2, <2>3, <2>4
<1> QED
  BY <1>2, <1>4, <1>5, <1>6

LEMMA SupCloseScopeOK ==
  ASSUME Supervised, SupCloseScope
  PROVE  SupStepOK
<1>1. /\ sup.pc = "scope closing" /\ packet' = packet /\ WorkerInv /\ SupInv(sup, wk, prov, packet.of)
      /\ sup \in SupervisorRecord
  BY DEF SupCloseScope, Supervised, SupInv
<1>2. WorkerInv' /\ WorkerSide
  <2>1. CASE KillsAll
    BY <1>1, <2>1, KillsAllOK
  <2>2. CASE UNCHANGED <<prov, wk, cap>>
    BY <1>1, <2>2 DEF WorkerInv, CaptureOK, WorkerOK, WorkerSide
  <2> QED
    BY <2>1, <2>2 DEF SupCloseScope
<1>3. SupHolds(sup, wk', prov') /\ SupResult(sup, packet'.of)
  BY <1>1, <1>2, BesideSupervisor DEF SupInv
<1>4. PICK t : SupClosed("scope", t) /\ sup' = SupRetire(t)
  BY DEF SupCloseScope, SupClose, SupClosed
<1>5. /\ t \in SupervisorRecord /\ SupOnly(sup, t, {"slots", "failed", "fresh", "unknown"})
      /\ sup.failed => t.failed
      /\ \/ t.slots = sup.slots
         \/ \E v \in {"closed", "lost"} : t.slots = [sup.slots EXCEPT !["scope"] = v]
  BY <1>1, <1>4, SupCloseEffect, OwnerNames
<1>6. /\ sup' \in SupervisorRecord /\ SupOnly(t, sup', {"pc", "retired", "unknown"})
      /\ \/ sup'.pc = "persist" /\ t.waiting /\ sup'.retired /\ t.retired
         \/ sup'.pc = "closes" /\ ~t.waiting /\ sup'.retired /\ t.retired
         \/ sup'.pc = "returned" /\ ~sup'.retired
  <2>1. \/ sup' = [t EXCEPT !.pc = "persist"] /\ t.waiting /\ t.retired
        \/ sup' = [t EXCEPT !.pc = "closes"] /\ ~t.waiting /\ t.retired
        \/ sup' = [t EXCEPT !.pc = "returned", !.retired = FALSE, !.unknown = TRUE]
    BY <1>4 DEF SupRetire
  <2>2. CASE sup' = [t EXCEPT !.pc = "persist"] /\ t.waiting /\ t.retired
    BY <1>5, <2>2, SupPcNames DEF SupervisorRecord, SupOnly, SupFields, SupPcs, Readback
  <2>3. CASE sup' = [t EXCEPT !.pc = "closes"] /\ ~t.waiting /\ t.retired
    BY <1>5, <2>3, SupPcNames DEF SupervisorRecord, SupOnly, SupFields, SupPcs
  <2>4. CASE sup' = [t EXCEPT !.pc = "returned", !.retired = FALSE, !.unknown = TRUE]
    BY <1>5, <2>4, SupPcNames DEF SupervisorRecord, SupOnly, SupFields, SupPcs
  <2> QED
    BY <2>1, <2>2, <2>3, <2>4
<1>7. /\ sup'.control = sup.control /\ sup'.code = sup.code /\ sup'.failed = t.failed
      /\ sup'.sent = sup.sent /\ sup'.returned = sup.returned /\ sup'.waiting = sup.waiting
      /\ t.retired = sup.retired /\ t.waiting = sup.waiting /\ sup'.slots = t.slots
  BY <1>5, <1>6 DEF SupOnly, SupFields
<1>8. ~SupFileClosed(sup') /\ (sup'.slots["scope"] = "none" => sup.slots["scope"] = "none")
  <2>1. ~SupFileClosed(sup) /\ sup.slots \in [Owners -> SlotStates]
    BY <1>1, <1>3 DEF SupHolds, Undrained, SupervisorRecord
  <2> QED
    BY <1>5, <1>7, <2>1, OwnerNames DEF SupFileClosed
<1>9. SupHolds(sup', wk', prov')
  BY <1>1, <1>3, <1>6, <1>7, <1>8 DEF SupHolds, BeforeLaunch, Undrained, Readback
<1>10. SupResult(sup', packet'.of)
  BY <1>1, <1>3, <1>5, <1>6, <1>7 DEF SupResult, BeforeLaunch, Undrained, Readback
<1>11. sup'.pc # "idle"
  BY <1>6
<1> QED
  BY <1>2, <1>5, <1>6, <1>7, <1>9, <1>10, <1>11 DEF SupStepOK, SupInv

\* After the retirement nothing of the supervisor's bookkeeping depends on
\* which files are closed.
LEMMA RetiredHolds ==
  ASSUME NEW s, NEW t, NEW w, NEW p, SupHolds(s, w, p), s.pc \in Readback \cup {"closes", "transcript", "send"},
         t.pc \in Readback \cup {"closes", "transcript", "send", "returned"},
         t.retired = s.retired, t.waiting = s.waiting, t.slots["scope"] = s.slots["scope"]
  PROVE  SupHolds(t, w, p)
  BY DEF SupHolds, BeforeLaunch, Undrained, Readback

LEMMA ReadbackStepOK ==
  ASSUME Supervised, NEW here \in Readback, NEW slot \in Owners \ {"scope"}, NEW next \in Readback,
         ReadbackStep(here, slot, next)
  PROVE  SupStepOK
<1>1. /\ sup.pc = here /\ UNCHANGED worker /\ WorkerInv
      /\ sup \in SupervisorRecord /\ SupHolds(sup, wk, prov) /\ SupResult(sup, packet.of)
  BY DEF ReadbackStep, Pass, worker, Supervised, SupInv
<1>2. CASE sup' = [sup EXCEPT !.slots[slot] = Read(slot), !.pc = next]
  <2>1. Read(slot) \in SlotStates
    BY DEF Read, SlotStates
  <2>2. /\ sup' \in SupervisorRecord /\ sup'.pc = next /\ SupOnly(sup, sup', {"pc", "slots"})
        /\ sup'.slots["scope"] = sup.slots["scope"]
    <3> DEFINE b == [sup EXCEPT !.slots[slot] = Read(slot)]
    <3>1. b \in SupervisorRecord /\ b.slots = [sup.slots EXCEPT ![slot] = Read(slot)] /\ SupOnly(sup, b, {"slots"})
      BY <1>1, <2>1, SupSlotEffect
    <3>2. sup' = [b EXCEPT !.pc = next]
      BY <1>1, <1>2 DEF SupervisorRecord
    <3> HIDE DEF b
    <3>3. sup' \in SupervisorRecord /\ sup'.pc = next /\ SupOnly(b, sup', {"pc"})
      BY <3>1, <3>2, SupPcEffect, SupPcNames
    <3>4. sup.slots \in [Owners -> SlotStates] /\ sup'.slots = b.slots
      BY <1>1, <3>3 DEF SupervisorRecord, SupOnly, SupFields
    <3> QED
      BY <3>1, <3>3, <3>4, OwnerNames DEF SupOnly
  <2>3. /\ sup'.control = sup.control /\ sup'.code = sup.code /\ sup'.retired = sup.retired
        /\ sup'.failed = sup.failed /\ sup'.sent = sup.sent /\ sup'.returned = sup.returned
        /\ sup'.waiting = sup.waiting
    BY <2>2 DEF SupOnly, SupFields
  <2>4. SupHolds(sup', wk, prov)
    BY <1>1, <2>2, <2>3, RetiredHolds
  <2>5. SupResult(sup', packet.of)
    BY <1>1, <2>2, <2>3 DEF SupResult, BeforeLaunch, Undrained, Readback
  <2>6. sup'.pc # "idle"
    BY <2>2 DEF Readback
  <2> QED
    BY <1>1, <2>2, <2>3, <2>4, <2>5, <2>6, WorkerStays DEF SupStepOK, SupInv
<1>3. CASE sup' = [SupFails(sup, TRUE) EXCEPT !.pc = "closes",
                      !.slots[slot] = IF SupFence(sup) THEN "lost" ELSE @]
  <2> DEFINE f == SupFails(sup, TRUE)
  <2>1. f \in SupervisorRecord /\ f.failed /\ SupOnly(sup, f, {"failed", "fresh", "unknown"})
    BY <1>1, SupFailsEffect
  <2>2. sup' = [f EXCEPT !.pc = "closes", !.slots[slot] = IF SupFence(sup) THEN "lost" ELSE @]
    BY <1>3
  <2> HIDE DEF f
  <2>3. /\ sup' \in SupervisorRecord /\ sup'.pc = "closes" /\ SupOnly(f, sup', {"pc", "slots"})
        /\ sup'.slots["scope"] = f.slots["scope"]
    <3> DEFINE v == IF SupFence(sup) THEN "lost" ELSE f.slots[slot]
    <3> DEFINE b == [f EXCEPT !.slots[slot] = v]
    <3>0. v \in SlotStates /\ f.slots \in [Owners -> SlotStates]
      BY <2>1 DEF SupervisorRecord, SlotStates
    <3>1. sup' = [b EXCEPT !.pc = "closes"]
      BY <2>1, <2>2 DEF SupervisorRecord
    <3> HIDE DEF v
    <3>2. b \in SupervisorRecord /\ b.slots = [f.slots EXCEPT ![slot] = v] /\ SupOnly(f, b, {"slots"})
      BY <2>1, <3>0, SupSlotEffect
    <3> HIDE DEF b
    <3>3. sup' \in SupervisorRecord /\ sup'.pc = "closes" /\ SupOnly(b, sup', {"pc"})
      BY <3>1, <3>2, SupPcEffect, SupPcNames
    <3>4. sup'.slots = b.slots
      BY <3>3 DEF SupOnly, SupFields
    <3> QED
      BY <3>0, <3>2, <3>3, <3>4, OwnerNames DEF SupOnly
  <2>4. /\ sup'.control = sup.control /\ sup'.retired = sup.retired /\ sup'.failed
        /\ sup'.sent = sup.sent /\ sup'.returned = sup.returned
        /\ sup'.waiting = sup.waiting /\ sup'.slots["scope"] = sup.slots["scope"]
    BY <2>1, <2>3 DEF SupOnly, SupFields
  <2>5. SupHolds(sup', wk, prov)
    BY <1>1, <2>3, <2>4, RetiredHolds
  <2>6. SupResult(sup', packet.of)
    BY <1>1, <2>3, <2>4 DEF SupResult, BeforeLaunch, Undrained, Readback
  <2> QED
    BY <1>1, <2>3, <2>4, <2>5, <2>6, WorkerStays DEF SupStepOK, SupInv
<1> QED
  BY <1>2, <1>3 DEF ReadbackStep

LEMMA ReadPacketOK ==
  ASSUME Supervised, ReadPacket
  PROVE  SupStepOK
<1>1. /\ sup.pc = "read packet" /\ UNCHANGED worker /\ WorkerInv /\ packet \in PacketRecord
      /\ sup \in SupervisorRecord /\ SupHolds(sup, wk, prov) /\ SupResult(sup, packet.of)
  BY DEF ReadPacket, Pass, worker, Supervised, SupInv, WorkerInv
<1>2. sup.waiting /\ (~sup.failed => sup.code = 0) /\ ~sup.sent /\ (sup.returned = "result" => packet.of = "result")
  BY <1>1 DEF SupResult, Readback
<1>3. /\ sup' \in SupervisorRecord /\ sup'.pc = "closes" /\ sup'.slots["scope"] = sup.slots["scope"]
      /\ sup'.retired = sup.retired /\ sup'.waiting = sup.waiting /\ sup'.sent = sup.sent
      /\ sup.failed => sup'.failed
      /\ sup'.failed \/ sup'.control \/ (sup.failed = sup'.failed /\ Decodes /\ sup'.returned = packet.of)
      /\ sup'.returned = sup.returned \/ sup'.returned = packet.of
  <2>1. CASE sup' = [sup EXCEPT !.control = TRUE, !.pc = "closes"]
    BY <1>1, <2>1, SupPcNames DEF SupervisorRecord, SupPcs
  <2>2. CASE sup' = [sup EXCEPT !.pc = "closes", !.slots["packet-reader"] = "closed",
                     !.returned = IF Decodes THEN packet.of ELSE @, !.control = ~Decodes]
    <3> DEFINE r == IF Decodes THEN packet.of ELSE sup.returned
    <3> DEFINE d == ~Decodes
    <3> DEFINE b == [sup EXCEPT !.slots["packet-reader"] = "closed"]
    <3>1. /\ r \in {"none", "result", "failure", "raised"} /\ d \in BOOLEAN
          /\ r = sup.returned \/ r = packet.of
          /\ d \/ (Decodes /\ r = packet.of)
      BY <1>1 DEF SupervisorRecord, PacketRecord, Decodes
    <3>2. sup' = [b EXCEPT !.pc = "closes", !.returned = r, !.control = d]
      BY <1>1, <2>2 DEF SupervisorRecord
    <3>3. b \in SupervisorRecord /\ b.slots = [sup.slots EXCEPT !["packet-reader"] = "closed"] /\ SupOnly(sup, b, {"slots"})
      BY <1>1, SupSlotEffect, OwnerNames DEF SlotStates
    <3> HIDE DEF r, d, b
    <3>4. /\ sup' \in SupervisorRecord /\ sup'.pc = "closes" /\ SupOnly(b, sup', {"pc", "returned", "control"})
          /\ sup'.returned = r /\ sup'.control = d
      BY <3>1, <3>2, <3>3, SupPcNames DEF SupervisorRecord, SupOnly, SupFields, SupPcs
    <3>5. /\ sup'.slots = b.slots /\ sup'.retired = sup.retired /\ sup'.waiting = sup.waiting
          /\ sup'.sent = sup.sent /\ sup'.failed = sup.failed
      BY <3>3, <3>4 DEF SupOnly, SupFields
    <3>6. sup'.slots["scope"] = sup.slots["scope"]
      <4>1. sup.slots \in [Owners -> SlotStates] /\ "scope" \in Owners
        BY <1>1, OwnerNames DEF SupervisorRecord
      <4> QED
        BY <3>3, <3>5, <4>1
    <3> QED
      BY <3>1, <3>4, <3>5, <3>6
  <2>3. CASE sup' = [SupFails(sup, TRUE) EXCEPT !.control = TRUE, !.pc = "closes",
                     !.slots["packet-reader"] = "lost"]
    <3> DEFINE f == SupFails(sup, TRUE)
    <3> DEFINE b == [f EXCEPT !.slots["packet-reader"] = "lost"]
    <3>1. f \in SupervisorRecord /\ f.failed /\ SupOnly(sup, f, {"failed", "fresh", "unknown"})
      BY <1>1, SupFailsEffect
    <3>2. sup' = [f EXCEPT !.control = TRUE, !.pc = "closes", !.slots["packet-reader"] = "lost"]
      BY <2>3
    <3> HIDE DEF f
    <3>3. sup' = [b EXCEPT !.pc = "closes", !.control = TRUE]
      BY <3>1, <3>2 DEF SupervisorRecord
    <3>4. b \in SupervisorRecord /\ b.slots = [f.slots EXCEPT !["packet-reader"] = "lost"] /\ SupOnly(f, b, {"slots"})
      BY <3>1, SupSlotEffect, OwnerNames DEF SlotStates
    <3> HIDE DEF b
    <3>5. sup' \in SupervisorRecord /\ sup'.pc = "closes" /\ SupOnly(b, sup', {"pc", "control"})
      BY <3>3, <3>4, SupPcNames DEF SupervisorRecord, SupOnly, SupFields, SupPcs
    <3>6. /\ sup'.slots = b.slots /\ sup'.retired = sup.retired /\ sup'.waiting = sup.waiting
          /\ sup'.sent = sup.sent /\ sup'.failed = f.failed /\ sup'.returned = sup.returned /\ f.slots = sup.slots
      BY <3>1, <3>4, <3>5 DEF SupOnly, SupFields
    <3>7. sup'.slots["scope"] = sup.slots["scope"]
      <4>1. sup.slots \in [Owners -> SlotStates] /\ "scope" \in Owners
        BY <1>1, OwnerNames DEF SupervisorRecord
      <4> QED
        BY <3>4, <3>6, <4>1
    <3> QED
      BY <3>1, <3>5, <3>6, <3>7
  <2> QED
    BY <2>1, <2>2, <2>3 DEF ReadPacket
<1>4. SupHolds(sup', wk, prov)
  BY <1>1, <1>3, RetiredHolds DEF Readback
<1>5. ~sup'.failed /\ ~sup'.control => sup'.returned = "result"
  BY <1>2, <1>3 DEF Decodes
<1>6. SupResult(sup', packet.of)
  BY <1>2, <1>3, <1>5 DEF SupResult, BeforeLaunch, Undrained, Readback
<1>7. SupInv(sup', wk, prov, packet.of)
  BY <1>3, <1>4, <1>6 DEF SupInv
<1>8. sup'.pc # "idle" /\ (sup.failed => sup'.failed)
  BY <1>3
<1> QED
  BY <1>1, <1>7, <1>8, WorkerStays DEF SupStepOK

LEMMA SupCloseOwnersOK ==
  ASSUME Supervised, SupCloseOwners
  PROVE  SupStepOK
<1>1. /\ sup.pc = "closes" /\ UNCHANGED worker /\ WorkerInv
      /\ sup \in SupervisorRecord /\ SupHolds(sup, wk, prov) /\ SupResult(sup, packet.of)
  BY DEF SupCloseOwners, Pass, worker, Supervised, SupInv
<1>2. CASE sup.unknown \/ Remaining = {} \/ now >= HardEnd
  <2> DEFINE s == IF now < HardEnd THEN sup ELSE SupFails(sup, FALSE)
  <2>1. /\ s \in SupervisorRecord /\ SupOnly(sup, s, {"failed", "fresh", "unknown"}) /\ (sup.failed => s.failed)
        /\ s.failed = sup.failed \/ s.failed
    <3>1. CASE now < HardEnd
      BY <1>1, <3>1 DEF SupOnly
    <3>2. CASE ~(now < HardEnd)
      BY <1>1, <3>2, SupFailsEffect
    <3> QED
      BY <3>1, <3>2
  <2> DEFINE q == IF sup.waiting THEN "transcript" ELSE "returned"
  <2>2. sup' = [s EXCEPT !.pc = q]
    BY <1>2 DEF SupCloseOwners
  <2> HIDE DEF s
  <2>3. q \in SupPcs
    BY SupPcNames
  <2>4. sup' \in SupervisorRecord /\ sup'.pc = q /\ SupOnly(s, sup', {"pc"})
    BY <2>1, <2>2, <2>3, SupPcEffect
  <2>5. /\ sup'.slots = sup.slots /\ sup'.retired = sup.retired /\ sup'.waiting = sup.waiting
        /\ sup'.sent = sup.sent /\ sup'.failed = s.failed /\ sup'.returned = sup.returned
        /\ sup'.control = sup.control
    BY <2>1, <2>4 DEF SupOnly, SupFields
  <2>6. SupHolds(sup', wk, prov)
    BY <1>1, <2>4, <2>5, RetiredHolds
  <2>7. SupResult(sup', packet.of)
    BY <1>1, <2>1, <2>4, <2>5 DEF SupResult, BeforeLaunch, Undrained, Readback
  <2>8. SupInv(sup', wk, prov, packet.of)
    BY <2>4, <2>6, <2>7 DEF SupInv
  <2>9. sup'.pc # "idle" /\ (sup.failed => sup'.failed)
    BY <2>1, <2>4, <2>5
  <2> QED
    BY <1>1, <2>8, <2>9, WorkerStays DEF SupStepOK
<1>3. CASE ~(sup.unknown \/ Remaining = {} \/ now >= HardEnd)
  <2>1. PICK i \in Remaining : SupClosed(SupCloseOrder[i], sup')
    <3> DEFINE i == CHOOSE i \in Remaining : \A j \in Remaining : i <= j
    <3>1. SupClosed(SupCloseOrder[i], sup')
      BY <1>3 DEF SupCloseOwners, SupClose, SupClosed
    <3>2. i \in Remaining
      <4>1. Remaining \subseteq 1..6 /\ Remaining # {}
        BY <1>3 DEF Remaining, SupCloseOrder
      <4>2. \E k \in Remaining : \A j \in Remaining : k <= j
        <5>1. \/ 1 \in Remaining \/ 2 \in Remaining \/ 3 \in Remaining
              \/ 4 \in Remaining \/ 5 \in Remaining \/ 6 \in Remaining
          <6>1. PICK k \in Remaining : k \in 1..6
            BY <4>1
          <6>2. k = 1 \/ k = 2 \/ k = 3 \/ k = 4 \/ k = 5 \/ k = 6
            BY <6>1
          <6> QED
            BY <6>2
        <5>2. 1 \in Remaining => \A j \in Remaining : 1 <= j
          BY <4>1
        <5>3. 1 \notin Remaining => \A j \in Remaining : 2 <= j
          BY <4>1
        <5>4. 1 \notin Remaining /\ 2 \notin Remaining => \A j \in Remaining : 3 <= j
          BY <4>1
        <5>5. 1 \notin Remaining /\ 2 \notin Remaining /\ 3 \notin Remaining => \A j \in Remaining : 4 <= j
          BY <4>1
        <5>6. 1 \notin Remaining /\ 2 \notin Remaining /\ 3 \notin Remaining /\ 4 \notin Remaining =>
                \A j \in Remaining : 5 <= j
          BY <4>1
        <5>7. 1 \notin Remaining /\ 2 \notin Remaining /\ 3 \notin Remaining /\ 4 \notin Remaining /\ 5 \notin Remaining =>
                \A j \in Remaining : 6 <= j
          BY <4>1
        <5> QED
          BY <5>1, <5>2, <5>3, <5>4, <5>5, <5>6, <5>7
      <4> QED
        BY <4>2
    <3> QED
      BY <3>1, <3>2
  <2>2. SupCloseOrder[i] \in Owners \ {"scope"}
    <3>1. i \in 1..6
      BY DEF Remaining, SupCloseOrder
    <3> QED
      BY <3>1, OwnerNames DEF SupCloseOrder
  <2>3. /\ sup' \in SupervisorRecord /\ SupOnly(sup, sup', {"slots", "failed", "fresh", "unknown"})
        /\ sup.failed => sup'.failed
        /\ \/ sup'.slots = sup.slots
           \/ \E v \in {"closed", "lost"} : sup'.slots = [sup.slots EXCEPT ![SupCloseOrder[i]] = v]
    BY <1>1, <2>1, <2>2, SupCloseEffect
  <2>4. /\ sup'.retired = sup.retired /\ sup'.waiting = sup.waiting /\ sup'.pc = sup.pc
        /\ sup'.sent = sup.sent /\ sup'.returned = sup.returned /\ sup'.control = sup.control
    BY <2>3 DEF SupOnly, SupFields
  <2>5. sup'.slots["scope"] = sup.slots["scope"]
    BY <1>1, <2>2, <2>3, OwnerNames DEF SupervisorRecord
  <2>6. SupHolds(sup', wk, prov)
    BY <1>1, <2>4, <2>5, RetiredHolds
  <2>7. SupResult(sup', packet.of)
    BY <1>1, <2>3, <2>4 DEF SupResult, BeforeLaunch, Undrained, Readback
  <2>8. SupInv(sup', wk, prov, packet.of)
    BY <2>3, <2>6, <2>7 DEF SupInv
  <2>9. sup'.pc # "idle" /\ (sup.failed => sup'.failed)
    BY <1>1, <2>3, <2>4
  <2> QED
    BY <1>1, <2>8, <2>9, WorkerStays DEF SupStepOK
<1> QED
  BY <1>2, <1>3

LEMMA TranscriptOK ==
  ASSUME Supervised, Transcript
  PROVE  SupStepOK
<1>1. /\ sup.pc = "transcript" /\ UNCHANGED worker /\ WorkerInv
      /\ sup \in SupervisorRecord /\ SupHolds(sup, wk, prov) /\ SupResult(sup, packet.of)
  BY DEF Transcript, Pass, worker, Supervised, SupInv
<1> DEFINE e == [sup EXCEPT !.failed = @ \/ sup.control]
<1>2. e \in SupervisorRecord /\ (e.failed <=> (sup.failed \/ sup.control)) /\ SupOnly(sup, e, {"failed"})
  BY <1>1 DEF SupervisorRecord, SupOnly, SupFields
<1>3. \/ /\ SupFence(sup) /\ Released(sup)
         /\ sup' = [e EXCEPT !.transcript = IF e.failed THEN "failed" ELSE "passed", !.pc = "send"]
      \/ sup' = SupEnds(sup, FALSE, "returned")
  BY DEF Transcript, Released, SupEnds
<1> HIDE DEF e
<1>4. CASE /\ SupFence(sup) /\ Released(sup)
           /\ sup' = [e EXCEPT !.transcript = IF e.failed THEN "failed" ELSE "passed", !.pc = "send"]
  <2>1. sup' \in SupervisorRecord /\ sup'.pc = "send" /\ SupOnly(e, sup', {"pc", "transcript"})
    BY <1>2, <1>4, SupPcNames DEF SupervisorRecord, SupOnly, SupFields, SupPcs
  <2>2. /\ sup'.slots = sup.slots /\ sup'.retired = sup.retired /\ sup'.waiting = sup.waiting
        /\ sup'.sent = sup.sent /\ sup'.failed = e.failed /\ sup'.returned = sup.returned
        /\ sup'.unknown = sup.unknown
    BY <1>2, <2>1 DEF SupOnly, SupFields
  <2>3. SupHolds(sup', wk, prov)
    BY <1>1, <2>1, <2>2, RetiredHolds
  <2>4. Released(sup') /\ ~sup'.unknown
    BY <1>4, <2>2 DEF Released, SupFence
  <2>5. SupResult(sup', packet.of)
    BY <1>1, <1>2, <2>1, <2>2, <2>4 DEF SupResult, BeforeLaunch, Undrained, Readback
  <2>6. SupInv(sup', wk, prov, packet.of)
    BY <2>1, <2>3, <2>5 DEF SupInv
  <2> QED
    BY <1>1, <1>2, <2>1, <2>2, <2>6, WorkerStays DEF SupStepOK
<1>5. CASE sup' = SupEnds(sup, FALSE, "returned")
  <2>1. /\ sup' \in SupervisorRecord /\ sup'.pc = "returned" /\ sup'.failed
        /\ SupOnly(sup, sup', {"pc", "failed", "fresh", "unknown"})
    BY <1>1, <1>5, SupEndEffect, SupPcNames
  <2>2. /\ sup'.waiting = sup.waiting /\ sup'.retired = sup.retired
        /\ sup'.sent = sup.sent /\ sup'.returned = sup.returned /\ sup'.slots = sup.slots
    BY <2>1 DEF SupOnly, SupFields
  <2>3. SupHolds(sup', wk, prov)
    BY <1>1, <2>1, <2>2, RetiredHolds
  <2>4. SupResult(sup', packet.of)
    BY <1>1, <2>1, <2>2 DEF SupResult, BeforeLaunch, Undrained, Readback
  <2>5. SupInv(sup', wk, prov, packet.of)
    BY <2>1, <2>3, <2>4 DEF SupInv
  <2> QED
    BY <1>1, <2>1, <2>5, WorkerStays DEF SupStepOK
<1> QED
  BY <1>3, <1>4, <1>5

LEMMA SendOK ==
  ASSUME Supervised, Send
  PROVE  SupStepOK
<1>1. /\ sup.pc = "send" /\ UNCHANGED worker /\ WorkerInv
      /\ sup \in SupervisorRecord /\ SupHolds(sup, wk, prov) /\ SupResult(sup, packet.of)
  BY DEF Send, Pass, worker, Supervised, SupInv
<1>2. sup.retired /\ Released(sup) /\ ~sup.unknown /\ (~sup.failed => sup.returned = "result") /\ ~sup.sent
  BY <1>1 DEF SupHolds, SupResult, Readback
<1>3. CASE sup' = [sup EXCEPT !.sent = TRUE, !.pc = "returned"]
  <2>1. sup' \in SupervisorRecord /\ sup'.pc = "returned" /\ SupOnly(sup, sup', {"pc", "sent"})
    BY <1>1, <1>3, SupPcNames DEF SupervisorRecord, SupOnly, SupFields, SupPcs
  <2>2. /\ sup'.slots = sup.slots /\ sup'.retired = sup.retired /\ sup'.waiting = sup.waiting
        /\ sup'.failed = sup.failed /\ sup'.returned = sup.returned /\ sup'.unknown = sup.unknown
    BY <2>1 DEF SupOnly, SupFields
  <2>3. SupHolds(sup', wk, prov)
    BY <1>1, <2>1, <2>2, RetiredHolds
  <2>4. SupResult(sup', packet.of)
    BY <1>1, <1>2, <2>1, <2>2 DEF SupResult, Released, BeforeLaunch, Undrained, Readback
  <2>5. SupInv(sup', wk, prov, packet.of)
    BY <2>1, <2>3, <2>4 DEF SupInv
  <2> QED
    BY <1>1, <2>1, <2>2, <2>5, WorkerStays DEF SupStepOK
<1>4. CASE sup' = SupEnds(sup, FALSE, "returned")
  <2>1. /\ sup' \in SupervisorRecord /\ sup'.pc = "returned" /\ sup'.failed
        /\ SupOnly(sup, sup', {"pc", "failed", "fresh", "unknown"})
    BY <1>1, <1>4, SupEndEffect, SupPcNames
  <2>2. /\ sup'.waiting = sup.waiting /\ sup'.retired = sup.retired
        /\ sup'.sent = sup.sent /\ sup'.returned = sup.returned /\ sup'.slots = sup.slots
    BY <2>1 DEF SupOnly, SupFields
  <2>3. SupHolds(sup', wk, prov)
    BY <1>1, <2>1, <2>2, RetiredHolds
  <2>4. SupResult(sup', packet.of)
    BY <1>1, <1>2, <2>1, <2>2 DEF SupResult, BeforeLaunch, Undrained, Readback
  <2>5. SupInv(sup', wk, prov, packet.of)
    BY <2>1, <2>3, <2>4 DEF SupInv
  <2> QED
    BY <1>1, <2>1, <2>5, WorkerStays DEF SupStepOK
<1> QED
  BY <1>3, <1>4 DEF Send, SupEnds

\* Every step of the supervisor keeps its invariant and never clears a
\* recorded failure.
LEMMA SupervisorStepOK ==
  ASSUME Supervised, LaunchStep \/ FinishStep
  PROVE  SupStepOK
<1>1. PersistNative \/ ReadStdout \/ ReadStderr => SupStepOK
  BY ReadbackStepOK, OwnerNames DEF PersistNative, ReadStdout, ReadStderr, Readback
<1> QED
  BY <1>1, LaunchAcquireOK, LaunchSpawnOK, WaitOK, WaitReturnsOK, FinishOK, SupDrainOK, SupCloseScopeOK,
     ReadPacketOK, SupCloseOwnersOK, TranscriptOK, SendOK DEF LaunchStep, FinishStep

-----------------------------------------------------------------------------
(* The entry: its cancellation control and its exit code.                    *)

EntFields == {"pc", "signalled", "seen", "broken", "pin", "handlers", "called", "failed", "cancelled", "unknown",
              "code", "exit", "sentAtRetire"}
EntOnly(e, d, F) == \A f \in EntFields \ F : d[f] = e[f]
WireRecord == [unread : Nat, sent : Nat]

\* The pipe as far as a control that has seen no byte and no failure knows it.
Unseen(e, w) == ~e.seen /\ ~e.broken => w.unread = w.sent

\* A poll of the pipe can only add to what the control knows.
LEMMA PollEffect ==
  ASSUME NEW e \in EntryRecord
  PROVE  /\ Polled1(e) \in EntryRecord
         /\ EntOnly(e, Polled1(e), {"signalled", "seen", "broken"})
         /\ e.signalled => Polled1(e).signalled
         /\ e.broken => Polled1(e).broken
         /\ (e.seen => e.signalled) => (Polled1(e).seen => Polled1(e).signalled)
         /\ e.pin = "active" /\ ~Polled1(e).broken /\ ~Polled1(e).seen => wire.unread = 0 /\ ~e.seen
<1>1. CASE Polled1(e) = e /\ (wire.unread = 0 \/ e.pin # "active" \/ e.broken)
  <2>1. EntOnly(e, e, {"signalled", "seen", "broken"})
    BY DEF EntOnly
  <2> QED
    BY <1>1, <2>1
<1>2. CASE Polled1(e) = [e EXCEPT !.seen = TRUE, !.signalled = TRUE]
  BY <1>2 DEF EntryRecord, EntOnly, EntFields
<1>3. CASE Polled1(e) = [e EXCEPT !.broken = TRUE]
  BY <1>3 DEF EntryRecord, EntOnly, EntFields
<1> QED
  BY <1>1, <1>2, <1>3 DEF Polled1

LEMMA DrainedWire ==
  ASSUME ent \in EntryRecord, wire \in WireRecord, Unseen(ent, wire)
  PROVE  Drained1 \in WireRecord /\ Unseen(Polled1(ent), Drained1)
<1>1. Drained1 \in WireRecord /\ (Drained1 = wire \/ (Drained1.unread = 0 /\ Drained1.sent = wire.sent))
  BY DEF Drained1, WireRecord
<1>2. CASE ent.pin # "active" \/ ent.broken
  <2>1. Drained1 = wire /\ Polled1(ent) = ent
    BY <1>2 DEF Drained1, Polled1
  <2> QED
    BY <1>1, <2>1
<1>3. CASE ent.pin = "active" /\ ~ent.broken
  <2>1. ~Polled1(ent).broken /\ ~Polled1(ent).seen => wire.unread = 0 /\ ~ent.seen
    BY <1>3, PollEffect
  <2> QED
    BY <1>1, <1>3, <2>1 DEF Unseen
<1> QED
  BY <1>2, <1>3

\* What the supervisor's steps do to the entry and the pipe.
LEMMA SupervisorPolls ==
  ASSUME LaunchStep \/ FinishStep
  PROVE  /\ sup.pc \notin {"idle", "returned"}
         /\ \/ ent' = ent /\ wire' = wire
            \/ /\ wire' = Drained1
               /\ \E b \in BOOLEAN : /\ ent' = [Polled1(ent) EXCEPT !.cancelled = b]
                                     /\ b => sup' = SupEnds(sup, FALSE, "finish")
<1>1. LaunchAcquire => sup.pc \notin {"idle", "returned"} /\ ent' = ent /\ wire' = wire
  BY DEF LaunchAcquire, LaunchAfter
<1>2. WaitReturns \/ Finish \/ SupDrain \/ SupCloseScope \/ PersistNative \/ ReadStdout \/ ReadStderr
      \/ ReadPacket \/ SupCloseOwners \/ Transcript \/ Send =>
        sup.pc \notin {"idle", "returned"} /\ ent' = ent /\ wire' = wire
  BY DEF WaitReturns, Finish, SupDrain, SupCloseScope, PersistNative, ReadStdout, ReadStderr, ReadbackStep,
         ReadPacket, SupCloseOwners, Transcript, Send
<1>3. ASSUME LaunchSpawn
      PROVE  /\ sup.pc = "spawn" /\ wire' = Drained1
             /\ \E b \in BOOLEAN : /\ ent' = [Polled1(ent) EXCEPT !.cancelled = b]
                                   /\ b => sup' = SupEnds(sup, FALSE, "finish")
  <2> DEFINE e == Polled1(ent)
  <2> DEFINE b == e.signalled /\ ~e.broken /\ now < HardEnd
  <2>1. b \in BOOLEAN /\ ent' = [e EXCEPT !.cancelled = b]
    BY <1>3 DEF LaunchSpawn
  <2>2. b => sup' = SupEnds(sup, FALSE, "finish")
    BY <1>3 DEF LaunchSpawn, Refuses, SupEnds
  <2>3. sup.pc = "spawn" /\ wire' = Drained1
    BY <1>3 DEF LaunchSpawn
  <2> QED
    BY <2>1, <2>2, <2>3
<1>4. ASSUME Wait
      PROVE  /\ sup.pc = "wait" /\ wire' = Drained1
             /\ \E b \in BOOLEAN : /\ ent' = [Polled1(ent) EXCEPT !.cancelled = b]
                                   /\ b => sup' = SupEnds(sup, FALSE, "finish")
  <2> DEFINE e == Polled1(ent)
  <2> DEFINE b == e.signalled /\ ~e.broken /\ now < Cutoff
  <2>1. b \in BOOLEAN /\ ent' = [e EXCEPT !.cancelled = b]
    BY <1>4 DEF Wait
  <2>2. b => sup' = SupEnds(sup, FALSE, "finish")
    BY <1>4 DEF Wait, Refuses, SupEnds
  <2>3. sup.pc = "wait" /\ wire' = Drained1
    BY <1>4 DEF Wait
  <2> QED
    BY <2>1, <2>2, <2>3
<1> QED
  BY <1>1, <1>2, <1>3, <1>4 DEF LaunchStep, FinishStep

LEMMA EntryBesideSupervisor ==
  ASSUME sup \in SupervisorRecord, ent \in EntryRecord, wire \in WireRecord, EntryInv(ent, sup, wire),
         LaunchStep \/ FinishStep, SupStepOK
  PROVE  ent' \in EntryRecord /\ wire' \in WireRecord /\ EntryInv(ent', sup', wire')
<1>1. /\ ent.pc = "running" /\ ent.called /\ ent.pin = "active" /\ ent.exit = NoCode /\ ent.code = NoCode
      /\ ent.seen => ent.signalled
  BY SupervisorPolls DEF EntryInv
<1>2. Unseen(ent, wire)
  BY <1>1 DEF EntryInv, Unseen
<1>3. CASE ent' = ent /\ wire' = wire
  <2>1. sup'.pc # "idle" /\ (ent.cancelled => sup'.failed)
    BY DEF SupStepOK, EntryInv
  <2>2. EntryInv(ent, sup', wire)
    BY <1>1, <1>2, <2>1 DEF EntryInv, Unseen, NoCode, FAILED_CAPTURE_EXIT
  <2> QED
    BY <1>3, <2>2
<1>4. ASSUME wire' = Drained1, NEW b \in BOOLEAN, ent' = [Polled1(ent) EXCEPT !.cancelled = b],
             b => sup' = SupEnds(sup, FALSE, "finish")
      PROVE  ent' \in EntryRecord /\ wire' \in WireRecord /\ EntryInv(ent', sup', wire')
  <2> DEFINE e == Polled1(ent)
  <2>1. /\ e \in EntryRecord /\ EntOnly(ent, e, {"signalled", "seen", "broken"})
        /\ e.seen => e.signalled
    BY <1>1, PollEffect
  <2>2. Drained1 \in WireRecord /\ Unseen(e, Drained1)
    BY <1>2, DrainedWire
  <2>3. ent' = [e EXCEPT !.cancelled = b]
    BY <1>4
  <2> HIDE DEF e
  <2>4. /\ ent' \in EntryRecord /\ EntOnly(e, ent', {"cancelled"}) /\ ent'.cancelled = b
    BY <1>4, <2>1, <2>3 DEF EntryRecord, EntOnly, EntFields
  <2>5. /\ ent'.pc = "running" /\ ent'.called /\ ent'.pin = "active" /\ ent'.exit = NoCode /\ ent'.code = NoCode
        /\ ent'.seen = e.seen /\ ent'.signalled = e.signalled /\ ent'.broken = e.broken
    BY <1>1, <2>1, <2>4 DEF EntOnly, EntFields
  <2>6. Unseen(ent', wire')
    BY <1>4, <2>2, <2>5 DEF Unseen
  <2>7. b => sup'.failed
    BY <1>4, SupEndEffect, SupPcNames
  <2>8. sup'.pc # "idle"
    BY DEF SupStepOK
  <2>9. EntryInv(ent', sup', wire')
    BY <2>1, <2>4, <2>5, <2>6, <2>7, <2>8 DEF EntryInv, Unseen, NoCode, FAILED_CAPTURE_EXIT
  <2> QED
    BY <1>4, <2>2, <2>4, <2>9
<1> QED
  BY <1>3, <1>4, SupervisorPolls

\* A poll keeps the invariant of the entry; once the exit is being decided,
\* only if it brought no new cancellation.
LEMMA PollKeeps ==
  ASSUME ent \in EntryRecord, wire \in WireRecord, EntryInv(ent, sup, wire),
         ent.pc \notin {"retire", "close", "done"},
         ent.pc = "exit" => Polled1(ent).signalled = ent.signalled
  PROVE  /\ Polled1(ent) \in EntryRecord /\ Polled1(ent).pc = ent.pc /\ EntryInv(Polled1(ent), sup, Drained1)
         /\ Drained1 \in WireRecord
<1> DEFINE e == Polled1(ent)
<1>1. /\ e \in EntryRecord /\ EntOnly(ent, e, {"signalled", "seen", "broken"}) /\ (ent.signalled => e.signalled)
      /\ e.seen => e.signalled
  BY PollEffect DEF EntryInv
<1>2. Unseen(ent, wire)
  BY DEF EntryInv, Unseen
<1>3. Drained1 \in WireRecord /\ Unseen(e, Drained1)
  BY <1>2, DrainedWire
<1>4. ent.pc = "exit" => e.signalled = ent.signalled
  OBVIOUS
<1> HIDE DEF e
<1>5. /\ e.pc = ent.pc /\ e.pin = ent.pin /\ e.handlers = ent.handlers /\ e.called = ent.called
      /\ e.failed = ent.failed /\ e.cancelled = ent.cancelled /\ e.unknown = ent.unknown /\ e.exit = ent.exit /\ e.code = ent.code
      /\ e.sentAtRetire = ent.sentAtRetire
  BY <1>1 DEF EntOnly, EntFields
<1>6. e.exit = NoCode
  BY <1>5 DEF EntryInv
<1>7. EntryInv(e, sup, Drained1)
  BY <1>1, <1>3, <1>4, <1>5, <1>6 DEF EntryInv, Unseen, NoCode, FAILED_CAPTURE_EXIT
<1> QED
  BY <1>1, <1>3, <1>5, <1>7 DEF e

\* The entry gives up before the call.
LEMMA EntryFailsKeeps ==
  ASSUME NEW e \in EntryRecord, NEW s, NEW w, EntryInv(e, s, w), ~e.called,
         e.pc \notin {"retire", "close", "done"}
  PROVE  /\ EntryFails(e) \in EntryRecord /\ EntryFails(e).pc = "restore" /\ ~EntryFails(e).called
         /\ EntOnly(e, EntryFails(e), {"failed", "pc"}) /\ EntryInv(EntryFails(e), s, w)
<1> DEFINE d == EntryFails(e)
<1>1. d \in EntryRecord /\ d.pc = "restore" /\ EntOnly(e, d, {"failed", "pc"}) /\ d.failed
  BY DEF EntryFails, EntryRecord, EntOnly, EntFields
<1> HIDE DEF d
<1>2. /\ d.pin = e.pin /\ d.handlers = e.handlers /\ d.called = e.called /\ d.seen = e.seen /\ d.broken = e.broken
      /\ d.signalled = e.signalled /\ d.cancelled = e.cancelled /\ d.unknown = e.unknown /\ d.exit = e.exit /\ d.code = e.code
      /\ d.sentAtRetire = e.sentAtRetire
  BY <1>1 DEF EntOnly, EntFields
<1>3. e.exit = NoCode
  BY DEF EntryInv
<1>4. EntryInv(d, s, w)
  BY <1>1, <1>2, <1>3 DEF EntryInv, NoCode, FAILED_CAPTURE_EXIT
<1> QED
  BY <1>1, <1>2, <1>4 DEF d

\* Before the call the supervisor is idle: the entry may acquire, lose or
\* close a root.
Rooted(s, n, v) == [s EXCEPT !.slots[n] = v]

LEMMA RootMoves ==
  ASSUME NEW s, NEW w, NEW p, NEW of, NEW n \in {"home", "directory"}, NEW v \in SlotStates,
         SupInv(s, w, p, of), s.pc = "idle"
  PROVE  /\ SupInv(Rooted(s, n, v), w, p, of) /\ Rooted(s, n, v).pc = "idle"
         /\ Rooted(s, n, v).slots = [s.slots EXCEPT ![n] = v] /\ Rooted(s, n, v).failed = s.failed
<1> DEFINE t == Rooted(s, n, v)
<1>1. s \in SupervisorRecord /\ s.slots \in [Owners -> SlotStates] /\ n \in Owners
  BY OwnerNames DEF SupInv, SupervisorRecord
<1>2. /\ t \in SupervisorRecord /\ t.slots = [s.slots EXCEPT ![n] = v] /\ SupOnly(s, t, {"slots"})
  BY <1>1, SupSlotEffect DEF Rooted
<1> HIDE DEF t
<1>3. /\ t.pc = "idle" /\ t.retired = s.retired /\ t.waiting = s.waiting /\ t.control = s.control
      /\ t.failed = s.failed /\ t.returned = s.returned /\ t.sent = s.sent
  BY <1>2 DEF SupOnly, SupFields
<1>4. t.slots["scope"] = s.slots["scope"]
  BY <1>1, <1>2, OwnerNames
<1>5. SupHolds(t, w, p)
  BY <1>3, <1>4 DEF SupInv, SupHolds, BeforeLaunch, Undrained, Readback
<1>6. SupResult(t, of)
  BY <1>3 DEF SupInv, SupResult, BeforeLaunch, Undrained, Readback
<1> QED
  BY <1>2, <1>3, <1>5, <1>6 DEF SupInv, t

EntryStepOK ==
  /\ WorkerInv' /\ SupInv(sup', wk', prov', packet'.of)
  /\ ent' \in EntryRecord /\ wire' \in WireRecord /\ EntryInv(ent', sup', wire')
Entered == Supervised /\ ent \in EntryRecord /\ wire \in WireRecord /\ EntryInv(ent, sup, wire)

LEMMA StartControlOK ==
  ASSUME Entered, StartControl
  PROVE  EntryStepOK
<1>1. ent.pc = "control" /\ UNCHANGED worker /\ sup' = sup /\ wire' = wire
  BY DEF StartControl, Pass, worker
<1>2. ent \in EntryRecord /\ EntryInv(ent, sup, wire) /\ ~ent.called /\ Supervised /\ wire \in WireRecord
  BY <1>1 DEF Entered, EntryInv
<1>3. CASE ent' = [ent EXCEPT !.pin = "active", !.handlers = TRUE, !.pc = "directory"]
  <2>1. /\ ent' \in EntryRecord /\ ent'.pc = "directory" /\ ent'.pin = "active"
        /\ EntOnly(ent, ent', {"pin", "handlers", "pc"})
    BY <1>2, <1>3 DEF EntryRecord, EntOnly, EntFields
  <2>2. /\ ent'.called = ent.called /\ ent'.seen = ent.seen /\ ent'.broken = ent.broken /\ ent'.failed = ent.failed
        /\ ent'.signalled = ent.signalled /\ ent'.cancelled = ent.cancelled /\ ent'.unknown = ent.unknown
        /\ ent'.exit = ent.exit /\ ent'.code = ent.code
    BY <2>1 DEF EntOnly, EntFields
  <2>3. EntryInv(ent', sup, wire)
    BY <1>1, <1>2, <2>1, <2>2 DEF EntryInv, NoCode, FAILED_CAPTURE_EXIT
  <2> QED
    BY <1>1, <1>2, <2>1, <2>3, WorkerStays DEF EntryStepOK, Supervised
<1>4. CASE ent' = EntryFails(ent)
  <2>1. ent' \in EntryRecord /\ EntryInv(ent', sup, wire)
    BY <1>1, <1>2, <1>4, EntryFailsKeeps
  <2> QED
    BY <1>1, <1>2, <2>1, WorkerStays DEF EntryStepOK, Supervised
<1> QED
  BY <1>3, <1>4 DEF StartControl

LEMMA OpenRootOK ==
  ASSUME Entered, OpenRoot
  PROVE  EntryStepOK
<1>1. ent.pc \in {"directory", "home"} /\ UNCHANGED worker /\ wire' = Drained1
  BY DEF OpenRoot, Pass, worker
<1>2. /\ ent \in EntryRecord /\ EntryInv(ent, sup, wire) /\ ~ent.called /\ Supervised /\ wire \in WireRecord
      /\ sup.pc = "idle" /\ SupInv(sup, wk, prov, packet.of)
  BY <1>1 DEF Entered, EntryInv, Supervised
<1> DEFINE e == Polled1(ent)
<1>3. /\ e \in EntryRecord /\ e.pc = ent.pc /\ EntryInv(e, sup, Drained1) /\ Drained1 \in WireRecord
  BY <1>1, <1>2, PollKeeps
<1>4. \/ /\ ent' = [e EXCEPT !.pc = IF ent.pc = "directory" THEN "home" ELSE "call"]
         /\ sup' = [sup EXCEPT !.slots[ent.pc] = "held"]
      \/ /\ ent' = [EntryFails(e) EXCEPT !.unknown = TRUE]
         /\ sup' = [sup EXCEPT !.slots[ent.pc] = "lost"]
      \/ ent' = EntryFails(e) /\ sup' = sup
  BY DEF OpenRoot
<1> HIDE DEF e
<1>5. ~e.called /\ e.pc \in {"directory", "home"} /\ (\A n \in FileOwners : sup.slots[n] # "closed") /\ e.exit = NoCode
  BY <1>1, <1>3 DEF EntryInv
<1>6. CASE /\ ent' = [e EXCEPT !.pc = IF ent.pc = "directory" THEN "home" ELSE "call"]
           /\ sup' = [sup EXCEPT !.slots[ent.pc] = "held"]
  <2>1. /\ SupInv(sup', wk, prov, packet.of) /\ sup'.pc = "idle" /\ sup'.slots = [sup.slots EXCEPT ![ent.pc] = "held"]
        /\ sup'.failed = sup.failed
    <3>1. sup' = Rooted(sup, ent.pc, "held") /\ "held" \in SlotStates
      BY <1>6 DEF Rooted, SlotStates
    <3>2. /\ SupInv(Rooted(sup, ent.pc, "held"), wk, prov, packet.of) /\ Rooted(sup, ent.pc, "held").pc = "idle"
          /\ Rooted(sup, ent.pc, "held").slots = [sup.slots EXCEPT ![ent.pc] = "held"]
          /\ Rooted(sup, ent.pc, "held").failed = sup.failed
      BY <1>1, <1>2, <3>1, RootMoves
    <3> QED
      BY <3>1, <3>2
  <2>2. \A n \in FileOwners : sup'.slots[n] # "closed"
    BY <1>2, <1>5, <2>1, OwnerNames DEF SupInv, SupervisorRecord
  <2>3. ent' \in EntryRecord /\ ent'.pc \in {"home", "call"} /\ EntOnly(e, ent', {"pc"})
    BY <1>1, <1>3, <1>6 DEF EntryRecord, EntOnly, EntFields
  <2>4. /\ ent'.pin = e.pin /\ ent'.called = e.called /\ ent'.seen = e.seen /\ ent'.broken = e.broken /\ ent'.failed = e.failed
        /\ ent'.signalled = e.signalled /\ ent'.cancelled = e.cancelled /\ ent'.exit = e.exit /\ ent'.code = e.code
    BY <2>3 DEF EntOnly, EntFields
  <2>5. EntryInv(ent', sup', Drained1)
    BY <1>3, <1>5, <2>1, <2>2, <2>3, <2>4 DEF EntryInv, NoCode, FAILED_CAPTURE_EXIT
  <2> QED
    BY <1>1, <1>2, <1>3, <2>1, <2>3, <2>5, WorkerStays DEF EntryStepOK
<1>7. CASE /\ ent' = [EntryFails(e) EXCEPT !.unknown = TRUE]
           /\ sup' = [sup EXCEPT !.slots[ent.pc] = "lost"]
  <2>1. /\ SupInv(sup', wk, prov, packet.of) /\ sup'.pc = "idle" /\ sup'.failed = sup.failed
    <3>1. sup' = Rooted(sup, ent.pc, "lost") /\ "lost" \in SlotStates
      BY <1>7 DEF Rooted, SlotStates
    <3>2. /\ SupInv(Rooted(sup, ent.pc, "lost"), wk, prov, packet.of) /\ Rooted(sup, ent.pc, "lost").pc = "idle"
          /\ Rooted(sup, ent.pc, "lost").slots = [sup.slots EXCEPT ![ent.pc] = "lost"]
          /\ Rooted(sup, ent.pc, "lost").failed = sup.failed
      BY <1>1, <1>2, <3>1, RootMoves
    <3> QED
      BY <3>1, <3>2
  <2> DEFINE d == EntryFails(e)
  <2>2. d \in EntryRecord /\ d.pc = "restore" /\ ~d.called /\ EntryInv(d, sup, Drained1)
    BY <1>3, <1>5, EntryFailsKeeps
  <2>3. ent' = [d EXCEPT !.unknown = TRUE]
    BY <1>7
  <2> HIDE DEF d
  <2>4. ent' \in EntryRecord /\ EntOnly(d, ent', {"unknown"})
    BY <2>2, <2>3 DEF EntryRecord, EntOnly, EntFields
  <2>5. /\ ent'.called = d.called /\ ent'.seen = d.seen /\ ent'.broken = d.broken /\ ent'.failed = d.failed
        /\ ent'.signalled = d.signalled /\ ent'.cancelled = d.cancelled /\ ent'.exit = d.exit /\ ent'.code = d.code /\ ent'.pc = d.pc
    BY <2>4 DEF EntOnly, EntFields
  <2>6. EntryInv(ent', sup', Drained1)
    BY <2>1, <2>2, <2>5 DEF EntryInv, NoCode, FAILED_CAPTURE_EXIT
  <2> QED
    BY <1>1, <1>2, <1>3, <2>1, <2>4, <2>6, WorkerStays DEF EntryStepOK
<1>8. CASE ent' = EntryFails(e) /\ sup' = sup
  <2>1. ent' \in EntryRecord /\ EntryInv(ent', sup, Drained1)
    BY <1>3, <1>5, <1>8, EntryFailsKeeps
  <2> QED
    BY <1>1, <1>2, <1>3, <1>8, <2>1, WorkerStays DEF EntryStepOK
<1> QED
  BY <1>4, <1>6, <1>7, <1>8

LEMMA CallOK ==
  ASSUME Entered, Call
  PROVE  EntryStepOK
<1>1. ent.pc = "call" /\ UNCHANGED worker /\ wire' = Drained1
  BY DEF Call, Pass, worker
<1>2. /\ ent \in EntryRecord /\ EntryInv(ent, sup, wire) /\ ~ent.called /\ Supervised /\ wire \in WireRecord
      /\ sup.pc = "idle" /\ SupInv(sup, wk, prov, packet.of)
  BY <1>1 DEF Entered, EntryInv, Supervised
<1> DEFINE e == Polled1(ent)
<1>3. /\ e \in EntryRecord /\ e.pc = ent.pc /\ EntryInv(e, sup, Drained1) /\ Drained1 \in WireRecord
      /\ e.pin = ent.pin
  BY <1>1, <1>2, PollKeeps, PollEffect DEF EntOnly, EntFields
<1>4. \/ ent' = [e EXCEPT !.pc = "running", !.called = TRUE] /\ sup' = [sup EXCEPT !.pc = "capture_directory"]
      \/ ent' = EntryFails(e) /\ sup' = sup
  BY DEF Call
<1> HIDE DEF e
<1>5. ~e.called /\ e.pc = "call" /\ (\A n \in FileOwners : sup.slots[n] # "closed") /\ e.exit = NoCode
  BY <1>1, <1>3 DEF EntryInv
<1>6. CASE ent' = [e EXCEPT !.pc = "running", !.called = TRUE] /\ sup' = [sup EXCEPT !.pc = "capture_directory"]
  <2>1. sup \in SupervisorRecord /\ SupHolds(sup, wk, prov) /\ SupResult(sup, packet.of)
    BY <1>2 DEF SupInv
  <2>2. sup' \in SupervisorRecord /\ sup'.pc = "capture_directory" /\ SupOnly(sup, sup', {"pc"})
    BY <1>6, <2>1, SupPcEffect, SupPcNames DEF BeforeLaunch
  <2>3. /\ sup'.slots = sup.slots /\ sup'.retired = sup.retired /\ sup'.waiting = sup.waiting
        /\ sup'.control = sup.control /\ sup'.failed = sup.failed /\ sup'.returned = sup.returned
        /\ sup'.sent = sup.sent
    BY <2>2 DEF SupOnly, SupFields
  <2>4. SupHolds(sup', wk, prov)
    BY <1>2, <1>5, <2>1, <2>2, <2>3 DEF SupHolds, SupFileClosed, BeforeLaunch, Undrained, Readback
  <2>5. SupResult(sup', packet.of)
    BY <1>2, <2>1, <2>2, <2>3 DEF SupResult, BeforeLaunch, Undrained, Readback
  <2>6. ent' \in EntryRecord /\ ent'.pc = "running" /\ ent'.called /\ EntOnly(e, ent', {"pc", "called"})
    BY <1>3, <1>6 DEF EntryRecord, EntOnly, EntFields
  <2>7. /\ ent'.seen = e.seen /\ ent'.broken = e.broken /\ ent'.failed = e.failed /\ ent'.pin = e.pin
        /\ ent'.signalled = e.signalled /\ ent'.cancelled = e.cancelled /\ ent'.exit = e.exit /\ ent'.code = e.code
    BY <2>6 DEF EntOnly, EntFields
  <2>8. ent'.pin = "active"
    BY <1>1, <1>2, <1>3, <2>7 DEF EntryInv
  <2>9. EntryInv(ent', sup', Drained1)
    BY <1>3, <1>5, <2>2, <2>3, <2>6, <2>7, <2>8 DEF EntryInv, NoCode, FAILED_CAPTURE_EXIT
  <2> QED
    BY <1>1, <1>2, <1>3, <2>2, <2>4, <2>5, <2>6, <2>9, WorkerStays DEF EntryStepOK, SupInv
<1>7. CASE ent' = EntryFails(e) /\ sup' = sup
  <2>1. ent' \in EntryRecord /\ EntryInv(ent', sup, Drained1)
    BY <1>3, <1>5, <1>7, EntryFailsKeeps
  <2> QED
    BY <1>1, <1>2, <1>3, <1>7, <2>1, WorkerStays DEF EntryStepOK
<1> QED
  BY <1>4, <1>6, <1>7

LEMMA CloseRootsOK ==
  ASSUME Entered, CloseRoots
  PROVE  EntryStepOK
<1>1. ent.pc = "restore" /\ ~ent.called /\ UNCHANGED worker /\ wire' = wire
  BY DEF CloseRoots, Pass, worker
<1>2. /\ ent \in EntryRecord /\ EntryInv(ent, sup, wire) /\ Supervised /\ wire \in WireRecord
      /\ sup.pc = "idle" /\ SupInv(sup, wk, prov, packet.of)
  BY <1>1 DEF Entered, EntryInv, Supervised
<1>3. PICK n \in {"home", "directory"}, v \in {"closed", "lost"} :
        /\ sup' = Rooted(sup, n, v)
        /\ ent' = ent \/ ent' = [ent EXCEPT !.unknown = TRUE]
  BY DEF CloseRoots, Rooted
<1>4. SupInv(sup', wk, prov, packet.of) /\ sup'.pc = "idle" /\ sup'.failed = sup.failed
  <2>1. v \in SlotStates
    BY DEF SlotStates
  <2>2. /\ SupInv(Rooted(sup, n, v), wk, prov, packet.of) /\ Rooted(sup, n, v).pc = "idle"
        /\ Rooted(sup, n, v).slots = [sup.slots EXCEPT ![n] = v] /\ Rooted(sup, n, v).failed = sup.failed
    BY <1>2, <2>1, RootMoves
  <2> QED
    BY <1>3, <2>2
<1>5. ent' \in EntryRecord /\ EntOnly(ent, ent', {"unknown"})
  BY <1>2, <1>3 DEF EntryRecord, EntOnly, EntFields
<1>6. /\ ent'.called = ent.called /\ ent'.seen = ent.seen /\ ent'.broken = ent.broken /\ ent'.failed = ent.failed
      /\ ent'.signalled = ent.signalled /\ ent'.cancelled = ent.cancelled /\ ent'.exit = ent.exit /\ ent'.code = ent.code /\ ent'.pc = ent.pc
  BY <1>5 DEF EntOnly, EntFields
<1>7. EntryInv(ent', sup', wire)
  BY <1>1, <1>2, <1>4, <1>6 DEF EntryInv, NoCode, FAILED_CAPTURE_EXIT
<1> QED
  BY <1>1, <1>2, <1>4, <1>5, <1>7, WorkerStays DEF EntryStepOK

LEMMA CallReturnsOK ==
  ASSUME Entered, CallReturns
  PROVE  EntryStepOK
<1>1. /\ ent.pc = "running" /\ sup.pc = "returned" /\ UNCHANGED worker /\ wire' = wire /\ sup' = sup
      /\ ent' = [ent EXCEPT !.pc = "restore", !.failed = sup.failed]
  BY DEF CallReturns, Pass, worker
<1>2. /\ ent \in EntryRecord /\ EntryInv(ent, sup, wire) /\ Supervised /\ wire \in WireRecord
      /\ SupInv(sup, wk, prov, packet.of) /\ sup.failed \in BOOLEAN
  BY DEF Entered, Supervised, SupInv, SupervisorRecord
<1>3. ent' \in EntryRecord /\ ent'.pc = "restore" /\ ent'.failed = sup.failed /\ EntOnly(ent, ent', {"pc", "failed"})
  BY <1>1, <1>2 DEF EntryRecord, EntOnly, EntFields
<1>4. /\ ent'.called = ent.called /\ ent'.seen = ent.seen /\ ent'.broken = ent.broken /\ ent'.pin = ent.pin
      /\ ent'.signalled = ent.signalled /\ ent'.cancelled = ent.cancelled /\ ent'.exit = ent.exit /\ ent'.code = ent.code
  BY <1>3 DEF EntOnly, EntFields
<1>5. EntryInv(ent', sup, wire)
  BY <1>1, <1>2, <1>3, <1>4 DEF EntryInv, NoCode, FAILED_CAPTURE_EXIT
<1> QED
  BY <1>1, <1>2, <1>3, <1>5, WorkerStays DEF EntryStepOK

LEMMA RestoreOK ==
  ASSUME Entered, Restore
  PROVE  EntryStepOK
<1>1. /\ ent.pc = "restore" /\ UNCHANGED worker /\ wire' = wire /\ sup' = sup
      /\ \/ ent' = [ent EXCEPT !.handlers = FALSE, !.pc = "complete"]
         \/ ent' = [ent EXCEPT !.handlers = FALSE, !.failed = TRUE, !.unknown = TRUE, !.pc = "complete"]
  BY DEF Restore, Pass, worker
<1>2. /\ ent \in EntryRecord /\ EntryInv(ent, sup, wire) /\ Supervised /\ wire \in WireRecord
      /\ SupInv(sup, wk, prov, packet.of)
  BY DEF Entered, Supervised
<1>3. /\ ent' \in EntryRecord /\ ent'.pc = "complete" /\ EntOnly(ent, ent', {"pc", "failed", "unknown", "handlers"})
      /\ ent'.handlers = FALSE /\ (ent.failed => ent'.failed)
  BY <1>1, <1>2 DEF EntryRecord, EntOnly, EntFields
<1>4. /\ ent'.called = ent.called /\ ent'.seen = ent.seen /\ ent'.broken = ent.broken /\ ent'.pin = ent.pin
      /\ ent'.signalled = ent.signalled /\ ent'.cancelled = ent.cancelled /\ ent'.exit = ent.exit /\ ent'.code = ent.code
  BY <1>3 DEF EntOnly, EntFields
<1>5. EntryInv(ent', sup, wire)
  BY <1>1, <1>2, <1>3, <1>4 DEF EntryInv, NoCode, FAILED_CAPTURE_EXIT
<1> QED
  BY <1>1, <1>2, <1>3, <1>5, WorkerStays DEF EntryStepOK

\* What an entry that ends incomplete still has to agree on.
Sides(e, s) ==
  /\ e.called <=> s.pc # "idle"
  /\ s.pc # "idle" => s.pc = "returned"
  /\ e.cancelled => s.failed
  /\ e.seen => e.signalled
\* ... and on its control pipe, which is still open.
EntryLive(e, w) ==
  /\ e.called => e.pin = "active"
  /\ Unseen(e, w) /\ ~e.handlers /\ e.exit = NoCode

\* An entry that gives up promises nothing: its code is 66.
LEMMA Incomplete66Keeps ==
  ASSUME NEW e \in EntryRecord, NEW s, NEW w, Sides(e, s), EntryLive(e, w)
  PROVE  Incomplete66(e) \in EntryRecord /\ EntryInv(Incomplete66(e), s, w)
<1> DEFINE d == Incomplete66(e)
<1>1. d = [e EXCEPT !.code = INCOMPLETE_EXIT, !.pc = "retire", !.failed = TRUE]
  BY DEF Incomplete66
<1> HIDE DEF d
<1>2. /\ d \in EntryRecord /\ d.code = 66 /\ d.pc = "retire" /\ d.failed /\ EntOnly(e, d, {"code", "pc", "failed"})
  BY <1>1 DEF EntryRecord, EntOnly, EntFields, INCOMPLETE_EXIT
<1>3. /\ d.called = e.called /\ d.cancelled = e.cancelled /\ d.seen = e.seen /\ d.signalled = e.signalled
      /\ d.broken = e.broken /\ d.pin = e.pin /\ d.handlers = e.handlers /\ d.exit = e.exit
  BY <1>2 DEF EntOnly, EntFields
<1>4. EntryInv(d, s, w)
  BY <1>2, <1>3 DEF Sides, EntryLive, EntryInv, Unseen, NoCode, FAILED_CAPTURE_EXIT
<1> QED
  BY <1>2, <1>4 DEF d

\* What a poll leaves of the agreement, whatever it brings.
LEMMA PollSides ==
  ASSUME ent \in EntryRecord, wire \in WireRecord, EntryInv(ent, sup, wire), ent.pc \in {"complete", "exit"}
  PROVE  Sides(Polled1(ent), sup) /\ EntryLive(Polled1(ent), Drained1)
<1> DEFINE e == Polled1(ent)
<1>1. /\ EntOnly(ent, e, {"signalled", "seen", "broken"}) /\ (e.seen => e.signalled)
  BY PollEffect DEF EntryInv
<1>2. Unseen(e, Drained1)
  <2>1. Unseen(ent, wire)
    BY DEF EntryInv, Unseen
  <2> QED
    BY <2>1, DrainedWire
<1> HIDE DEF e
<1>3. /\ e.called = ent.called /\ e.cancelled = ent.cancelled /\ e.pin = ent.pin /\ e.handlers = ent.handlers
      /\ e.exit = ent.exit
  BY <1>1 DEF EntOnly, EntFields
<1> QED
  BY <1>1, <1>2, <1>3 DEF Sides, EntryLive, EntryInv, e

LEMMA CompleteOK ==
  ASSUME Entered, Complete
  PROVE  EntryStepOK
<1>1. ent.pc = "complete" /\ UNCHANGED worker /\ wire' = Drained1 /\ sup' = sup
  BY DEF Complete, Pass, worker
<1>2. /\ ent \in EntryRecord /\ EntryInv(ent, sup, wire) /\ Supervised /\ wire \in WireRecord
      /\ SupInv(sup, wk, prov, packet.of)
  BY DEF Entered, Supervised
<1> DEFINE e == Polled1(ent)
<1>3. /\ e \in EntryRecord /\ e.pc = "complete" /\ EntryInv(e, sup, Drained1) /\ Drained1 \in WireRecord
      /\ Sides(e, sup) /\ EntryLive(e, Drained1)
  BY <1>1, <1>2, PollKeeps, PollSides
<1>4. \/ ent' = [e EXCEPT !.pc = "exit"] /\ e.called /\ ~e.unknown /\ (~e.signalled \/ e.cancelled)
      \/ ent' = Incomplete66(e)
  BY DEF Complete
<1> HIDE DEF e
<1>5. CASE ent' = [e EXCEPT !.pc = "exit"] /\ e.called /\ ~e.unknown /\ (~e.signalled \/ e.cancelled)
  <2>1. ent' \in EntryRecord /\ ent'.pc = "exit" /\ EntOnly(e, ent', {"pc"})
    BY <1>3, <1>5 DEF EntryRecord, EntOnly, EntFields
  <2>2. /\ ent'.called = e.called /\ ent'.seen = e.seen /\ ent'.broken = e.broken /\ ent'.pin = e.pin
        /\ ent'.signalled = e.signalled /\ ent'.cancelled = e.cancelled /\ ent'.exit = e.exit /\ ent'.code = e.code
        /\ ent'.unknown = e.unknown /\ ent'.failed = e.failed /\ ent'.handlers = e.handlers
    BY <2>1 DEF EntOnly, EntFields
  <2>3. e.signalled => e.failed
    BY <1>3, <1>5 DEF EntryInv
  <2>4. EntryInv(ent', sup, Drained1)
    BY <1>3, <1>5, <2>1, <2>2, <2>3 DEF EntryInv, NoCode, FAILED_CAPTURE_EXIT
  <2> QED
    BY <1>1, <1>2, <1>3, <2>1, <2>4, WorkerStays DEF EntryStepOK
<1>6. CASE ent' = Incomplete66(e)
  <2>1. ent' \in EntryRecord /\ EntryInv(ent', sup, Drained1)
    BY <1>2, <1>3, <1>6, Incomplete66Keeps
  <2> QED
    BY <1>1, <1>2, <1>3, <2>1, WorkerStays DEF EntryStepOK
<1> QED
  BY <1>4, <1>5, <1>6

LEMMA ExitCheckOK ==
  ASSUME Entered, ExitCheck
  PROVE  EntryStepOK
<1>1. ent.pc = "exit" /\ UNCHANGED worker /\ wire' = Drained1 /\ sup' = sup
  BY DEF ExitCheck, Pass, worker
<1>2. /\ ent \in EntryRecord /\ EntryInv(ent, sup, wire) /\ Supervised /\ wire \in WireRecord
      /\ SupInv(sup, wk, prov, packet.of)
  BY DEF Entered, Supervised
<1> DEFINE e == Polled1(ent)
<1>3. e \in EntryRecord /\ Sides(e, sup) /\ EntryLive(e, Drained1) /\ Drained1 \in WireRecord
  <2>1. Unseen(ent, wire)
    BY <1>1, <1>2 DEF EntryInv, Unseen
  <2> QED
    BY <1>1, <1>2, <2>1, PollEffect, PollSides, DrainedWire
<1>4. \/ /\ ent' = [e EXCEPT !.pc = "retire", !.code = IF e.failed THEN FAILED_CAPTURE_EXIT ELSE 0]
         /\ e.signalled = ent.signalled /\ sup.sent
      \/ ent' = Incomplete66(e)
  BY DEF ExitCheck
<1>5. CASE /\ ent' = [e EXCEPT !.pc = "retire", !.code = IF e.failed THEN FAILED_CAPTURE_EXIT ELSE 0]
           /\ e.signalled = ent.signalled /\ sup.sent
  <2>1. EntryInv(e, sup, Drained1) /\ e.pc = "exit"
    BY <1>1, <1>2, <1>5, PollKeeps
  <2> HIDE DEF e
  <2>2. /\ ent' \in EntryRecord /\ ent'.pc = "retire" /\ EntOnly(e, ent', {"pc", "code"})
        /\ ent'.code = IF e.failed THEN 65 ELSE 0
    BY <1>3, <1>5 DEF EntryRecord, EntOnly, EntFields, FAILED_CAPTURE_EXIT
  <2>3. /\ ent'.called = e.called /\ ent'.seen = e.seen /\ ent'.broken = e.broken /\ ent'.pin = e.pin
        /\ ent'.signalled = e.signalled /\ ent'.cancelled = e.cancelled /\ ent'.exit = e.exit
        /\ ent'.unknown = e.unknown /\ ent'.failed = e.failed /\ ent'.handlers = e.handlers
    BY <2>2 DEF EntOnly, EntFields
  <2>4. EntryInv(ent', sup, Drained1)
    BY <1>5, <2>1, <2>2, <2>3 DEF EntryInv, NoCode, FAILED_CAPTURE_EXIT
  <2> QED
    BY <1>1, <1>2, <1>3, <2>2, <2>4, WorkerStays DEF EntryStepOK
<1>6. CASE ent' = Incomplete66(e)
  <2> HIDE DEF e
  <2>1. ent' \in EntryRecord /\ EntryInv(ent', sup, Drained1)
    BY <1>2, <1>3, <1>6, Incomplete66Keeps
  <2> QED
    BY <1>1, <1>2, <1>3, <2>1, WorkerStays DEF EntryStepOK
<1> QED
  BY <1>4, <1>5, <1>6

\* The last poll.  The code stays 0 only if it found the pipe empty and no byte
\* was ever sent before it: a control that saw none has read none.
LEMMA RetirePollOK ==
  ASSUME Entered, RetirePoll
  PROVE  EntryStepOK
<1>1. ent.pc = "retire" /\ UNCHANGED worker /\ sup' = sup
  BY DEF RetirePoll, Pass, worker
<1>2. /\ ent \in EntryRecord /\ EntryInv(ent, sup, wire) /\ Supervised /\ wire \in WireRecord
      /\ SupInv(sup, wk, prov, packet.of)
  BY DEF Entered, Supervised
<1>3. Unseen(ent, wire) /\ (ent.called => ent.pin = "active")
  BY <1>1, <1>2 DEF EntryInv, Unseen
<1>4. PICK e : /\ e \in EntryRecord /\ EntOnly(ent, e, {"signalled", "seen", "broken"})
               /\ ent.signalled => e.signalled
               /\ e.seen => e.signalled
               /\ ent' = Retiring(e) /\ wire' \in WireRecord /\ Unseen(e, wire')
               /\ ent.pin = "active" /\ ~e.broken /\ ~e.seen => wire.unread = 0 /\ ~ent.seen
               /\ ent.broken => e.broken
  <2>1. CASE ent' = Retiring(Polled1(ent)) /\ wire' = Drained1
    BY <1>2, <1>3, <2>1, PollEffect, DrainedWire DEF EntryInv
  <2>2. CASE ent' = Retiring([ent EXCEPT !.broken = TRUE]) /\ wire' = wire
    <3> DEFINE e == [ent EXCEPT !.broken = TRUE]
    <3>1. e \in EntryRecord /\ EntOnly(ent, e, {"signalled", "seen", "broken"}) /\ e.broken /\ e.seen = ent.seen
          /\ e.signalled = ent.signalled
      BY <1>2 DEF EntryRecord, EntOnly, EntFields
    <3> QED
      BY <1>2, <2>2, <3>1 DEF EntryInv, Unseen
  <2> QED
    BY <2>1, <2>2 DEF RetirePoll
<1>5. /\ e.pc = ent.pc /\ e.pin = ent.pin /\ e.handlers = ent.handlers /\ e.called = ent.called
      /\ e.failed = ent.failed /\ e.cancelled = ent.cancelled /\ e.unknown = ent.unknown /\ e.exit = ent.exit
      /\ e.code = ent.code
  BY <1>4 DEF EntOnly, EntFields
<1>6. /\ ent' \in EntryRecord /\ ent'.pc = "close" /\ ent'.sentAtRetire = wire.sent
      /\ EntOnly(e, ent', {"pc", "sentAtRetire", "code"})
      /\ \/ ent'.code = ent.code /\ e.signalled = ent.signalled /\ ~e.broken
         \/ ent'.code = 66
  <2>1. wire.sent \in Nat
    BY <1>2 DEF WireRecord
  <2> QED
    BY <1>4, <1>5, <2>1 DEF Retiring, EntryRecord, EntOnly, EntFields, INCOMPLETE_EXIT
<1>7. /\ ent'.called = e.called /\ ent'.seen = e.seen /\ ent'.broken = e.broken /\ ent'.pin = e.pin
      /\ ent'.signalled = e.signalled /\ ent'.cancelled = e.cancelled /\ ent'.exit = e.exit
      /\ ent'.unknown = e.unknown /\ ent'.failed = e.failed /\ ent'.handlers = e.handlers
  BY <1>6 DEF EntOnly, EntFields
<1>8. ent'.code \in {0, 65} =>
        /\ ent.code = ent'.code /\ e.signalled = ent.signalled /\ ~e.broken
        /\ ent.called /\ ~ent.unknown /\ (ent.signalled => ent.failed) /\ sup.sent
  BY <1>2, <1>6 DEF EntryInv, FAILED_CAPTURE_EXIT
<1>9. ent'.code = 0 => ~ent'.failed /\ ~ent'.signalled /\ wire.sent = 0
  <2>1. ent'.code = 0 => ~ent.failed /\ ~e.signalled /\ ~e.seen /\ ~e.broken
    BY <1>1, <1>2, <1>4, <1>8 DEF EntryInv
  <2>2. ent'.code = 0 => wire.unread = 0 /\ ~ent.seen /\ ~ent.broken
    BY <1>3, <1>4, <1>8, <2>1
  <2> QED
    BY <1>3, <1>5, <1>7, <2>1, <2>2 DEF Unseen
<1>10. EntryInv(ent', sup, wire')
  <2>1. Unseen(ent', wire')
    BY <1>4, <1>7 DEF Unseen
  <2> QED
    BY <1>1, <1>2, <1>4, <1>5, <1>6, <1>7, <1>8, <1>9, <2>1 DEF EntryInv, Unseen, NoCode, FAILED_CAPTURE_EXIT
<1> QED
  BY <1>1, <1>2, <1>4, <1>6, <1>10, WorkerStays DEF EntryStepOK

\* The close only confirms the code or turns it into 66.
LEMMA RetireCloseOK ==
  ASSUME Entered, RetireClose
  PROVE  EntryStepOK
<1>1. ent.pc = "close" /\ UNCHANGED worker /\ wire' = wire /\ sup' = sup
  BY DEF RetireClose, Pass, worker
<1>2. /\ ent \in EntryRecord /\ EntryInv(ent, sup, wire) /\ Supervised /\ wire \in WireRecord
      /\ SupInv(sup, wk, prov, packet.of)
  BY DEF Entered, Supervised
<1>3. /\ ent' \in EntryRecord /\ ent'.pc = "done" /\ EntOnly(ent, ent', {"pin", "pc", "exit", "failed"})
      /\ ent'.exit = ent.code \/ ent'.exit = 66
      /\ ent.failed => ent'.failed
  <2>1. CASE ent' = [ent EXCEPT !.pin = IF @ = "active" THEN "retired" ELSE @, !.pc = "done", !.exit = ent.code]
    BY <1>2, <2>1 DEF EntryRecord, EntOnly, EntFields
  <2>2. CASE ent' = [ent EXCEPT !.pc = "done", !.exit = INCOMPLETE_EXIT, !.failed = TRUE]
    BY <1>2, <2>2 DEF EntryRecord, EntOnly, EntFields, INCOMPLETE_EXIT
  <2> QED
    BY <2>1, <2>2 DEF RetireClose
<1>4. /\ ent'.called = ent.called /\ ent'.seen = ent.seen /\ ent'.signalled = ent.signalled
      /\ ent'.cancelled = ent.cancelled /\ ent'.unknown = ent.unknown /\ ent'.code = ent.code
      /\ ent'.sentAtRetire = ent.sentAtRetire
  BY <1>3 DEF EntOnly, EntFields
<1>5. ent'.exit \in {0, 65} => ent.code = ent'.exit
  BY <1>3
<1>6. EntryInv(ent', sup, wire)
  BY <1>1, <1>2, <1>3, <1>4, <1>5 DEF EntryInv, FAILED_CAPTURE_EXIT
<1> QED
  BY <1>1, <1>2, <1>3, <1>6, WorkerStays DEF EntryStepOK

LEMMA EntryStepKeeps ==
  ASSUME Entered, EntryStep
  PROVE  EntryStepOK
  BY StartControlOK, OpenRootOK, CallOK, CloseRootsOK, CallReturnsOK, RestoreOK, CompleteOK, ExitCheckOK,
     RetirePollOK, RetireCloseOK DEF EntryStep

LEMMA SupervisedStep ==
  ASSUME Entered, LaunchStep \/ FinishStep
  PROVE  EntryStepOK
<1>1. Supervised /\ sup \in SupervisorRecord
  BY DEF Entered, Supervised, SupInv
<1>2. SupStepOK
  BY <1>1, SupervisorStepOK
<1>3. ent' \in EntryRecord /\ wire' \in WireRecord /\ EntryInv(ent', sup', wire')
  BY <1>1, <1>2, EntryBesideSupervisor DEF Entered
<1> QED
  BY <1>2, <1>3 DEF EntryStepOK, SupStepOK

\* The worker, the provider and the clock run beside the supervising process.
LEMMA OutsideStep ==
  ASSUME Entered, UNCHANGED Outer, WorkerInv', WorkerSide
  PROVE  EntryStepOK
<1>1. sup' = sup /\ ent' = ent /\ wire' = wire
  BY DEF Outer
<1>2. SupInv(sup, wk', prov', packet'.of)
  BY BesideSupervisor DEF Entered, Supervised
<1> QED
  BY <1>1, <1>2 DEF EntryStepOK, Entered

LEMMA ParentCancelsOK ==
  ASSUME Entered, NEW n \in {1, 2}, ParentCancels(n), ent.pc # "done"
  PROVE  EntryStepOK
<1>1. /\ sup' = sup /\ ent' = ent /\ UNCHANGED worker /\ wire \in WireRecord /\ ent \in EntryRecord
      /\ wire' = [unread |-> wire.unread + n, sent |-> wire.sent + n]
      /\ SupInv(sup, wk, prov, packet.of) /\ Supervised
  BY DEF ParentCancels, Entered, Supervised
<1>2. /\ wire' \in WireRecord /\ (wire.unread = wire.sent => wire'.unread = wire'.sent)
  BY <1>1 DEF WireRecord
<1>3. EntryInv(ent, sup, wire')
  BY <1>2 DEF Entered, EntryInv
<1> QED
  BY <1>1, <1>2, <1>3, WorkerStays DEF EntryStepOK

LEMMA SignalArrivesOK ==
  ASSUME Entered, SignalArrives, ent.pc # "done"
  PROVE  EntryStepOK
<1>1. /\ sup' = sup /\ ent.handlers /\ UNCHANGED worker /\ wire' = wire /\ ent \in EntryRecord
      /\ ent' = [ent EXCEPT !.signalled = TRUE] /\ wire \in WireRecord /\ EntryInv(ent, sup, wire)
      /\ SupInv(sup, wk, prov, packet.of) /\ Supervised
  BY DEF SignalArrives, Entered, Supervised
<1>2. /\ ent' \in EntryRecord /\ ent'.signalled /\ EntOnly(ent, ent', {"signalled"})
  BY <1>1 DEF EntryRecord, EntOnly, EntFields
<1>3. /\ ent'.pc = ent.pc /\ ent'.pin = ent.pin /\ ent'.handlers = ent.handlers /\ ent'.called = ent.called
      /\ ent'.failed = ent.failed /\ ent'.cancelled = ent.cancelled /\ ent'.unknown = ent.unknown
      /\ ent'.exit = ent.exit /\ ent'.code = ent.code /\ ent'.seen = ent.seen /\ ent'.broken = ent.broken
  BY <1>2 DEF EntOnly, EntFields
<1>4. EntryInv(ent', sup, wire)
  BY <1>1, <1>2, <1>3 DEF EntryInv, NoCode, FAILED_CAPTURE_EXIT
<1> QED
  BY <1>1, <1>2, <1>4, WorkerStays DEF EntryStepOK

-----------------------------------------------------------------------------
(* The invariant and what follows from it.                                   *)

LEMMA InvariantParts ==
  SupervisorInv <=> now \in Nat /\ role \in {"posix", "windows"} /\ faults \in Nat /\ Entered
<1>1. SupervisorInv => Entered
  BY DEF SupervisorInv, TypeOK, SupervisorOK, EntryOK, Entered, Supervised, WorkerInv, SupInv, WireRecord
<1>2. now \in Nat /\ role \in {"posix", "windows"} /\ faults \in Nat /\ Entered => SupervisorInv
  BY DEF SupervisorInv, TypeOK, SupervisorOK, EntryOK, Entered, Supervised, WorkerInv, SupInv, WireRecord
<1> QED
  BY <1>1, <1>2 DEF SupervisorInv, TypeOK

LEMMA InvariantHolds ==
  Init => SupervisorInv
<1> SUFFICES ASSUME Init PROVE SupervisorInv
  OBVIOUS
<1>1. now \in Nat /\ role \in {"posix", "windows"} /\ faults \in Nat
  BY WindowAssumption DEF Init, CaptureInit
<1>2. WorkerInv
  <2>1. /\ prov = [leader |-> "none", helper |-> FALSE, code |-> 2, written |-> 0] /\ cap = NewCapture
        /\ wk = [pc |-> "none", code |-> NoCode] /\ packet = NoPacket
    BY DEF Init, CaptureInit, WorkerInit
  <2>2. prov \in ProviderRecord /\ Unstarted(prov)
    BY <2>1 DEF ProviderRecord, Unstarted
  <2>3. CaptureInv(cap, prov)
    BY <2>1, <2>2, NewCaptureOK
  <2>4. wk \in WorkerRecord /\ wk.pc = "none"
    BY <2>1 DEF WorkerRecord, NoCode
  <2>5. NewCapture.seen \in [Streams -> Nat]
    BY DEF NewCapture
  <2>6. packet \in PacketRecord /\ packet.of = "none"
    BY <2>1, <2>5 DEF NoPacket, PacketRecord
  <2> QED
    BY <2>1, <2>2, <2>3, <2>4, <2>6 DEF WorkerInv, CaptureOK, CaptureInv, WorkerOK, AfterCapture
<1>3. SupInv(sup, wk, prov, packet.of)
  <2>1. /\ sup.pc = "idle" /\ sup.slots = [n \in Owners |-> "none"] /\ ~sup.retired /\ ~sup.waiting /\ ~sup.control
        /\ sup.returned = "none" /\ ~sup.sent /\ ~sup.failed /\ wk.pc = "none"
    BY DEF Init, WorkerInit
  <2>2. sup \in SupervisorRecord
    <3>1. [n \in Owners |-> "none"] \in [Owners -> SlotStates]
      BY DEF SlotStates
    <3>2. "idle" \in SupPcs
      BY DEF SupPcs, Undrained, BeforeLaunch
    <3>3. NoCode \in Nat
      BY DEF NoCode
    <3> QED
      BY <3>1, <3>2, <3>3 DEF Init, SupervisorRecord, SupPcs
  <2>3. SupHolds(sup, wk, prov)
    BY <2>1, OwnerNames DEF SupHolds, SupFileClosed, BeforeLaunch, Undrained, Readback
  <2>4. SupResult(sup, packet.of)
    BY <2>1 DEF SupResult, BeforeLaunch, Undrained, Readback
  <2> QED
    BY <2>2, <2>3, <2>4 DEF SupInv
<1>4. ent \in EntryRecord /\ wire \in WireRecord /\ EntryInv(ent, sup, wire)
  <2>1. ent \in EntryRecord /\ wire \in WireRecord
    BY DEF Init, EntryRecord, WireRecord, NoCode
  <2>2. /\ ent.pc = "control" /\ ~ent.called /\ ~ent.cancelled /\ ~ent.seen /\ ent.exit = NoCode /\ ent.code = NoCode
        /\ wire.unread = wire.sent /\ sup.pc = "idle" /\ sup.slots = [n \in Owners |-> "none"]
    BY DEF Init
  <2> QED
    BY <2>1, <2>2, OwnerNames DEF EntryInv, NoCode, FAILED_CAPTURE_EXIT
<1> QED
  BY <1>1, <1>2, <1>3, <1>4, InvariantParts DEF Entered, Supervised

\* The clock, the route and the count of faults keep their types.
LEMMA ClockTypes ==
  ASSUME SupervisorInv, Next
  PROVE  now' \in Nat /\ role' \in {"posix", "windows"} /\ faults' \in Nat
<1>0. now \in Nat /\ role \in {"posix", "windows"} /\ faults \in Nat
  BY DEF SupervisorInv, TypeOK
<1>1. CASE LaunchStep
  <2>1. now' = now /\ role' = role
    BY <1>1 DEF LaunchStep, LaunchAcquire, LaunchSpawn, Wait, WaitReturns, Pass
  <2>2. faults' = faults \/ faults' = faults + 1
    BY <1>1 DEF LaunchStep, LaunchAcquire, LaunchSpawn, Wait, WaitReturns, Fault, NoFault
  <2> QED
    BY <1>0, <2>1, <2>2
<1>2. CASE FinishStep
  <2>1. now' = now /\ role' = role
    BY <1>2 DEF FinishStep, Finish, SupDrain, SupCloseScope, PersistNative, ReadStdout, ReadStderr, ReadbackStep,
                ReadPacket, SupCloseOwners, Transcript, Send, Pass
  <2>2. faults' = faults \/ faults' = faults + 1
    BY <1>2 DEF FinishStep, Finish, SupDrain, SupCloseScope, SupClose, PersistNative, ReadStdout, ReadStderr,
                ReadbackStep, ReadPacket, SupCloseOwners, Transcript, Send, Fault, NoFault
  <2> QED
    BY <1>0, <2>1, <2>2
<1>3. CASE EntryStep
  <2>1. now' = now /\ role' = role
    BY <1>3 DEF EntryStep, StartControl, OpenRoot, Call, CloseRoots, CallReturns, Restore, Complete, ExitCheck,
                RetirePoll, RetireClose, Pass
  <2>2. faults' = faults \/ faults' = faults + 1
    BY <1>3 DEF EntryStep, StartControl, OpenRoot, Call, CloseRoots, CallReturns, Restore, Complete, ExitCheck,
                RetirePoll, RetireClose, Fault, NoFault
  <2> QED
    BY <1>0, <2>1, <2>2
<1>4. CASE WorkerStep
  <2>1. now' = now /\ role' = role /\ (faults' = faults \/ faults' = faults + 1)
    <3>1. CaptureStep => now' = now /\ role' = role /\ (faults' = faults \/ faults' = faults + 1)
      BY DEF CaptureStep, TakeDirectory, Prepare, Spawn, Poll, Polled, Exit, DrainEnds, CloseScope, CaptureStream,
             CaptureRead, CloseOwners, Conclude, CloseAttempt, Fault, NoFault
    <3> QED
      BY <1>4, <3>1 DEF WorkerStep, OpenRoots, Capture, Collect, FinishTools, CreatePacket, WritePacket, CloseAll,
             Acknowledge, Receipt, StepTo, Fault, NoFault
  <2> QED
    BY <1>0, <2>1
<1>5. CASE WorkerDies \/ PacketReplaced
  BY <1>0, <1>5 DEF WorkerDies, PacketReplaced, Fault
<1>6. CASE ProviderStep /\ UNCHANGED <<now, role, faults, cap, wk, packet, Outer>>
  BY <1>0, <1>6
<1>7. CASE Tick /\ UNCHANGED <<role, faults, worker, Outer>>
  BY <1>0, <1>7 DEF Tick
<1>8. CASE (\E n \in {1, 2} : ParentCancels(n)) \/ SignalArrives
  BY <1>0, <1>8 DEF ParentCancels, SignalArrives
<1> QED
  BY <1>1, <1>2, <1>3, <1>4, <1>5, <1>6, <1>7, <1>8 DEF Next

LEMMA InvariantKept ==
  SupervisorInv /\ [Next \/ Done]_vars => SupervisorInv'
<1> SUFFICES ASSUME SupervisorInv, [Next \/ Done]_vars PROVE SupervisorInv'
  OBVIOUS
<1>0. Entered /\ WorkerInv
  BY InvariantParts DEF Entered, Supervised
<1>1. CASE Next
  <2>0. ent.pc # "done"
    BY <1>1 DEF Next
  <2>1. EntryStepOK
    <3>1. CASE LaunchStep \/ FinishStep
      BY <1>0, <3>1, SupervisedStep
    <3>2. CASE EntryStep
      BY <1>0, <3>2, EntryStepKeeps
    <3>3. CASE (WorkerStep \/ WorkerDies \/ PacketReplaced) /\ UNCHANGED Outer
      BY <1>0, <3>3, WorkerStepOK, WorkerDiesOK, PacketReplacedOK, OutsideStep
    <3>4. CASE ProviderStep /\ UNCHANGED <<now, role, faults, cap, wk, packet, Outer>>
      BY <1>0, <3>4, ProviderStepOK, OutsideStep
    <3>5. CASE Tick /\ UNCHANGED <<role, faults, worker, Outer>>
      <4>1. WorkerInv' /\ WorkerSide
        BY <1>0, <3>5 DEF worker, WorkerInv, CaptureOK, WorkerOK, WorkerSide
      <4> QED
        BY <1>0, <3>5, <4>1, OutsideStep
    <3>6. CASE \E n \in {1, 2} : ParentCancels(n)
      BY <1>0, <2>0, <3>6, ParentCancelsOK
    <3>7. CASE SignalArrives
      BY <1>0, <2>0, <3>7, SignalArrivesOK
    <3> QED
      BY <1>1, <3>1, <3>2, <3>3, <3>4, <3>5, <3>6, <3>7 DEF Next
  <2>2. now' \in Nat /\ role' \in {"posix", "windows"} /\ faults' \in Nat
    BY <1>1, ClockTypes
  <2>3. TypeOK'
    BY <2>1, <2>2 DEF EntryStepOK, TypeOK, WorkerInv, SupInv, WireRecord
  <2> QED
    BY <2>1, <2>3 DEF EntryStepOK, SupervisorInv, WorkerInv, SupervisorOK, SupInv, EntryOK
<1>2. CASE UNCHANGED vars
  BY <1>2 DEF vars, SupervisorInv, TypeOK, CaptureOK, WorkerOK, SupervisorOK, EntryOK
<1> QED
  BY <1>1, <1>2 DEF Done

\* The inductive invariant: what the capture, the worker, the supervisor and
\* the entry know of each other and of the provider's processes, at every step
\* of scripts/hosted_cache_provider_{lifecycle,launch,supervisor,entry,cancel}.py.
THEOREM SupervisorInvariant == Spec => []SupervisorInv
  BY InvariantHolds, InvariantKept, PTL DEF Spec

\* The exit code the cache action believes is truthful: 0 only after a provider
\* that exited 0, with no process left, complete captures, every owner closed
\* and no cancellation sent before the retirement of the control pipe began; 65 only with the processes gone and the
\* owners closed.
THEOREM ExitTruthfulHolds == Spec => []ExitTruthful
<1>1. SupervisorInv => ExitTruthful
  <2> SUFFICES ASSUME SupervisorInv PROVE ExitTruthful
    OBVIOUS
  <2>1. /\ SupHolds(sup, wk, prov) /\ SupResult(sup, packet.of) /\ EntryInv(ent, sup, wire) /\ WorkerOK
    BY DEF SupervisorInv, SupervisorOK, EntryOK
  <2>2. ent.exit \in {0, FAILED_CAPTURE_EXIT} =>
          /\ sup.sent /\ ~ent.unknown /\ sup.retired /\ Released(sup) /\ ~sup.unknown
          /\ ~Processes(prov) /\ ~Alive
    BY <2>1 DEF EntryInv, SupResult, SupHolds, Alive
  <2>3. ent.exit = 0 => /\ ~sup.failed /\ ~ent.signalled /\ ent.sentAtRetire = 0
                        /\ sup.returned = "result" /\ packet.of = "result"
    BY <2>1, <2>2 DEF EntryInv, SupResult
  <2>4. packet.of = "result" => Succeeded(prov) /\ SeenAll(packet.seen, prov)
    BY <2>1 DEF WorkerOK
  <2> QED
    BY <2>2, <2>3, <2>4 DEF ExitTruthful, AllReleased, Released, Succeeded, SeenAll
<1> QED
  BY <1>1, SupervisorInvariant, PTL

\* No file or directory is released while a process that may write it runs:
\* neither by the capture's close roster nor by the supervisor's.
THEOREM PinsHeldHolds == Spec => []PinsHeld
<1>1. SupervisorInv => PinsHeld
  <2> SUFFICES ASSUME SupervisorInv PROVE PinsHeld
    OBVIOUS
  <2>1. /\ SupHolds(sup, wk, prov) /\ WorkerOK /\ CaptureOK /\ WorkerInv
    BY InvariantParts DEF SupervisorInv, SupervisorOK, Entered, Supervised
  <2>2. FileClosed(cap) => ~Processes(prov)
    <3>1. CASE wk.pc # "gone"
      BY <2>1, <3>1 DEF CaptureOK, HoldsOK
    <3>2. CASE wk.pc = "gone"
      <4>1. cap.slots = [n \in Names |-> "none"]
        BY <2>1, <3>2 DEF WorkerOK, NewCapture
      <4> QED
        BY <4>1, SlotNames DEF FileClosed, Streams, Logs
    <3> QED
      BY <3>1, <3>2
  <2>3. SupFileClosed(sup) => ~Processes(prov) /\ ~Alive
    <3>1. CASE sup.retired
      BY <2>1, <3>1 DEF SupHolds, Alive
    <3>2. CASE sup.pc = "idle"
      <4>1. wk.pc = "none" /\ Unstarted(prov)
        BY <2>1, <3>2 DEF SupHolds, BeforeLaunch, WorkerOK
      <4> QED
        BY <4>1 DEF Unstarted, Processes, Alive
    <3> QED
      BY <2>1, <3>1, <3>2 DEF SupHolds
  <2> QED
    BY <2>2, <2>3 DEF PinsHeld, FileClosed, SupFileClosed
<1> QED
  BY <1>1, SupervisorInvariant, PTL
=============================================================================
